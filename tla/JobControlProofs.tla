--------------------------- MODULE JobControlProofs ---------------------------
(***************************************************************************)
(* Proofs about JobControl, for every set of pids, number of jobs and      *)
(* length of pipelines, with and without a terminal: first who is in which *)
(* job and who owns the terminal, then the states that are listed.         *)
(***************************************************************************)
EXTENDS JobControl, FiniteSetTheorems, TLAPS

USE DEF NoJob, Ids

\* The checked properties together are inductive: TerminalOwner needs to know
\* which job is waited for, JobsAreGroups that no other job has the group a
\* status or a new child belongs to.
IInv == TypeOK /\ JobsAreGroups /\ GroupsAreDisjoint /\ TerminalOwner /\ WaitedIsForeground

\* Appending adds the new element at the end and nothing else.
LEMMA AppendRange ==
  ASSUME NEW S, NEW s \in Seq(S), NEW e \in S
  PROVE  /\ Append(s, e) \in Seq(S)
         /\ Append(s, e) # << >>
         /\ Append(s, e)[1] = IF s = << >> THEN e ELSE s[1]
         /\ Range(Append(s, e)) = Range(s) \cup {e}
<1>1. /\ Append(s, e) \in Seq(S)
      /\ DOMAIN Append(s, e) = DOMAIN s \cup {Len(s) + 1}
      /\ \A i \in DOMAIN s : Append(s, e)[i] = s[i]
      /\ Append(s, e)[Len(s) + 1] = e
  OBVIOUS
<1>2. CASE s = << >>
  <2>1. Append(s, e) = <<e>>
    BY <1>2
  <2>2. Append(s, e) # << >> /\ Append(s, e)[1] = e
    BY <2>1
  <2> QED BY <1>1, <1>2, <2>2 DEF Range
<1>3. CASE s # << >>
  <2>1. 1 \in DOMAIN s
    BY <1>3
  <2>2. Append(s, e)[1] = s[1] /\ Append(s, e) # << >>
    BY <1>1, <2>1
  <2> QED BY <1>1, <1>3, <2>2 DEF Range
<1> QED BY <1>2, <1>3

\* A process is in the group of at most one job, the one that lists it.
LEMMA JobOfProcess ==
  ASSUME IInv, NEW p \in DOMAIN procs, NEW j \in DOMAIN jobs
  PROVE  /\ p \in jobs[j].pids <=> procs[p].pg = jobs[j].pgid
         /\ p \in jobs[j].pids => JobsOf(p) = {j}
<1>1. \A i \in DOMAIN jobs : p \in jobs[i].pids <=> procs[p].pg = jobs[i].pgid
  BY DEF IInv, JobsAreGroups, Children
<1> QED BY <1>1 DEF IInv, GroupsAreDisjoint, JobsOf

\* The processes change, but not which there are and in which groups.
LEMMA SameGroups ==
  ASSUME DOMAIN procs' = DOMAIN procs,
         \A p \in DOMAIN procs : procs'[p].pg = procs[p].pg
  PROVE  \A pg : Children(pg)' = Children(pg)
  BY DEF Children

\* A process that changes its own state only keeps the invariant.
LEMMA ProcessKeeps ==
  ASSUME IInv, DOMAIN procs' = DOMAIN procs,
         \A p \in DOMAIN procs : procs'[p] \in Proc /\ procs'[p].pg = procs[p].pg,
         UNCHANGED <<terminal, table, spawned, command, at, waited>>
  PROVE  IInv'
<1>1. \A pg : Children(pg)' = Children(pg)
  BY SameGroups
<1>2. TypeOK'
  BY DEF IInv, TypeOK, table
<1>3. JobsAreGroups'
  BY <1>1 DEF IInv, JobsAreGroups, table
<1>4. GroupsAreDisjoint'
  BY <1>1 DEF IInv, GroupsAreDisjoint, table
<1>5. TerminalOwner' /\ WaitedIsForeground'
  BY DEF IInv, TerminalOwner, WaitedIsForeground, table
<1> QED BY <1>2, <1>3, <1>4, <1>5 DEF IInv

\* The shell's thread goes on outside a wait and nothing else changes.
LEMMA ThreadKeeps ==
  ASSUME IInv, at # "wait", at' \in {"prompt", "reap", "exited"},
         UNCHANGED <<kernel, table, spawned, command, waited>>
  PROVE  IInv'
<1>1. TypeOK'
  BY DEF IInv, TypeOK, table, kernel
<1>2. JobsAreGroups' /\ GroupsAreDisjoint'
  BY DEF IInv, JobsAreGroups, GroupsAreDisjoint, Children, table, kernel
<1>3. TerminalOwner' /\ WaitedIsForeground'
  BY DEF IInv, TerminalOwner, WaitedIsForeground, table, kernel
<1> QED BY <1>1, <1>2, <1>3 DEF IInv

\* kill(-pg, SIGCONT) changes no group.
LEMMA ContinuedType ==
  ASSUME TypeOK, NEW pg, procs' = Continued(pg)
  PROVE  /\ DOMAIN procs' = DOMAIN procs
         /\ \A p \in DOMAIN procs : procs'[p] \in Proc /\ procs'[p].pg = procs[p].pg
<1>1. \A p \in DOMAIN procs : procs[p] \in Proc
  BY DEF TypeOK
<1> QED BY <1>1 DEF Continued, Proc

\* What a collected status leaves of processes and jobs: every job that is
\* still listed has the processes of its group, and there are some.
LEMMA StatusKeepsJobs ==
  ASSUME IInv, NEW p \in DOMAIN procs, handle_child_status(p), procs' = Collected(p)
  PROVE  /\ DOMAIN procs' \subseteq DOMAIN procs
         /\ \A q \in DOMAIN procs' : procs'[q] \in Proc /\ procs'[q].pg = procs[q].pg
         /\ DOMAIN jobs' \subseteq DOMAIN jobs
         /\ \A j \in DOMAIN jobs' :
              /\ jobs'[j] \in Job
              /\ jobs'[j].pgid = jobs[j].pgid
              /\ jobs'[j].background => jobs[j].background
         /\ JobsAreGroups'
<1>1. \A q \in DOMAIN procs : procs[q] \in Proc
  BY DEF IInv, TypeOK
<1>2. \A j \in DOMAIN jobs : jobs[j] \in Job
  BY DEF IInv, TypeOK
<1>3. /\ DOMAIN procs' = IF Zombie(p) THEN DOMAIN procs \ {p} ELSE DOMAIN procs
      /\ \A q \in DOMAIN procs' : procs'[q] \in Proc /\ procs'[q].pg = procs[q].pg
  BY <1>1 DEF Collected, Restrict, Proc
<1>4. \A pg : Children(pg)' = IF Zombie(p) THEN Children(pg) \ {p} ELSE Children(pg)
  BY <1>3 DEF Children
<1>5. \A j \in DOMAIN jobs : jobs[j].pids # {} /\ jobs[j].pids = Children(jobs[j].pgid)
  BY DEF IInv, JobsAreGroups
<1>6. CASE JobsOf(p) = {}
  <2>1. jobs' = jobs
    BY <1>6 DEF handle_child_status
  <2>2. \A j \in DOMAIN jobs : p \notin Children(jobs[j].pgid)
    BY <1>5, <1>6 DEF JobsOf
  <2>3. JobsAreGroups'
    BY <1>4, <1>5, <2>1, <2>2 DEF JobsAreGroups
  <2> QED BY <1>2, <1>3, <2>1, <2>3
<1>7. CASE JobsOf(p) # {}
  <2>1. PICK j \in JobsOf(p) :
          jobs' = IF Zombie(p) /\ jobs[j].pids = {p} THEN remove_job(j)
                  ELSE IF Zombie(p) THEN [jobs EXCEPT ![j].pids = @ \ {p}]
                  ELSE IF procs[p].note = "stopped" THEN [jobs EXCEPT ![j] = StoppedJob(@)]
                  ELSE [jobs EXCEPT ![j] = ContinuedJob(@)]
    BY <1>7 DEF handle_child_status
  <2>2. j \in DOMAIN jobs /\ p \in jobs[j].pids
    BY DEF JobsOf
  <2>3. \A i \in DOMAIN jobs : i # j => p \notin jobs[i].pids
    BY <2>2, JobOfProcess
  <2>4. CASE Zombie(p) /\ jobs[j].pids = {p}
    <3>1. DOMAIN jobs' = DOMAIN jobs \ {j} /\ \A i \in DOMAIN jobs' : jobs'[i] = jobs[i]
      BY <2>1, <2>4 DEF remove_job, Restrict
    <3>2. JobsAreGroups'
      BY <1>4, <1>5, <2>3, <3>1 DEF JobsAreGroups
    <3> QED BY <1>2, <1>3, <3>1, <3>2
  <2>5. CASE Zombie(p) /\ jobs[j].pids # {p}
    <3>1. jobs' = [jobs EXCEPT ![j].pids = @ \ {p}]
      BY <2>1, <2>5
    <3>2. /\ DOMAIN jobs' = DOMAIN jobs
          /\ \A i \in DOMAIN jobs : i # j => jobs'[i] = jobs[i]
          /\ jobs'[j] = [jobs[j] EXCEPT !.pids = @ \ {p}]
      BY <2>2, <3>1
    <3>3. /\ jobs'[j] \in Job
          /\ jobs'[j].pids = jobs[j].pids \ {p}
          /\ jobs'[j].pgid = jobs[j].pgid
          /\ jobs'[j].background = jobs[j].background
      BY <1>2, <2>2, <3>2 DEF Job
    <3>4. jobs[j].pids \ {p} # {}
      BY <1>5, <2>2, <2>5
    <3>5. \A pg : Children(pg)' = Children(pg) \ {p}
      BY <1>4, <2>5
    <3>6. ASSUME NEW i \in DOMAIN jobs
          PROVE  jobs'[i].pids # {} /\ jobs'[i].pids = Children(jobs[i].pgid) \ {p}
      <4>1. CASE i = j
        BY <1>5, <2>2, <3>3, <3>4, <4>1
      <4>2. CASE i # j
        BY <1>5, <2>3, <3>2, <4>2
      <4> QED BY <4>1, <4>2
    <3>7. \A i \in DOMAIN jobs : jobs'[i].pgid = jobs[i].pgid
      BY <3>2, <3>3
    <3>8. JobsAreGroups'
      BY <3>2, <3>5, <3>6, <3>7 DEF JobsAreGroups
    <3> QED BY <1>2, <1>3, <3>2, <3>3, <3>8
  <2>6. CASE ~ Zombie(p)
    <3>1. /\ DOMAIN jobs' = DOMAIN jobs
          /\ \A i \in DOMAIN jobs : i # j => jobs'[i] = jobs[i]
          /\ jobs'[j] \in {StoppedJob(jobs[j]), ContinuedJob(jobs[j])}
      BY <2>1, <2>2, <2>6
    <3>2. /\ jobs'[j] \in Job
          /\ jobs'[j].pids = jobs[j].pids
          /\ jobs'[j].pgid = jobs[j].pgid
          /\ jobs'[j].background => jobs[j].background
      BY <1>2, <2>2, <3>1 DEF Job, StoppedJob, ContinuedJob
    <3>3. JobsAreGroups'
      BY <1>4, <1>5, <2>6, <3>1, <3>2 DEF JobsAreGroups
    <3> QED BY <1>2, <1>3, <3>1, <3>2, <3>3
  <2> QED BY <2>4, <2>5, <2>6
<1> QED BY <1>6, <1>7

\* A fresh pid is neither a child nor the group of one.
LEMMA FreshPid ==
  ASSUME NEW p \in FreePids
  PROVE  /\ p \in Pids
         /\ p \notin DOMAIN procs
         /\ \A q \in DOMAIN procs : procs[q].pg # p
  BY DEF FreePids

\* No process, no job, and the shell has the terminal.
LEMMA InitIInv == Init => IInv
<1> SUFFICES ASSUME Init PROVE IInv
  OBVIOUS
<1>1. TypeOK
  BY JobAssumption DEF Init, TypeOK
<1>2. JobsAreGroups /\ GroupsAreDisjoint /\ TerminalOwner /\ WaitedIsForeground
  BY DEF Init, JobsAreGroups, GroupsAreDisjoint, TerminalOwner, WaitedIsForeground
<1> QED BY <1>1, <1>2 DEF IInv

\* A process stops, goes on or ends.
LEMMA ProcessStep ==
  ASSUME IInv, NEW p \in DOMAIN procs, Process(p)
  PROVE  IInv'
<1>1. \A q \in DOMAIN procs : procs[q] \in Proc
  BY DEF IInv, TypeOK
<1>2. /\ DOMAIN procs' = DOMAIN procs
      /\ \A q \in DOMAIN procs : procs'[q] \in Proc /\ procs'[q].pg = procs[q].pg
  BY <1>1 DEF Process, Stop, Continue, End, Proc
<1>3. UNCHANGED <<terminal, table, spawned, command, at, waited>>
  BY DEF Process, Stop, Continue, End
<1> QED BY <1>2, <1>3, ProcessKeeps

\* A command starts: nothing is forked yet.
LEMMA ExecuteStep ==
  ASSUME IInv, Execute
  PROVE  IInv'
<1>1. TypeOK'
  BY DEF IInv, TypeOK, Execute, table, kernel
<1>2. JobsAreGroups' /\ GroupsAreDisjoint'
  BY DEF IInv, JobsAreGroups, GroupsAreDisjoint, Children, Execute, table, kernel
<1>3. TerminalOwner' /\ WaitedIsForeground'
  BY DEF IInv, TerminalOwner, WaitedIsForeground, Execute, table, kernel
<1> QED BY <1>1, <1>2, <1>3 DEF IInv

\* A fork: the child joins the group of the pipeline and of no job.
LEMMA SpawnStep ==
  ASSUME IInv, Spawn
  PROVE  IInv'
<1>1. PICK p \in FreePids :
        /\ spawned' = Append(spawned, p)
        /\ procs' = Bind(procs, p, [st |-> "running", pg |-> ChildGroup(p), note |-> "none"])
  BY DEF Spawn
<1>2. /\ at = "spawn" /\ at' = "spawn"
      /\ UNCHANGED <<terminal, jobs, next_job_id, command, waited>>
  BY DEF Spawn, table
<1>3. /\ p \in Pids
      /\ p \notin DOMAIN procs
      /\ \A q \in DOMAIN procs : procs[q].pg # p
  BY FreshPid
<1>4. spawned \in Seq(Pids)
  BY DEF IInv, TypeOK
<1>5. /\ spawned' \in Seq(Pids)
      /\ spawned' # << >>
      /\ spawned'[1] = IF spawned = << >> THEN p ELSE spawned[1]
      /\ Range(spawned') = Range(spawned) \cup {p}
  BY <1>1, <1>3, <1>4, AppendRange
<1>6. ChildGroup(p) \in Pids
  <2>1. CASE spawned = << >>
    BY <1>3, <2>1 DEF ChildGroup
  <2>2. CASE spawned # << >>
    BY <1>4, <2>2 DEF ChildGroup
  <2> QED BY <2>1, <2>2
<1>7. PICK g \in Pids :
        /\ g = ChildGroup(p) /\ g = spawned'[1]
        /\ spawned = << >> => g = p
        /\ spawned # << >> => g = spawned[1]
  BY <1>5, <1>6 DEF ChildGroup
<1>8. /\ DOMAIN procs' = DOMAIN procs \cup {p}
      /\ \A q \in DOMAIN procs : procs'[q] = procs[q]
      /\ procs'[p] = [st |-> "running", pg |-> g, note |-> "none"]
  BY <1>1, <1>3, <1>7 DEF Bind
<1>9. \A pg : Children(pg)' = IF pg = g THEN Children(pg) \cup {p} ELSE Children(pg)
  BY <1>3, <1>8 DEF Children
<1>10. \A j \in DOMAIN jobs : jobs[j].pgid # g
  <2>1. CASE spawned = << >>
    <3> SUFFICES ASSUME NEW j \in DOMAIN jobs PROVE jobs[j].pgid # p
      BY <1>7, <2>1
    <3>1. PICK q \in Children(jobs[j].pgid) : TRUE
      BY DEF IInv, JobsAreGroups
    <3>2. q \in DOMAIN procs /\ procs[q].pg = jobs[j].pgid
      BY DEF Children
    <3> QED BY <1>3, <3>2
  <2>2. CASE spawned # << >>
    BY <1>2, <1>7, <2>2 DEF IInv, GroupsAreDisjoint
  <2> QED BY <2>1, <2>2
<1>11. Children(g)' = Range(spawned')
  <2>1. CASE spawned = << >>
    <3>1. Children(p) = {}
      BY <1>3 DEF Children
    <3>2. Range(spawned) = {}
      BY <2>1 DEF Range
    <3>3. Children(g)' = {p}
      BY <1>7, <1>9, <2>1, <3>1
    <3> QED BY <1>5, <3>2, <3>3
  <2>2. CASE spawned # << >>
    <3>1. Range(spawned) = Children(g)
      BY <1>2, <1>7, <2>2 DEF IInv, GroupsAreDisjoint
    <3> QED BY <1>5, <1>9, <3>1
  <2> QED BY <2>1, <2>2
<1>12. TypeOK'
  <2>1. \A q \in DOMAIN procs' : procs'[q] \in Proc
    BY <1>7, <1>8 DEF IInv, TypeOK, Proc
  <2> QED BY <1>2, <1>3, <1>5, <1>8, <2>1 DEF IInv, TypeOK
<1>13. JobsAreGroups'
  BY <1>2, <1>9, <1>10 DEF IInv, JobsAreGroups
<1>14. GroupsAreDisjoint'
  BY <1>2, <1>7, <1>10, <1>11 DEF IInv, GroupsAreDisjoint, Children
<1>15. TerminalOwner' /\ WaitedIsForeground'
  BY <1>2 DEF IInv, TerminalOwner, WaitedIsForeground
<1> QED BY <1>12, <1>13, <1>14, <1>15 DEF IInv

\* The thread gives up on a pipeline: nothing of the kernel changes.
LEMMA SpawnFailsStep ==
  ASSUME IInv, SpawnFails
  PROVE  IInv'
<1>1. TypeOK'
  BY DEF IInv, TypeOK, SpawnFails, table, kernel
<1>2. JobsAreGroups' /\ GroupsAreDisjoint'
  BY DEF IInv, JobsAreGroups, GroupsAreDisjoint, Children, SpawnFails, table, kernel
<1>3. TerminalOwner' /\ WaitedIsForeground'
  BY DEF IInv, TerminalOwner, WaitedIsForeground, SpawnFails, table, kernel
<1> QED BY <1>1, <1>2, <1>3 DEF IInv

\* The pipeline is complete: its group becomes the group of a job.
LEMMA RegisterStep ==
  ASSUME IInv, Register
  PROVE  IInv'
<1> DEFINE new == [pgid |-> spawned[1], pids |-> Range(spawned), state |-> "Running",
                   background |-> command.background]
<1>1. /\ at = "spawn" /\ Len(spawned) = command.length
      /\ jobs' = Bind(jobs, next_job_id, new)
      /\ next_job_id' = next_job_id + 1
      /\ UNCHANGED <<procs, spawned, command>>
  BY DEF Register
<1>2. /\ spawned \in Seq(Pids) /\ next_job_id \in Ids
      /\ command \in [length : 1 .. MAX_PIPE, background : BOOLEAN]
      /\ DOMAIN jobs \subseteq 1 .. next_job_id - 1
      /\ next_job_id \in Nat /\ next_job_id >= 1 /\ next_job_id # 0
  BY <1>1, JobAssumption DEF IInv, TypeOK
<1>3. 1 \in DOMAIN spawned /\ spawned # << >>
  BY <1>1, <1>2, JobAssumption
<1>4. spawned[1] \in Range(spawned) /\ spawned[1] \in Pids /\ Range(spawned) \subseteq Pids
  BY <1>2, <1>3 DEF Range
<1>5. new \in Job
  BY <1>2, <1>4 DEF Job
<1>6. /\ new.pids # {}
      /\ new.pids = Children(new.pgid)
      /\ \A j \in DOMAIN jobs : jobs[j].pgid # new.pgid
      /\ new.state = "Running" /\ new.background = command.background /\ new.pgid = spawned[1]
  BY <1>1, <1>3, <1>4 DEF IInv, GroupsAreDisjoint
<1> HIDE DEF new
<1>7. next_job_id \notin DOMAIN jobs
  BY <1>2
<1>8. /\ DOMAIN jobs' = DOMAIN jobs \cup {next_job_id}
      /\ \A j \in DOMAIN jobs : jobs'[j] = jobs[j]
      /\ jobs'[next_job_id] = new
  BY <1>1, <1>7 DEF Bind
<1>9. \A pg : Children(pg)' = Children(pg)
  BY <1>1 DEF Children
<1>10. waited = NoJob /\ terminal = shell_pgid
  BY <1>1 DEF IInv, WaitedIsForeground, TerminalOwner
<1>11. \/ /\ at' = "reap" /\ UNCHANGED <<terminal, waited>>
       \/ /\ ~ command.background
          /\ at' = "wait" /\ waited' = next_job_id /\ give_terminal_to(spawned[1])
  BY DEF Register
<1>12. TypeOK'
  <2>1. terminal' \in Pids \cup {shell_pgid}
    BY <1>4, <1>10, <1>11 DEF give_terminal_to
  <2>2. \A j \in DOMAIN jobs' : jobs'[j] \in Job
    BY <1>5, <1>8 DEF IInv, TypeOK
  <2>3. DOMAIN jobs' \subseteq 1 .. next_job_id' - 1 /\ next_job_id' \in 1 .. MAX_JOBS + 1
    BY <1>1, <1>2, <1>8, JobAssumption
  <2>4. waited' \in DOMAIN jobs' \cup {NoJob} /\ at' \in {"reap", "wait"}
    BY <1>8, <1>10, <1>11
  <2>5. DOMAIN procs' \subseteq Pids /\ \A p \in DOMAIN procs' : procs'[p] \in Proc
    BY <1>1 DEF IInv, TypeOK
  <2> QED BY <1>1, <1>2, <2>1, <2>2, <2>3, <2>4, <2>5 DEF TypeOK
<1>13. JobsAreGroups'
  BY <1>6, <1>8, <1>9 DEF IInv, JobsAreGroups
<1>14. GroupsAreDisjoint'
  BY <1>6, <1>8, <1>11 DEF IInv, GroupsAreDisjoint
<1>15. TerminalOwner'
  BY <1>6, <1>8, <1>10, <1>11, JobAssumption DEF TerminalOwner, give_terminal_to
<1>16. WaitedIsForeground'
  BY <1>2, <1>6, <1>8, <1>10, <1>11 DEF WaitedIsForeground
<1> QED BY <1>12, <1>13, <1>14, <1>15, <1>16 DEF IInv

\* terminate_group collects a child of the pipeline that was given up: it is
\* a process of no job.
LEMMA AbortReapStep ==
  ASSUME IInv, NEW p \in DOMAIN procs, AbortReap(p)
  PROVE  IInv'
<1>1. /\ at = "abort" /\ procs[p].pg = spawned[1] /\ Zombie(p)
      /\ procs' = Restrict(procs, DOMAIN procs \ {p})
      /\ UNCHANGED <<terminal, jobs, next_job_id, spawned, command, at, waited>>
  BY DEF AbortReap, Reportable, Collected, table
<1>2. /\ DOMAIN procs' = DOMAIN procs \ {p}
      /\ \A q \in DOMAIN procs' : procs'[q] = procs[q]
  BY <1>1 DEF Restrict
<1>3. \A pg : pg # spawned[1] => Children(pg)' = Children(pg)
  BY <1>1, <1>2 DEF Children
<1>4. \A j \in DOMAIN jobs : jobs[j].pgid # spawned[1]
  BY <1>1 DEF IInv, GroupsAreDisjoint
<1>5. TypeOK'
  BY <1>1, <1>2 DEF IInv, TypeOK
<1>6. JobsAreGroups'
  BY <1>1, <1>3, <1>4 DEF IInv, JobsAreGroups
<1>7. GroupsAreDisjoint' /\ TerminalOwner' /\ WaitedIsForeground'
  BY <1>1 DEF IInv, GroupsAreDisjoint, TerminalOwner, WaitedIsForeground
<1> QED BY <1>5, <1>6, <1>7 DEF IInv

\* reap_background_jobs handles one status.
LEMMA ReapStep ==
  ASSUME IInv, NEW p \in DOMAIN procs, Reap(p)
  PROVE  IInv'
<1>1. /\ at = "reap" /\ handle_child_status(p) /\ procs' = Collected(p)
      /\ UNCHANGED <<terminal, next_job_id, spawned, command, at, waited>>
  BY DEF Reap
<1>2. /\ DOMAIN procs' \subseteq DOMAIN procs
      /\ \A q \in DOMAIN procs' : procs'[q] \in Proc
      /\ DOMAIN jobs' \subseteq DOMAIN jobs
      /\ \A j \in DOMAIN jobs' : jobs'[j] \in Job /\ jobs'[j].pgid = jobs[j].pgid
      /\ JobsAreGroups'
  BY <1>1, StatusKeepsJobs
<1>3. waited = NoJob
  BY <1>1 DEF IInv, WaitedIsForeground
<1>4. TypeOK'
  BY <1>1, <1>2, <1>3 DEF IInv, TypeOK
<1>5. GroupsAreDisjoint' /\ TerminalOwner' /\ WaitedIsForeground'
  BY <1>1, <1>2 DEF IInv, GroupsAreDisjoint, TerminalOwner, WaitedIsForeground
<1> QED BY <1>2, <1>4, <1>5 DEF IInv

\* wait_for_job handles one status.  When it goes on waiting, the job it waits
\* for was changed at most in losing a process.
LEMMA WaitStep ==
  ASSUME IInv, NEW p \in DOMAIN procs, Wait(p)
  PROVE  IInv'
<1>1. /\ at = "wait" /\ handle_child_status(p) /\ procs' = Collected(p)
      /\ UNCHANGED <<next_job_id, spawned, command>>
  BY DEF Wait
<1>2. /\ DOMAIN procs' \subseteq DOMAIN procs
      /\ \A q \in DOMAIN procs' : procs'[q] \in Proc
      /\ DOMAIN jobs' \subseteq DOMAIN jobs
      /\ \A j \in DOMAIN jobs' :
           /\ jobs'[j] \in Job /\ jobs'[j].pgid = jobs[j].pgid
           /\ jobs'[j].background => jobs[j].background
      /\ JobsAreGroups'
  BY <1>1, StatusKeepsJobs
<1>3. /\ waited \in DOMAIN jobs /\ waited # NoJob /\ ~ jobs[waited].background
      /\ terminal = IF shell_interactive THEN jobs[waited].pgid ELSE shell_pgid
  BY <1>1 DEF IInv, TypeOK, WaitedIsForeground, TerminalOwner
<1>4. CASE WaitIsOver
  <2>1. at' = "reap" /\ waited' = NoJob /\ terminal' = shell_pgid
    BY <1>3, <1>4 DEF Wait, LeaveWait, give_terminal_to
  <2>2. TypeOK'
    BY <1>1, <1>2, <2>1 DEF IInv, TypeOK
  <2>3. GroupsAreDisjoint' /\ TerminalOwner' /\ WaitedIsForeground'
    BY <1>1, <1>2, <2>1 DEF IInv, GroupsAreDisjoint, TerminalOwner, WaitedIsForeground
  <2> QED BY <1>2, <2>2, <2>3 DEF IInv
<1>5. CASE ~ WaitIsOver
  <2>1. UNCHANGED <<at, waited, terminal>>
    BY <1>5 DEF Wait
  <2>2. waited \in DOMAIN jobs' /\ jobs'[waited].state # "Stopped"
    BY <1>5 DEF WaitIsOver
  <2>3. /\ ~ jobs'[waited].background
        /\ jobs'[waited].state = "Running"
        /\ jobs'[waited].pgid = jobs[waited].pgid
    BY <1>2, <1>3, <2>2 DEF Job
  <2>4. TypeOK'
    BY <1>1, <1>2, <2>1, <2>2 DEF IInv, TypeOK
  <2>5. GroupsAreDisjoint' /\ TerminalOwner' /\ WaitedIsForeground'
    BY <1>1, <1>2, <1>3, <2>1, <2>3
    DEF IInv, GroupsAreDisjoint, TerminalOwner, WaitedIsForeground
  <2> QED BY <1>2, <2>4, <2>5 DEF IInv
<1> QED BY <1>4, <1>5

\* fg and bg: processes are continued, and one job changes its state and
\* whether it is in the background.
LEMMA ContinueStep ==
  ASSUME IInv, NEW j \in DOMAIN jobs, Fg(j) \/ Bg(j)
  PROVE  IInv'
<1>1. /\ at = "prompt" /\ procs' = Continued(jobs[j].pgid)
      /\ UNCHANGED <<next_job_id, spawned, command>>
  BY DEF Fg, Bg
<1>2. /\ DOMAIN procs' = DOMAIN procs
      /\ \A p \in DOMAIN procs : procs'[p] \in Proc /\ procs'[p].pg = procs[p].pg
  BY <1>1, ContinuedType DEF IInv
<1>3. \A pg : Children(pg)' = Children(pg)
  BY <1>2, SameGroups
<1>4. \A i \in DOMAIN jobs : jobs[i] \in Job
  BY DEF IInv, TypeOK
<1>5. /\ DOMAIN jobs' = DOMAIN jobs
      /\ \A i \in DOMAIN jobs :
           /\ jobs'[i] \in Job
           /\ jobs'[i].pgid = jobs[i].pgid
           /\ jobs'[i].pids = jobs[i].pids
  <2>1. CASE Fg(j)
    BY <1>4, <2>1 DEF Fg, ForegroundJob, Job
  <2>2. CASE Bg(j)
    BY <1>4, <2>2 DEF Bg, Job
  <2> QED BY <2>1, <2>2
<1>6. waited = NoJob /\ terminal = shell_pgid
  BY <1>1 DEF IInv, WaitedIsForeground, TerminalOwner
<1>7. j # 0
  BY DEF IInv, TypeOK
<1>8. \/ /\ at' = "wait" /\ waited' = j /\ give_terminal_to(jobs[j].pgid)
         /\ ~ jobs'[j].background /\ jobs'[j].state = "Running"
      \/ at' = "reap" /\ UNCHANGED <<terminal, waited>>
  BY <1>4 DEF Fg, Bg, ForegroundJob, Job
<1>9. TypeOK'
  <2>1. terminal' \in Pids \cup {shell_pgid}
    BY <1>4, <1>6, <1>8 DEF give_terminal_to, Job
  <2> QED BY <1>1, <1>2, <1>5, <1>6, <1>8, <2>1 DEF IInv, TypeOK
<1>10. JobsAreGroups'
  BY <1>3, <1>5 DEF IInv, JobsAreGroups
<1>11. GroupsAreDisjoint'
  BY <1>1, <1>5, <1>8 DEF IInv, GroupsAreDisjoint
<1>12. TerminalOwner' /\ WaitedIsForeground'
  BY <1>5, <1>6, <1>7, <1>8, JobAssumption
  DEF TerminalOwner, WaitedIsForeground, give_terminal_to
<1> QED BY <1>9, <1>10, <1>11, <1>12 DEF IInv

\* Every step of the shell, of the kernel and of a process keeps the invariant.
LEMMA NextIInv == IInv /\ [Next]_vars => IInv'
<1> SUFFICES ASSUME IInv, [Next]_vars PROVE IInv'
  OBVIOUS
<1>1. ASSUME NEW p \in DOMAIN procs, Process(p) PROVE IInv'
  BY <1>1, ProcessStep
<1>2. ASSUME NEW p \in DOMAIN procs, Status(p) PROVE IInv'
  BY <1>2, AbortReapStep, WaitStep, ReapStep DEF Status
<1>3. CASE Execute
  BY <1>3, ExecuteStep
<1>4. CASE Spawning
  <2>1. CASE AbortEnd
    BY <2>1, ThreadKeeps DEF AbortEnd
  <2> QED BY <1>4, <2>1, SpawnStep, SpawnFailsStep, RegisterStep DEF Spawning
<1>5. CASE ReapEnd
  BY <1>5, ThreadKeeps DEF ReapEnd
<1>6. CASE Builtin
  <2>1. CASE OtherBuiltin \/ Exit
    BY <2>1, ThreadKeeps DEF OtherBuiltin, Exit
  <2> QED BY <1>6, <2>1, ContinueStep DEF Builtin
<1>7. CASE UNCHANGED vars
  <2>1. TypeOK'
    BY <1>7 DEF IInv, TypeOK, vars
  <2>2. JobsAreGroups' /\ GroupsAreDisjoint'
    BY <1>7 DEF IInv, JobsAreGroups, GroupsAreDisjoint, Children, vars
  <2>3. TerminalOwner' /\ WaitedIsForeground'
    BY <1>7 DEF IInv, TerminalOwner, WaitedIsForeground, vars
  <2> QED BY <2>1, <2>2, <2>3 DEF IInv
<1> QED BY <1>1, <1>2, <1>3, <1>4, <1>5, <1>6, <1>7 DEF Next

\* The strengthening is an invariant of the specification.
LEMMA Invariance == Spec => []IInv
  BY InitIInv, NextIInv, PTL DEF Spec

\* Every variable of the job table and of the kernel keeps its type, and the
\* shell is at one of its places.
THEOREM TypeCorrect == Spec => []TypeOK
<1>1. IInv => TypeOK
  BY DEF IInv
<1> QED BY <1>1, Invariance, PTL

\* A listed job has processes, and they are the unreaped children of its
\* group: what fg, bg and wait_for_job do to a group they do to that job.
THEOREM JobsAreTheirGroups == Spec => []JobsAreGroups
<1>1. IInv => JobsAreGroups
  BY DEF IInv
<1> QED BY <1>1, Invariance, PTL

\* No two jobs share a group, nor does one with the pipeline being spawned.
THEOREM GroupsStayDisjoint == Spec => []GroupsAreDisjoint
<1>1. IInv => GroupsAreDisjoint
  BY DEF IInv
<1> QED BY <1>1, Invariance, PTL

\* The terminal is the shell's whenever it does not wait for a job, and that
\* job's while it does.
THEOREM TerminalIsReturned == Spec => []TerminalOwner
<1>1. IInv => TerminalOwner
  BY DEF IInv
<1> QED BY <1>1, Invariance, PTL

\* The job that is waited for is listed as running, in the foreground.
THEOREM WaitedStaysForeground == Spec => []WaitedIsForeground
<1>1. IInv => WaitedIsForeground
  BY DEF IInv
<1> QED BY <1>1, Invariance, PTL

(***************************************************************************)
(* The states listed for the jobs: whatever the order in which stops,      *)
(* continuations and ends happen and are collected, and for every number   *)
(* of processes, a stopped job is listed as stopped and a running one as   *)
(* running.                                                                *)
(***************************************************************************)

\* A stop that the shell knows of.
Parked(p) == procs[p].st = "stopped" /\ procs[p].note = "none"

\* What waitpid can still report of a child is true of it.
NotesFit ==
  \A p \in DOMAIN procs :
    /\ procs[p].note = "stopped" => procs[p].st = "stopped"
    /\ procs[p].note = "continued" => procs[p].st = "running"

\* A job has no more processes than a pipeline has commands.
JobsAreSmall ==
  \A j \in DOMAIN jobs : IsFiniteSet(jobs[j].pids) /\ Cardinality(jobs[j].pids) <= MAX_PIPE

\* The shell has not looked yet at a child of the pipeline it is making.
SpawnedUnseen == at = "spawn" => \A p \in Range(spawned) : ~ Parked(p)

SInv == NotesFit /\ JobsAreSmall /\ SpawnedUnseen /\ StoppedIsListed /\ RunningIsListed

\* The processes of a job are children of the shell.
LEMMA MembersAreChildren ==
  ASSUME IInv, NEW j \in DOMAIN jobs
  PROVE  jobs[j].pids \subseteq DOMAIN procs
  BY DEF IInv, JobsAreGroups, Children

\* A sequence has at most as many elements as it is long.
LEMMA RangeIsSmall ==
  ASSUME NEW S, NEW s \in Seq(S)
  PROVE  IsFiniteSet(Range(s)) /\ Cardinality(Range(s)) <= Len(s)
<1>1. Len(s) \in Nat /\ DOMAIN s = 1 .. Len(s) /\ s \in [1 .. Len(s) -> S]
  OBVIOUS
<1>2. s \in Surjection(1 .. Len(s), Range(s))
  BY <1>1 DEF Surjection, Range
<1>3. IsFiniteSet(1 .. Len(s)) /\ Cardinality(1 .. Len(s)) = Len(s)
  BY <1>1, FS_Interval
<1> QED BY <1>2, <1>3, FS_Surjection

\* What happens to a process before the shell collects it: it is as it was, or
\* there is something to collect.
Uncollected(p) ==
  /\ p \in DOMAIN procs'
  /\ procs'[p] = procs[p] \/ procs'[p].note # "none" \/ procs'[p].st = "zombie"

\* As long as nothing is collected and no job changes, the list stays true.
LEMMA UncollectedKeeps ==
  ASSUME IInv, SInv, UNCHANGED jobs,
         \A j \in DOMAIN jobs : \A p \in jobs[j].pids : Uncollected(p)
  PROVE  JobsAreSmall' /\ StoppedIsListed' /\ RunningIsListed'
<1>1. JobsAreSmall'
  BY DEF SInv, JobsAreSmall
<1>2. StoppedIsListed'
  BY DEF SInv, StoppedIsListed, Uncollected
<1>3. RunningIsListed'
  BY DEF SInv, RunningIsListed, Uncollected
<1> QED BY <1>1, <1>2, <1>3

\* Nothing is forked, and the shell knows of no stop.
LEMMA InitSInv == Init => SInv
<1> SUFFICES ASSUME Init PROVE SInv
  OBVIOUS
<1>1. DOMAIN procs = {} /\ DOMAIN jobs = {} /\ at # "spawn"
  BY DEF Init
<1> QED BY <1>1 DEF SInv, NotesFit, JobsAreSmall, SpawnedUnseen, StoppedIsListed, RunningIsListed

\* A process stops, goes on or ends: that is still to be collected.
LEMMA ProcessStates ==
  ASSUME IInv, SInv, NEW p \in DOMAIN procs, Process(p)
  PROVE  SInv'
<1>1. /\ DOMAIN procs' = DOMAIN procs
      /\ \A q \in DOMAIN procs : q # p => procs'[q] = procs[q]
      /\ \/ procs'[p].st = "stopped" /\ procs'[p].note = "stopped"
         \/ procs'[p].st = "running" /\ procs'[p].note = "continued"
         \/ procs'[p].st = "zombie" /\ procs'[p].note = "none"
      /\ UNCHANGED <<jobs, spawned, at>>
  <2>1. procs[p] \in Proc
    BY DEF IInv, TypeOK
  <2>2. CASE Stop(p)
    BY <2>1, <2>2 DEF Stop, Proc, table
  <2>3. CASE Continue(p)
    BY <2>1, <2>3 DEF Continue, Proc, table
  <2>4. CASE End(p)
    BY <2>1, <2>4 DEF End, Proc, table
  <2> QED BY <2>2, <2>3, <2>4 DEF Process
<1>2. NotesFit'
  BY <1>1 DEF SInv, NotesFit
<1>3. SpawnedUnseen'
  <2>1. at = "spawn" => Range(spawned) \subseteq DOMAIN procs
    BY DEF IInv, GroupsAreDisjoint, Children, Range
  <2> QED BY <1>1, <2>1 DEF SInv, SpawnedUnseen, Parked, Range
<1>4. \A j \in DOMAIN jobs : \A q \in jobs[j].pids : Uncollected(q)
  BY <1>1, MembersAreChildren DEF Uncollected
<1> QED BY <1>1, <1>2, <1>3, <1>4, UncollectedKeeps DEF SInv

\* The shell goes on and no process or job changes; SpawnedUnseen speaks of a
\* pipeline that is being made only.
LEMMA ThreadStates ==
  ASSUME IInv, SInv, UNCHANGED <<procs, jobs>>,
         at' = "spawn" => spawned' = << >> \/ UNCHANGED <<spawned, at>>
  PROVE  SInv'
<1>1. NotesFit'
  BY DEF SInv, NotesFit
<1>2. SpawnedUnseen'
  BY DEF SInv, SpawnedUnseen, Parked, Range
<1>3. \A j \in DOMAIN jobs : \A p \in jobs[j].pids : Uncollected(p)
  BY MembersAreChildren DEF Uncollected
<1> QED BY <1>1, <1>2, <1>3, UncollectedKeeps DEF SInv

\* A new child is running and is in no job yet.
LEMMA SpawnStates ==
  ASSUME IInv, SInv, Spawn
  PROVE  SInv'
<1>1. PICK p \in FreePids :
        /\ spawned' = Append(spawned, p)
        /\ procs' = Bind(procs, p, [st |-> "running", pg |-> ChildGroup(p), note |-> "none"])
  BY DEF Spawn
<1>2. p \in Pids /\ p \notin DOMAIN procs
  BY FreshPid
<1>3. /\ DOMAIN procs' = DOMAIN procs \cup {p}
      /\ \A q \in DOMAIN procs : procs'[q] = procs[q]
      /\ procs'[p].st = "running" /\ procs'[p].note = "none"
      /\ at = "spawn" /\ UNCHANGED <<jobs, at>>
  BY <1>1, <1>2 DEF Bind, Spawn, table
<1>4. Range(spawned') = Range(spawned) \cup {p}
  BY <1>1, <1>2, AppendRange DEF IInv, TypeOK
<1>5. Range(spawned) \subseteq DOMAIN procs
  BY <1>3 DEF IInv, GroupsAreDisjoint, Children, Range
<1>6. NotesFit'
  BY <1>2, <1>3 DEF SInv, NotesFit
<1>7. SpawnedUnseen'
  <2> SUFFICES ASSUME NEW q \in Range(spawned') PROVE ~ Parked(q)'
    BY DEF SpawnedUnseen
  <2>1. CASE q = p
    BY <1>3, <2>1 DEF Parked
  <2>2. CASE q \in Range(spawned)
    BY <1>3, <1>5, <2>2 DEF Parked, SInv, SpawnedUnseen
  <2> QED BY <1>4, <2>1, <2>2
<1>8. \A j \in DOMAIN jobs : \A q \in jobs[j].pids : Uncollected(q)
  BY <1>3, MembersAreChildren DEF Uncollected
<1> QED BY <1>3, <1>6, <1>7, <1>8, UncollectedKeeps DEF SInv

\* The new job is listed as running, and the shell knows of no stop in it.
LEMMA RegisterStates ==
  ASSUME IInv, SInv, Register
  PROVE  SInv'
<1> DEFINE new == [pgid |-> spawned[1], pids |-> Range(spawned), state |-> "Running",
                   background |-> command.background]
<1>1. /\ at = "spawn" /\ Len(spawned) = command.length
      /\ jobs' = Bind(jobs, next_job_id, new)
      /\ UNCHANGED <<procs, spawned>> /\ at' # "spawn"
  BY DEF Register
<1>2. new.pids = Range(spawned) /\ new.state = "Running"
  OBVIOUS
<1> HIDE DEF new
<1>3. /\ spawned \in Seq(Pids) /\ Len(spawned) \in 1 .. MAX_PIPE
      /\ next_job_id \notin DOMAIN jobs
  BY <1>1, JobAssumption DEF IInv, TypeOK
<1>4. /\ DOMAIN jobs' = DOMAIN jobs \cup {next_job_id}
      /\ \A j \in DOMAIN jobs : jobs'[j] = jobs[j]
      /\ jobs'[next_job_id] = new
  BY <1>1, <1>3 DEF Bind
<1>5. \A p \in Range(spawned) : ~ Parked(p)
  BY <1>1 DEF SInv, SpawnedUnseen
<1>6. 1 \in DOMAIN spawned /\ spawned[1] \in Range(spawned)
  BY <1>3 DEF Range
<1>7. IsFiniteSet(Range(spawned)) /\ Cardinality(Range(spawned)) <= MAX_PIPE
  <2>1. IsFiniteSet(Range(spawned)) /\ Cardinality(Range(spawned)) <= Len(spawned)
    BY <1>3, RangeIsSmall
  <2>2. Cardinality(Range(spawned)) \in Nat
    BY <2>1, FS_CardinalityType
  <2> QED BY <1>3, <2>1, <2>2, JobAssumption
<1>8. NotesFit' /\ SpawnedUnseen'
  BY <1>1 DEF SInv, NotesFit, SpawnedUnseen
<1>9. JobsAreSmall'
  BY <1>2, <1>4, <1>7 DEF SInv, JobsAreSmall
<1>10. StoppedIsListed'
  BY <1>1, <1>2, <1>4, <1>5, <1>6 DEF SInv, StoppedIsListed, Parked
<1>11. RunningIsListed'
  BY <1>1, <1>2, <1>4 DEF SInv, RunningIsListed
<1> QED BY <1>8, <1>9, <1>10, <1>11 DEF SInv

\* What terminate_group collects is in no job.
LEMMA AbortReapStates ==
  ASSUME IInv, SInv, NEW p \in DOMAIN procs, AbortReap(p)
  PROVE  SInv'
<1>1. /\ DOMAIN procs' = DOMAIN procs \ {p}
      /\ \A q \in DOMAIN procs' : procs'[q] = procs[q]
      /\ at = "abort" /\ UNCHANGED <<jobs, at>> /\ procs[p].pg = spawned[1]
  BY DEF AbortReap, Reportable, Collected, Restrict, table
<1>2. \A j \in DOMAIN jobs : p \notin jobs[j].pids
  BY <1>1 DEF IInv, JobsAreGroups, GroupsAreDisjoint, Children
<1>3. \A j \in DOMAIN jobs : \A q \in jobs[j].pids : Uncollected(q)
  BY <1>1, <1>2, MembersAreChildren DEF Uncollected
<1>4. NotesFit' /\ SpawnedUnseen'
  BY <1>1 DEF SInv, NotesFit, SpawnedUnseen
<1> QED BY <1>1, <1>3, <1>4, UncollectedKeeps DEF SInv

\* A status is collected: the end of a process makes the job smaller, a stop
\* or a continuation is what the process did last.
LEMMA CollectedStates ==
  ASSUME IInv, SInv, NEW p \in DOMAIN procs, handle_child_status(p), procs' = Collected(p),
         Reportable(p, {"stopped", "continued"}), at' # "spawn"
  PROVE  SInv'
<1>1. /\ DOMAIN procs' = IF Zombie(p) THEN DOMAIN procs \ {p} ELSE DOMAIN procs
      /\ \A q \in DOMAIN procs' : q # p => procs'[q] = procs[q]
      /\ ~ Zombie(p) => procs'[p].st = procs[p].st /\ procs'[p].note = "none"
  <2>1. procs[p] \in Proc
    BY DEF IInv, TypeOK
  <2> QED BY <2>1 DEF Collected, Restrict, Proc
<1>2. NotesFit' /\ SpawnedUnseen'
  BY <1>1 DEF SInv, NotesFit, SpawnedUnseen
<1>3. CASE JobsOf(p) = {}
  <2>1. UNCHANGED jobs
    BY <1>3 DEF handle_child_status
  <2>2. \A j \in DOMAIN jobs : \A q \in jobs[j].pids : Uncollected(q)
    BY <1>1, <1>3, MembersAreChildren DEF Uncollected, JobsOf
  <2> QED BY <1>2, <2>1, <2>2, UncollectedKeeps DEF SInv
<1>4. CASE JobsOf(p) # {}
  <2>1. PICK j \in JobsOf(p) :
          jobs' = IF Zombie(p) /\ jobs[j].pids = {p} THEN remove_job(j)
                  ELSE IF Zombie(p) THEN [jobs EXCEPT ![j].pids = @ \ {p}]
                  ELSE IF procs[p].note = "stopped" THEN [jobs EXCEPT ![j] = StoppedJob(@)]
                  ELSE [jobs EXCEPT ![j] = ContinuedJob(@)]
    BY <1>4 DEF handle_child_status
  <2>2. j \in DOMAIN jobs /\ p \in jobs[j].pids /\ jobs[j] \in Job
    BY DEF JobsOf, IInv, TypeOK
  <2>3. \A i \in DOMAIN jobs : i # j => p \notin jobs[i].pids
    BY <2>2, JobOfProcess
  <2>4. IsFiniteSet(jobs[j].pids) /\ Cardinality(jobs[j].pids) <= MAX_PIPE
    BY <2>2 DEF SInv, JobsAreSmall
  <2>5. \A i \in DOMAIN jobs : i # j => \A q \in jobs[i].pids :
          q \in DOMAIN procs' /\ procs'[q] = procs[q]
    BY <1>1, <2>3, MembersAreChildren
  <2>6. CASE Zombie(p) /\ jobs[j].pids = {p}
    <3>1. DOMAIN jobs' = DOMAIN jobs \ {j} /\ \A i \in DOMAIN jobs' : jobs'[i] = jobs[i]
      BY <2>1, <2>6 DEF remove_job, Restrict
    <3>2. JobsAreSmall'
      BY <3>1 DEF SInv, JobsAreSmall
    <3>3. StoppedIsListed'
      BY <2>5, <3>1 DEF SInv, StoppedIsListed
    <3>4. RunningIsListed'
      BY <2>5, <3>1 DEF SInv, RunningIsListed
    <3> QED BY <1>2, <3>2, <3>3, <3>4 DEF SInv
  <2>7. CASE Zombie(p) /\ jobs[j].pids # {p}
    <3>1. /\ DOMAIN jobs' = DOMAIN jobs
          /\ \A i \in DOMAIN jobs : i # j => jobs'[i] = jobs[i]
          /\ jobs'[j].pids = jobs[j].pids \ {p}
      BY <2>1, <2>2, <2>7 DEF Job
    <3>2. /\ IsFiniteSet(jobs[j].pids \ {p})
          /\ Cardinality(jobs[j].pids \ {p}) = Cardinality(jobs[j].pids) - 1
      BY <2>2, <2>4, FS_RemoveElement
    <3>3. Cardinality(jobs[j].pids) \in Nat
      BY <2>4, FS_CardinalityType
    <3>4. Cardinality(jobs'[j].pids) < MAX_PIPE
      BY <2>4, <3>1, <3>2, <3>3, JobAssumption
    <3>5. JobsAreSmall'
      <4>1. Cardinality(jobs'[j].pids) <= MAX_PIPE /\ IsFiniteSet(jobs'[j].pids)
        BY <3>1, <3>2, <3>3, <3>4, JobAssumption
      <4> QED BY <3>1, <4>1 DEF SInv, JobsAreSmall
    <3>6. StoppedIsListed'
      <4>1. Cardinality(jobs'[j].pids) # MAX_PIPE
        BY <3>1, <3>2, <3>3, <3>4, JobAssumption
      <4>2. ASSUME NEW i \in DOMAIN jobs', i # j
            PROVE  /\ Cardinality(jobs'[i].pids) = MAX_PIPE
                   /\ \A q \in jobs'[i].pids : procs'[q].st = "stopped" /\ procs'[q].note = "none"
                   => jobs'[i].state = "Stopped"
        BY <2>5, <3>1, <4>2 DEF SInv, StoppedIsListed
      <4> QED BY <4>1, <4>2 DEF StoppedIsListed
    <3>7. RunningIsListed'
      <4>1. Cardinality(jobs'[j].pids) # MAX_PIPE
        BY <3>1, <3>2, <3>3, <3>4, JobAssumption
      <4>2. ASSUME NEW i \in DOMAIN jobs', i # j
            PROVE  /\ Cardinality(jobs'[i].pids) = MAX_PIPE
                   /\ \A q \in jobs'[i].pids : procs'[q].st = "running" /\ procs'[q].note = "none"
                   => jobs'[i].state = "Running"
        BY <2>5, <3>1, <4>2 DEF SInv, RunningIsListed
      <4> QED BY <4>1, <4>2 DEF RunningIsListed
    <3> QED BY <1>2, <3>5, <3>6, <3>7 DEF SInv
  <2>8. CASE ~ Zombie(p)
    <3>1. /\ DOMAIN jobs' = DOMAIN jobs
          /\ \A i \in DOMAIN jobs : i # j => jobs'[i] = jobs[i]
          /\ jobs'[j].pids = jobs[j].pids
          /\ jobs'[j].state = IF procs[p].note = "stopped" THEN "Stopped" ELSE "Running"
      BY <2>1, <2>2, <2>8 DEF StoppedJob, ContinuedJob, Job
    <3>2. procs'[p].st = IF procs[p].note = "stopped" THEN "stopped" ELSE "running"
      BY <1>1, <2>8 DEF Reportable, SInv, NotesFit
    <3>3. JobsAreSmall'
      BY <3>1 DEF SInv, JobsAreSmall
    <3>4. StoppedIsListed'
      <4>1. (\A q \in jobs'[j].pids : procs'[q].st = "stopped" /\ procs'[q].note = "none")
              => jobs'[j].state = "Stopped"
        BY <2>2, <3>1, <3>2
      <4> QED BY <2>5, <3>1, <4>1 DEF SInv, StoppedIsListed
    <3>5. RunningIsListed'
      <4>1. (\A q \in jobs'[j].pids : procs'[q].st = "running" /\ procs'[q].note = "none")
              => jobs'[j].state = "Running"
        BY <2>2, <3>1, <3>2
      <4> QED BY <2>5, <3>1, <4>1 DEF SInv, RunningIsListed
    <3> QED BY <1>2, <3>3, <3>4, <3>5 DEF SInv
  <2> QED BY <2>6, <2>7, <2>8
<1> QED BY <1>3, <1>4

\* fg and bg leave nothing stopped in the job they list as running.
LEMMA ContinueStates ==
  ASSUME IInv, SInv, NEW j \in DOMAIN jobs, Fg(j) \/ Bg(j)
  PROVE  SInv'
<1>1. /\ procs' = Continued(jobs[j].pgid) /\ UNCHANGED spawned /\ at' # "spawn"
      /\ DOMAIN jobs' = DOMAIN jobs
      /\ \A i \in DOMAIN jobs : i # j => jobs'[i] = jobs[i]
  BY DEF Fg, Bg
<1>2. jobs'[j].pids = jobs[j].pids /\ jobs'[j].state = "Running"
  <2>1. jobs[j] \in Job
    BY DEF IInv, TypeOK
  <2>2. CASE Fg(j)
    <3>1. jobs'[j] = ForegroundJob(jobs[j])
      BY <2>2 DEF Fg
    <3> QED BY <2>1, <3>1 DEF ForegroundJob, Job
  <2>3. CASE Bg(j)
    BY <2>1, <2>3 DEF Bg, Job
  <2> QED BY <2>2, <2>3
<1>3. /\ DOMAIN procs' = DOMAIN procs
      /\ \A p \in DOMAIN procs :
           IF procs[p].pg = jobs[j].pgid /\ procs[p].st = "stopped"
           THEN procs'[p].st = "running" /\ procs'[p].note = "continued"
           ELSE procs'[p] = procs[p]
  <2>1. \A p \in DOMAIN procs : procs[p] \in Proc
    BY DEF IInv, TypeOK
  <2> QED BY <1>1, <2>1 DEF Continued, Proc
<1>4. \A p \in jobs[j].pids : p \in DOMAIN procs /\ procs'[p].st # "stopped"
  BY <1>3 DEF IInv, JobsAreGroups, Children
<1>5. \A i \in DOMAIN jobs : i # j => \A p \in jobs[i].pids :
        p \in DOMAIN procs /\ procs'[p] = procs[p]
  BY <1>3 DEF IInv, JobsAreGroups, GroupsAreDisjoint, Children
<1>6. NotesFit'
  BY <1>3 DEF SInv, NotesFit
<1>7. SpawnedUnseen'
  BY <1>1 DEF SpawnedUnseen
<1>8. JobsAreSmall'
  BY <1>1, <1>2 DEF SInv, JobsAreSmall
<1>9. StoppedIsListed'
  <2>1. jobs[j].pids # {}
    BY DEF IInv, JobsAreGroups
  <2> QED BY <1>1, <1>2, <1>4, <1>5, <2>1 DEF SInv, StoppedIsListed
<1>10. RunningIsListed'
  BY <1>1, <1>2, <1>5 DEF SInv, RunningIsListed
<1> QED BY <1>6, <1>7, <1>8, <1>9, <1>10 DEF SInv

\* Every step keeps what the list says true.
LEMMA NextSInv == IInv /\ SInv /\ [Next]_vars => SInv'
<1> SUFFICES ASSUME IInv, SInv, [Next]_vars PROVE SInv'
  OBVIOUS
<1>1. ASSUME NEW p \in DOMAIN procs, Process(p) PROVE SInv'
  BY <1>1, ProcessStates
<1>2. ASSUME NEW p \in DOMAIN procs, Status(p) PROVE SInv'
  <2>1. CASE AbortReap(p)
    BY <2>1, AbortReapStates
  <2>2. CASE Wait(p)
    <3>1. /\ handle_child_status(p) /\ procs' = Collected(p)
          /\ Reportable(p, {"stopped", "continued"}) /\ at' # "spawn"
      BY <2>2 DEF Wait, Reportable, LeaveWait
    <3> QED BY <3>1, CollectedStates
  <2>3. CASE Reap(p)
    <3>1. /\ handle_child_status(p) /\ procs' = Collected(p)
          /\ Reportable(p, {"stopped", "continued"}) /\ at' # "spawn"
      BY <2>3 DEF Reap
    <3> QED BY <3>1, CollectedStates
  <2> QED BY <1>2, <2>1, <2>2, <2>3 DEF Status
<1>3. CASE Execute
  BY <1>3, ThreadStates DEF Execute, kernel, table
<1>4. CASE Spawning
  <2>1. CASE SpawnFails \/ AbortEnd
    BY <2>1, ThreadStates DEF SpawnFails, AbortEnd, kernel, table
  <2> QED BY <1>4, <2>1, SpawnStates, RegisterStates DEF Spawning
<1>5. CASE ReapEnd
  BY <1>5, ThreadStates DEF ReapEnd, kernel, table
<1>6. CASE Builtin
  <2>1. CASE OtherBuiltin \/ Exit
    BY <2>1, ThreadStates DEF OtherBuiltin, Exit, kernel, table
  <2> QED BY <1>6, <2>1, ContinueStates DEF Builtin
<1>7. CASE UNCHANGED vars
  BY <1>7, ThreadStates DEF vars
<1> QED BY <1>1, <1>2, <1>3, <1>4, <1>5, <1>6, <1>7 DEF Next

\* The list of jobs and the processes agree in every reachable state.
LEMMA StatesInvariance == Spec => [](IInv /\ SInv)
<1>1. Init => IInv /\ SInv
  BY InitIInv, InitSInv
<1>2. (IInv /\ SInv) /\ [Next]_vars => (IInv /\ SInv)'
  BY NextIInv, NextSInv
<1> QED BY <1>1, <1>2, PTL DEF Spec

\* A whole pipeline that has stopped is listed as Stopped once the shell knows,
\* whatever happened between the stops (handle_child_status, fg, bg).
THEOREM StoppedJobsAreListed == Spec => []StoppedIsListed
<1>1. SInv => StoppedIsListed
  BY DEF SInv
<1> QED BY <1>1, StatesInvariance, PTL

\* A whole pipeline that runs is listed as Running once the shell knows of it
\* (handle_child_status, fg, bg).
THEOREM RunningJobsAreListed == Spec => []RunningIsListed
<1>1. SInv => RunningIsListed
  BY DEF SInv
<1> QED BY <1>1, StatesInvariance, PTL
===============================================================================
