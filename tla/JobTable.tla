------------------------------- MODULE JobTable -------------------------------
(***************************************************************************)
(* The vector of jobs of src/shell/src/executor.cpp, one element access at *)
(* a time: register_job, and remove_job, the erase-remove loop whose       *)
(* predicate compares with the number of the job it was called for,        *)
(* through a reference to an element of the vector that the loop itself    *)
(* overwrites.  (JobControl takes both for granted: its jobs are a         *)
(* function of the number.)                                                *)
(***************************************************************************)
EXTENDS Integers, Sequences

CONSTANTS
  MAX_JOBS,   \* bound: jobs registered in a session
  Contents,   \* what a job holds besides its number
  MovedFrom   \* what is left of that when the job was moved away

ASSUME TableAssumption == MAX_JOBS \in Nat /\ MovedFrom \notin Contents

VARIABLES
  jobs,         \* the vector: [id, content]
  next_job_id,
  loop,         \* "idle", or the loop of std::remove_if: "find" its first
                \* match, "move" the others down
  job,          \* the index of the element the reference job is bound to
  first, it,    \* the iterators of std::remove_if
  before        \* auxiliary: the vector when remove_job was called

table == <<jobs, next_job_id>>
tableVars == <<table, loop, job, first, it, before>>

TableInit ==
  /\ jobs = << >>
  /\ next_job_id = 1
  /\ loop = "idle"
  /\ job = 1 /\ first = 1 /\ it = 1
  /\ before = << >>

\* Mutant of NewId: a number that is free again is given out again
NewId_Length == Len(jobs) + 1

NewId == next_job_id

register_job ==
  /\ loop = "idle"
  /\ next_job_id <= MAX_JOBS
  /\ \E c \in Contents : jobs' = Append(jobs, [id |-> NewId, content |-> c])
  /\ next_job_id' = next_job_id + 1
  /\ UNCHANGED <<loop, job, first, it, before>>

\* handle_child_status has collected the last process of a job, which can be
\* any of them.
remove_job ==
  /\ loop = "idle"
  /\ job' \in DOMAIN jobs
  /\ first' = 1
  /\ before' = jobs
  /\ loop' = "find"
  /\ UNCHANGED <<table, it>>

\* Mutant of Matches: the job meant is the newest one, whatever remove_job was
\* called for
Matches_Newest(x) == jobs[x].id = jobs[Len(jobs)].id

\* The predicate: it reads job.id again at every call.
Matches(x) == jobs[x].id = jobs[job].id

\* std::find_if.  It finds something: job is in the vector.
Find ==
  /\ loop = "find"
  /\ IF Matches(first)
     THEN loop' = "move" /\ it' = first + 1 /\ UNCHANGED first
     ELSE first' = first + 1 /\ UNCHANGED <<loop, it>>
  /\ UNCHANGED <<table, job, before>>

\* *first = std::move(*it)
Moved == [jobs EXCEPT ![first] = jobs[it], ![it].content = MovedFrom]

\* One iteration of the loop that closes the gap
Move ==
  /\ loop = "move"
  /\ it <= Len(jobs)
  /\ IF Matches(it)
     THEN UNCHANGED <<jobs, first>>
     ELSE jobs' = Moved /\ first' = first + 1
  /\ it' = it + 1
  /\ UNCHANGED <<next_job_id, loop, job, before>>

Erased == SubSeq(jobs, 1, first - 1)

\* jobs.erase of what is behind the new end, and the return
Erase ==
  /\ loop = "move"
  /\ it > Len(jobs)
  /\ jobs' = Erased
  /\ loop' = "idle"
  /\ UNCHANGED <<next_job_id, job, first, it, before>>

TableNext == register_job \/ remove_job \/ Find \/ Move \/ Erase

TableSpec == TableInit /\ [][TableNext]_tableVars

(***************************************************************************)
(* Properties.                                                             *)
(***************************************************************************)

\* The jobs are listed in the order of their numbers, and no number is given
\* twice, whatever was removed in between: latest_job_id, the last element,
\* names the newest job, which fg and bg without a number are about, and
\* find_job_by_id finds at most one.
IdsAscend ==
  loop = "idle" =>
    /\ \A x, y \in DOMAIN jobs : x < y => jobs[x].id < jobs[y].id
    /\ \A x \in DOMAIN jobs : jobs[x].id < next_job_id

\* The call of remove_job is a request for the job that has this number, and the
\* loop is one step: nothing has changed until it is through.
List == INSTANCE JobList WITH
  list <- IF loop = "idle" THEN jobs ELSE before,
  next <- next_job_id,
  leaving <- IF loop = "idle" THEN 0 ELSE before[job].id

\* remove_job removes the job it was called for, that one and no other, in
\* whatever position it is and although the reference to it names another job
\* from the first move on: the vector implements the list its callers take it
\* for.
OneJobLeaves == List!ListSpec
===============================================================================
