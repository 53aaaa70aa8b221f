-------------------------------- MODULE JobList --------------------------------
(***************************************************************************)
(* What the callers in executor.cpp take the vector of jobs for: a list    *)
(* that new jobs join at its end, with the next number, and that a job     *)
(* leaves when it is asked for by its number, the others and their order   *)
(* untouched.                                                              *)
(***************************************************************************)
EXTENDS Integers, Sequences

CONSTANTS
  MAX_JOBS,  \* bound: jobs registered in a session
  Contents   \* what a job holds besides its number

VARIABLES
  list, next,
  leaving    \* the number of the job remove_job was called for, or 0

listVars == <<list, next, leaving>>

ListInit == list = << >> /\ next = 1 /\ leaving = 0

Add ==
  /\ leaving = 0
  /\ next <= MAX_JOBS
  /\ \E c \in Contents : list' = Append(list, [id |-> next, content |-> c])
  /\ next' = next + 1
  /\ UNCHANGED leaving

\* remove_job is called for the job at k.
Ask(k) ==
  /\ leaving = 0
  /\ leaving' = list[k].id
  /\ UNCHANGED <<list, next>>

Without(k) == [x \in 1 .. Len(list) - 1 |-> IF x < k THEN list[x] ELSE list[x + 1]]

\* It returns: the job it was called for, at k, is gone.
Leave(k) ==
  /\ list[k].id = leaving
  /\ list' = Without(k)
  /\ leaving' = 0
  /\ UNCHANGED next

ListNext == Add \/ \E k \in DOMAIN list : Ask(k) \/ Leave(k)

ListSpec == ListInit /\ [][ListNext]_listVars
===============================================================================
