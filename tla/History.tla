-------------------------------- MODULE History --------------------------------
(***************************************************************************)
(* The history of src/shell/src/main.cpp: a vector per shell, loaded from  *)
(* a file at its start, and the file, to which every line is appended      *)
(* before it is looked at.  Several shells of a user share the file; any   *)
(* of them may be killed, or end by what it executes, at any moment.       *)
(***************************************************************************)
EXTENDS Integers, Sequences

CONSTANTS
  Shells,
  Lines,      \* what is typed, but for empty lines, which are skipped
  MAX_LINES   \* bound: lines in the file, and in a vector

VARIABLES
  file,       \* .mysh_history
  writable,   \* the file can be opened for writing, or be made
  history,    \* shell -> the vector
  at,         \* shell -> "off", "load", "prompt", "append", "run"
  missed      \* auxiliary: a line could not be appended

vars == <<file, writable, history, at, missed>>

Init ==
  /\ file = << >>
  /\ writable = TRUE
  /\ history = [s \in Shells |-> << >>]
  /\ at = [s \in Shells |-> "off"]
  /\ missed = FALSE

Goes(s, from, to) == at[s] = from /\ at' = [at EXCEPT ![s] = to]

Remembers(s, line) == history' = [history EXCEPT ![s] = Append(@, line)]

Start(s) ==
  /\ Goes(s, "off", "load")
  /\ UNCHANGED <<file, writable, history, missed>>

\* load_history cannot read the file, and the shell starts with no history.
Unreadable(s) ==
  /\ Goes(s, "off", "prompt")
  /\ UNCHANGED <<file, writable, history, missed>>

\* One getline of load_history.  Others append meanwhile.
LoadLine(s) ==
  /\ at[s] = "load"
  /\ Len(history[s]) < Len(file)
  /\ Remembers(s, file[Len(history[s]) + 1])
  /\ UNCHANGED <<file, writable, at, missed>>

LoadEnd(s) ==
  /\ Len(history[s]) = Len(file)
  /\ Goes(s, "load", "prompt")
  /\ UNCHANGED <<file, writable, history, missed>>

\* A line is read and put into the vector.
Type(s) ==
  /\ Len(file) < MAX_LINES /\ Len(history[s]) < MAX_LINES
  /\ Goes(s, "prompt", "append")
  /\ \E line \in Lines : Remembers(s, line)
  /\ UNCHANGED <<file, writable, missed>>

\* Mutant of Appended: the file is opened without ios::app
Appended_Truncates(line) == <<line>>

Appended(line) == Append(file, line)

\* append_history_line; a file that cannot be opened is silently ignored
append_history_line(s) ==
  /\ Goes(s, "append", "run")
  /\ IF writable THEN file' = Appended(history[s][Len(history[s])]) ELSE UNCHANGED file
  /\ missed' = (missed \/ ~ writable)
  /\ UNCHANGED <<writable, history>>

\* The line was executed, or rejected.
Return(s) ==
  /\ Goes(s, "run", "prompt")
  /\ UNCHANGED <<file, writable, history, missed>>

\* exit, the end of the input, an exception, a trap, a signal
End(s) ==
  /\ at[s] # "off"
  /\ at' = [at EXCEPT ![s] = "off"]
  /\ history' = [history EXCEPT ![s] = << >>]
  /\ UNCHANGED <<file, writable, missed>>

\* The file's mode or its directory is changed.
Permission ==
  /\ writable' = ~ writable
  /\ UNCHANGED <<file, history, at, missed>>

Next ==
  \/ \E s \in Shells :
       \/ Start(s) \/ Unreadable(s) \/ LoadLine(s) \/ LoadEnd(s)
       \/ Type(s) \/ append_history_line(s) \/ Return(s) \/ End(s)
  \/ Permission

Spec == Init /\ [][Next]_vars

(***************************************************************************)
(* Properties.                                                             *)
(***************************************************************************)

IsSubsequence(s, t) ==
  \E up \in [DOMAIN s -> DOMAIN t] :
    /\ \A i, j \in DOMAIN s : i < j => up[i] < up[j]
    /\ \A i \in DOMAIN s : s[i] = t[up[i]]

Recorded(s) == SubSeq(history[s], 1, Len(history[s]) - IF at[s] = "append" THEN 1 ELSE 0)

\* Before a line is executed it is in the file, with everything the shell has
\* listed so far and in that order, whatever other shells append, and whenever
\* this or another one is killed: the next shell can load it.
ListedIsRecorded == ~ missed => \A s \in Shells : IsSubsequence(Recorded(s), file)
===============================================================================
