-------------------------------- MODULE Claims --------------------------------
(***************************************************************************)
(* What the repository's README and comments say of programs and their     *)
(* variables, stated over Programs.  A history variable keeps what every   *)
(* program stored, which the code itself does not know: vars[] does not    *)
(* say whose a variable is.                                                *)
(***************************************************************************)
EXTENDS Programs

VARIABLE stored   \* the object each program last stored under a name, since
                  \* its VM was initialised

claimVars == <<vars, stored>>

Initialises(p) == at = "prompt" /\ cur' = p /\ (p \notin DOMAIN vm \/ at' = "dbg")

Stores(p) ==
  /\ p = cur
  /\ at \in {"run", "dbg", "continue"}
  /\ vm'[p].steps # vm[p].steps
  /\ Instr(p).op = "STORE_VAR"

NoStores == [n \in {} |-> NoPID]

Record ==
  stored' = [p \in DOMAIN vm' |->
               IF Initialises(p) THEN NoStores
               ELSE IF Stores(p) THEN Bind(stored[p], Instr(p).name, Top(p))
               ELSE stored[p]]

ClaimInit == Init /\ stored = [p \in {} |-> NoStores]
ClaimSpec == ClaimInit /\ [][Next /\ Record]_claimVars

\* README.md:63 "Garbage collection runs, globals are preserved": gc of a
\* program frees none of the objects its variables were given.
GcPreservesGlobals ==
  [][\A p \in DOMAIN vm :
       Gc(p) => vm[p].heap \cap Range(stored[p]) \subseteq vm'[p].heap]_claimVars

\* README.md:43 "Execute the program to completion": a TERMINATED program has
\* executed its code to the end.
RunCompletes ==
  \A p \in DOMAIN vm :
    at = "prompt" /\ program_table[p].state = "TERMINATED" => AtEnd(p)
===============================================================================
