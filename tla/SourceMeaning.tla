---------------------------- MODULE SourceMeaning ----------------------------
(***************************************************************************)
(* What a source text means, read without a compiler: the reference the    *)
(* compiled code is compared with.  Nothing here translates the program's  *)
(* code; sources have the shape that module Compiler describes.            *)
(***************************************************************************)
EXTENDS Instructions, SequencesExt

CONSTANT FUEL   \* bound: iterations after which a source counts as endless

Assigned(store, name, v) ==
  [n \in DOMAIN store \cup {name} |-> IF n = name THEN v ELSE store[n]]

\* The value of an expression, or nothing when it divides by zero
RECURSIVE Value(_, _)
Value(e, store) ==
  CASE e.kind = "INTEGER"    -> {e.value}
    [] e.kind = "IDENTIFIER" -> {IF e.name \in DOMAIN store THEN store[e.name] ELSE 0}
    [] OTHER ->
         {Evaluate(e.kind, p[1], p[2]) :
            p \in {q \in Value(e.left, store) \X Value(e.right, store) :
                     ~ Traps(e.kind, q[1], q[2])}}

\* A state of the execution: ended is "no" while it goes on
Stopped(st, why) == [st EXCEPT !.ended = why]

Assign(st, name, values) ==
  IF values = {} THEN Stopped(st, "trap")
  ELSE [st EXCEPT !.store = Assigned(@, name, CHOOSE v \in values : TRUE)]

RECURSIVE Do(_, _)
DoAll(st, stmts) ==
  FoldLeft(LAMBDA t, s : IF t.ended = "no" THEN Do(t, s) ELSE t, st, stmts)

\* Either branch is a list of statements.
Choice(st, cond, yes, no) ==
  LET values == Value(cond, st.store)
  IN  IF values = {} THEN Stopped(st, "trap")
      ELSE IF values = {0} THEN DoAll(st, no) ELSE DoAll(st, yes)

RECURSIVE Loop(_, _, _)
Loop(st, cond, body) ==
  LET values == Value(cond, st.store)
  IN  IF st.ended # "no" \/ values = {0} THEN st
      ELSE IF values = {} THEN Stopped(st, "trap")
      ELSE IF st.fuel = 0 THEN Stopped(st, "endless")
      ELSE Loop([DoAll(st, body) EXCEPT !.fuel = @ - 1], cond, body)

Do(st, s) ==
  CASE s.kind = "var"    ->
         Assign(st, s.name, IF s.init = << >> THEN {0} ELSE Value(s.init[1], st.store))
    [] s.kind = "assign" -> Assign(st, s.name, Value(s.expr, st.store))
    [] s.kind = "if"     -> Choice(st, s.cond, << s.then >>, s.else)
    [] s.kind = "while"  -> Loop(st, s.cond, << s.body >>)
    [] s.kind = "for"    -> Loop(DoAll(st, << s.init >>), s.cond, << s.body, s.step >>)
    [] s.kind = "block"  -> DoAll(st, s.stmts)
    [] OTHER             -> st

Meaning(stmts) ==
  DoAll([store |-> [n \in {} |-> 0], fuel |-> FUEL, ended |-> "no"], stmts)
===============================================================================
