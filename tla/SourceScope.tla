----------------------------- MODULE SourceScope -----------------------------
(***************************************************************************)
(* What can be said of a source text without a compiler and without        *)
(* executing it: in which order its names occur, and how many operands its *)
(* expressions need at once.  Nothing here translates the program's code.  *)
(***************************************************************************)
EXTENDS Source, SequencesExt

(***************************************************************************)
(* Scope: a name is declared once, before it is used, in the order of the  *)
(* text; the step of a for counts as standing after its body, where it is  *)
(* executed, and a declaration as standing before its own initial value.   *)
(***************************************************************************)

ExprNames(below, e) ==
  CASE e.kind = "INTEGER"    -> << >>
    [] e.kind = "IDENTIFIER" -> << <<"use", e.name>> >>
    [] OTHER                 -> below[e.left] \o below[e.right]

Names[d \in Depths] == [e \in Expressions[d] |-> ExprNames(Names[d - 1], e)]

OccurrencesOf(of, stmts) == FlattenSeq([i \in DOMAIN stmts |-> of[stmts[i]]])

StmtNames(names, below, s) ==
  CASE s.kind = "var" /\ s.init = << >> -> << <<"declaration", s.name>> >>
    [] s.kind = "var" /\ s.init # << >> -> << <<"declaration", s.name>> >> \o names[s.init[1]]
    [] s.kind = "assign" -> << <<"use", s.name>> >> \o names[s.expr]
    [] s.kind = "if" /\ s.else = << >> -> names[s.cond] \o below[s.then]
    [] s.kind = "if" /\ s.else # << >> -> names[s.cond] \o below[s.then] \o below[s.else[1]]
    [] s.kind = "while"  -> names[s.cond] \o below[s.body]
    [] s.kind = "for"    ->
         below[s.init] \o names[s.cond] \o below[s.body] \o below[s.step]
    [] s.kind = "block"  -> OccurrencesOf(below, s.stmts)
    [] OTHER             -> << >>

Occurrences[d \in Depths] ==
  [s \in Statements[d] |-> StmtNames(Names[d - 1], Occurrences[d - 1], s)]

Declares(o, j, name) == o[j] = <<"declaration", name>>

IsScoped(o) ==
  \A i \in DOMAIN o :
    (o[i][1] = "use") <=> (\E j \in 1 .. i - 1 : Declares(o, j, o[i][2]))

WellScoped(stmts) == IsScoped(OccurrencesOf(Occurrences[MAX_DEPTH - 1], stmts))

(***************************************************************************)
(* The operands an expression needs at once when it is computed from left  *)
(* to right.                                                               *)
(***************************************************************************)

Larger(l, r) == IF l > r THEN l ELSE r

ExprNeed(below, e) ==
  IF e.kind \in {"INTEGER", "IDENTIFIER"} THEN 1
  ELSE Larger(below[e.left], 1 + below[e.right])

Need[d \in Depths] == [e \in Expressions[d] |-> ExprNeed(Need[d - 1], e)]

StmtNeeds(need, below, s) ==
  CASE s.kind = "var" /\ s.init = << >> -> {1}
    [] s.kind = "var" /\ s.init # << >> -> {need[s.init[1]]}
    [] s.kind = "assign" -> {need[s.expr]}
    [] s.kind = "if" /\ s.else = << >> -> {need[s.cond]} \cup below[s.then]
    [] s.kind = "if" /\ s.else # << >> -> {need[s.cond]} \cup below[s.then] \cup below[s.else[1]]
    [] s.kind = "while"  -> {need[s.cond]} \cup below[s.body]
    [] s.kind = "for"    ->
         {need[s.cond]} \cup below[s.init] \cup below[s.body] \cup below[s.step]
    [] s.kind = "block"  -> UNION {below[s.stmts[i]] : i \in DOMAIN s.stmts}
    [] OTHER             -> {}

Needs[d \in Depths] == [s \in Statements[d] |-> StmtNeeds(Need[d - 1], Needs[d - 1], s)]

NeedsOf(stmts) == UNION {Needs[MAX_DEPTH - 1][stmts[i]] : i \in DOMAIN stmts}
===============================================================================
