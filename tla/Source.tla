-------------------------------- MODULE Source --------------------------------
(***************************************************************************)
(* What the grammar of src/compiler/parser.y makes of the tokens of a      *)
(* source: expressions and statements, without the tokens that only        *)
(* delimit them.  The line of a statement is that of its first token, and  *)
(* a simple statement or the head of another one is on one line.           *)
(*                                                                         *)
(* A syntax of depth d has parts of depth d - 1, and what is no deeper is  *)
(* of depth d as well; nothing has depth 0.                                *)
(***************************************************************************)
EXTENDS Instructions

CONSTANT MAX_DEPTH   \* of the files: a text is finite, so there is one

ASSUME SourceAssumption == MAX_DEPTH \in Nat \ {0} /\ INT_MAX \in Nat

Depths == 0 .. MAX_DEPTH

\* The sequences of one element, and of at most one
One(S) == {s \in Seq(S) : Len(s) = 1}
Optional(S) == {s \in Seq(S) : Len(s) <= 1}

Expression(E) ==
       [kind : {"INTEGER"}, value : Ints]
  \cup [kind : {"IDENTIFIER"}, name : STRING]
  \cup [kind : BinaryOps, left : E, right : E]

Expressions ==
  LET E[d \in Depths] == IF d = 0 THEN {} ELSE Expression(E[d - 1])
  IN  [d \in Depths |-> E[d]]

\* The step of a for is a for_assign.
Statement(E, S) ==
       [kind : {"var"}, name : STRING, init : Optional(E), line : Nat]
  \cup [kind : {"assign"}, name : STRING, expr : E, line : Nat]
  \cup [kind : {"if"}, cond : E, then : S, else : Optional(S), line : Nat]
  \cup [kind : {"while"}, cond : E, body : S, line : Nat]
  \cup [kind : {"for"}, init : S, cond : E, step : {s \in S : s.kind = "assign"},
        body : S, line : Nat]
  \cup [kind : {"block"}, stmts : Seq(S), line : Nat, last : Nat]
  \cup [kind : {"empty"}, line : Nat]

Statements ==
  LET S[d \in Depths] == IF d = 0 THEN {} ELSE Statement(Expressions[d - 1], S[d - 1])
  IN  [d \in Depths |-> S[d]]

\* The statements of a file: its list of them counts as a level.
FileStatements == Statements[MAX_DEPTH - 1]
===============================================================================
