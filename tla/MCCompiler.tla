------------------------------ MODULE MCCompiler ------------------------------
(***************************************************************************)
(* Small instances of CompiledMeanings: all sources of a bounded shape,     *)
(* after compilations of short files.                                      *)
(***************************************************************************)
EXTENDS CompiledMeanings

Int1(n) == [kind |-> "INTEGER", value |-> n]
Id(name) == [kind |-> "IDENTIFIER", name |-> name]
Op(kind, l, r) == [kind |-> kind, left |-> l, right |-> r]

Var(name, init, line) == [kind |-> "var", name |-> name, init |-> init, line |-> line]
Set(name, e, line) == [kind |-> "assign", name |-> name, expr |-> e, line |-> line]
If(c, s, else, line) == [kind |-> "if", cond |-> c, then |-> s, else |-> else, line |-> line]
While(c, s, line) == [kind |-> "while", cond |-> c, body |-> s, line |-> line]
For(i, c, step, s, line) ==
  [kind |-> "for", init |-> i, cond |-> c, step |-> step, body |-> s, line |-> line]
Block(stmts, line, last) == [kind |-> "block", stmts |-> stmts, line |-> line, last |-> last]
Semi(line) == [kind |-> "empty", line |-> line]

x == Id("x")
y == Id("y")
one == Int1(1)

Conds == {x, y, Op("LT", x, one), Op("DIV", one, y)}
Exprs == {one, y, Op("SUB", x, one), Op("DIV", y, x), Op("ADD", x, Op("MUL", y, x))}

Assigns == {Set("x", e, 1) : e \in Exprs \ {one}} \cup {Set("y", e, 1) : e \in {one, Op("SUB", y, x)}}
Simple == Assigns \cup {Semi(1), Var("z", << x >>, 1), Block(<< >>, 1, 1)}

\* one level of structure ...
Inits == {Semi(1), Set("y", one, 1), Var("y", << one >>, 1)}
Steps == {Set("x", Op("SUB", x, one), 1), Set("y", x, 1)}
Ifs == {If(c, s, << >>, 1) : c \in Conds, s \in Assigns}
IfElses == {If(c, s, << t >>, 1) : c \in {x, y}, s, t \in Simple}
Whiles == {While(c, s, 1) : c \in Conds, s \in Simple}
Fors == {For(i, c, step, s, 1) : i \in Inits, c \in {y, x}, step \in Steps, s \in Simple}
Blocks == {Block(<< s, t >>, 1, 1) : s, t \in Simple}
Flat == Simple \cup Ifs \cup IfElses \cup Whiles \cup Fors \cup Blocks

\* ... and some of the second level
Inner == {If(y, Set("y", x, 1), << >>, 1), While(x, Set("x", Op("SUB", x, one), 1), 1),
          For(Set("y", one, 1), y, Set("y", Op("SUB", y, one), 1), Set("x", Op("SUB", x, one), 1), 1),
          Block(<< Set("x", Op("SUB", x, one), 1), If(y, Semi(1), << Set("y", x, 1) >>, 1) >>, 1, 1)}
Nested == {If(c, s, << t >>, 1) : c \in {x}, s, t \in Inner}
     \cup {While(c, s, 1) : c \in Conds, s \in Inner}
     \cup {For(i, c, step, s, 1) : i \in Inner, c \in {x}, step \in Steps, s \in Inner}

Prefix == << Var("x", << one >>, 1), Var("y", << >>, 1) >>

\* var x = 1; var y; and one more statement, or a declaration in its scope
AllSources ==
  {Prefix \o << s >> : s \in Flat \cup Nested}
    \cup {<< Var("x", << x >>, 1), s, Set("x", y, 1) >> : s \in {Var("y", << >>, 1)} \cup Assigns \cup Ifs}
    \cup {<< For(Semi(1), Int1(0), Set("x", one, 1), Block(<< Var("x", << >>, 1) >>, 1, 1), 1) >>,
          << Semi(1) >>}

\* Files of up to three pieces: declarations, loops and syntax errors
Error == [kind |-> "error", line |-> 1]
ShortFiles == UNION {[1 .. n -> {Var("x", << >>, 1), While(x, Semi(1), 1), Error}] : n \in 0 .. 3}

AllFiles == AllSources \cup ShortFiles

\* A source of a larger shape is the last of its session and follows a file
\* that leaves nothing or one that leaves labels.
Heads == {<< >>, << Var("x", << >>, 1), While(x, Semi(1), 1) >>}
Follow(f) ==
  IF f \in Heads THEN AllSources \cup ShortFiles
  ELSE IF f \in ShortFiles THEN ShortFiles ELSE {}
===============================================================================
