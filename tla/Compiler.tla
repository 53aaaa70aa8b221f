------------------------------- MODULE Compiler -------------------------------
(***************************************************************************)
(* From a source text to code: the grammar actions of                      *)
(* src/compiler/parser.y with src/core/ast.c, the semantic check of        *)
(* semantic.c and the code generator of irgen.c.                           *)
(*                                                                         *)
(* A pointer to a node is a sequence: << >> is NULL, and a list chained by *)
(* next is the sequence of its nodes.  What the code does recursively is a *)
(* function for each depth, made of the one for the depth below.           *)
(***************************************************************************)
EXTENDS Linker, Source, SequencesExt

(***************************************************************************)
(* The abstract syntax tree.                                               *)
(***************************************************************************)

NULL == << >>

new_node(type, line) ==
  [type |-> type, line |-> line, name |-> NoName, value |-> 0, op |-> "",
   left |-> NULL, right |-> NULL, third |-> NULL]

ast_make_int(v, line) == << [new_node("INT", line) EXCEPT !.value = v] >>
ast_make_ident(name, line) == << [new_node("IDENT", line) EXCEPT !.name = name] >>

ast_make_binop(op, lhs, rhs, line) ==
  << [new_node("BINOP", line) EXCEPT !.op = op, !.left = lhs, !.right = rhs] >>

ast_make_assign(lhs, rhs, line) ==
  << [new_node("ASSIGN", line) EXCEPT !.left = lhs, !.right = rhs] >>

ast_make_var_decl(name, init, line) ==
  << [new_node("VAR_DECL", line) EXCEPT !.name = name, !.left = init] >>

\* node_with_line is not called for a block
ast_make_block(stmts) == << [new_node("BLOCK", 0) EXCEPT !.left = stmts] >>

ast_make_if(cond, thenb, elseb, line) ==
  << [new_node("IF", line) EXCEPT !.left = cond, !.right = thenb, !.third = elseb] >>

ast_make_while(cond, body, line) ==
  << [new_node("WHILE", line) EXCEPT !.left = cond, !.right = body] >>

\* Mutants of ast_make_for: the step comes first, or is lost when there is a body
ast_make_for_StepFirst(init, cond, step, body, line) ==
  << [new_node("FOR", line) EXCEPT !.left = init, !.right = cond, !.third = step \o body] >>
ast_make_for_NoStep(init, cond, step, body, line) ==
  << [new_node("FOR", line) EXCEPT !.left = init, !.right = cond,
                                   !.third = IF body = NULL THEN step ELSE body] >>

\* The step is chained to the end of the body, or is the body.
ast_make_for(init, cond, step, body, line) ==
  << [new_node("FOR", line) EXCEPT !.left = init, !.right = cond, !.third = body \o step] >>

\* The trees there are: of expressions, and of statements
Shape(type, ops, left, right, third) ==
  [type : {type}, line : Nat, name : STRING \cup {NoName}, value : Ints, op : ops,
   left : left, right : right, third : third]

Leaf(type) == Shape(type, {""}, {NULL}, {NULL}, {NULL})

ExprNode(X) ==
  Leaf("INT") \cup Leaf("IDENT") \cup Shape("BINOP", BinaryOps, One(X), One(X), {NULL})

ExprNodes ==
  LET X[d \in Depths] == IF d = 0 THEN {} ELSE ExprNode(X[d - 1])
  IN  [d \in Depths |-> X[d]]

StmtNode(X, N) ==
       Shape("VAR_DECL", {""}, Optional(X), {NULL}, {NULL})
  \cup Shape("ASSIGN", {""}, One({n \in X : n.type = "IDENT"}), One(X), {NULL})
  \cup Shape("BLOCK", {""}, Seq(N), {NULL}, {NULL})
  \cup Shape("IF", {""}, One(X), Seq(N), Seq(N))
  \cup Shape("WHILE", {""}, One(X), Seq(N), {NULL})
  \cup Shape("FOR", {""}, Seq(N), One(X), Seq(N))

StmtNodes ==
  LET N[d \in Depths] == IF d = 0 THEN {} ELSE StmtNode(ExprNodes[d - 1], N[d - 1])
  IN  [d \in Depths |-> N[d]]

(***************************************************************************)
(* The grammar actions.  node_with_line gives a node the line the scanner  *)
(* has reached when the rule is reduced.                                   *)
(***************************************************************************)

Expr(below, e, line) ==
  CASE e.kind = "INTEGER"    -> ast_make_int(e.value, line)
    [] e.kind = "IDENTIFIER" -> ast_make_ident(e.name, line)
    [] OTHER -> ast_make_binop(e.kind, below[e.left][line], below[e.right][line], line)

expr[d \in Depths] ==
  [e \in Expressions[d] |-> [line \in Nat |-> Expr(expr[d - 1], e, line)]]

for_assign(exprs, s, line) ==
  ast_make_assign(ast_make_ident(s.name, line), exprs[s.expr][line], line)

\* The line of the token that follows statement i of a list: the next
\* statement or what closes the list
Follows(stmts, i, last) == IF i < Len(stmts) THEN stmts[i + 1].line ELSE last

\* The line the scanner has reached when s is reduced: an if without else has
\* read one token more, which is on line next.
LineReached(below, s, next) ==
  CASE s.kind = "if" /\ s.else = NULL -> next
    [] s.kind = "if" /\ s.else # NULL -> below[s.else[1]][next]
    [] s.kind \in {"while", "for"}    -> below[s.body][next]
    [] s.kind = "block"               -> s.last
    [] OTHER                          -> s.line

yylineno[d \in Depths] ==
  [s \in Statements[d] |-> [next \in Nat |-> LineReached(yylineno[d - 1], s, next)]]

stmt_list(stmts_at, stmts, last) ==
  FlattenSeq([i \in DOMAIN stmts |-> stmts_at[stmts[i]][Follows(stmts, i, last)]])

Stmt(d, below, s, next) ==
  LET line == yylineno[d][s][next]
      Cond == expr[d - 1][s.cond][s.line]
  IN  CASE s.kind = "var" /\ s.init = NULL -> ast_make_var_decl(s.name, NULL, line)
        [] s.kind = "var" /\ s.init # NULL ->
             ast_make_var_decl(s.name, expr[d - 1][s.init[1]][line], line)
        [] s.kind = "assign" -> for_assign(expr[d - 1], s, line)
        [] s.kind = "if" /\ s.else = NULL -> ast_make_if(Cond, below[s.then][next], NULL, line)
        [] s.kind = "if" /\ s.else # NULL ->
             ast_make_if(Cond, below[s.then][s.else[1].line], below[s.else[1]][next], line)
        [] s.kind = "while"  -> ast_make_while(Cond, below[s.body][next], line)
        [] s.kind = "for"    ->
             ast_make_for(below[s.init][s.line], Cond,
                          for_assign(expr[d - 2], s.step, s.line), below[s.body][next], line)
        [] s.kind = "block"  -> ast_make_block(stmt_list(below, s.stmts, s.last))
        [] OTHER             -> NULL

stmt[d \in Depths] ==
  [s \in Statements[d] |-> [next \in Nat |-> Stmt(d, stmt[d - 1], s, next)]]

\* A file without a statement has no tree, which counts as a failure.
program(stmts, last) ==
  IF stmts = << >> THEN NULL ELSE ast_make_block(stmt_list(stmt[MAX_DEPTH - 1], stmts, last))

(***************************************************************************)
(* The semantic check.  check is the symbol table, a set, with the verdict.*)
(***************************************************************************)

\* Mutant of semantic_reset: the names of the last compilation stay
semantic_reset_Keeps(symtab) == symtab

semantic_reset(symtab) == {}

symbol_exists(check, name) == name \in check.symtab
symbol_add(check, name) == [check EXCEPT !.symtab = @ \cup {name}]
Rejected(check) == [check EXCEPT !.error = TRUE]

\* Mutant of CheckNode: a second declaration is let pass
CheckNode_NoRedeclaration(check, n) ==
  IF n.type = "IDENT" /\ ~ symbol_exists(check, n.name) THEN Rejected(check)
  ELSE IF n.type = "VAR_DECL" THEN symbol_add(check, n.name) ELSE check

CheckNode(check, n) ==
  CASE n.type = "VAR_DECL" ->
         IF symbol_exists(check, n.name) THEN Rejected(check) ELSE symbol_add(check, n.name)
    [] n.type = "ASSIGN" ->
         IF symbol_exists(check, n.left[1].name) THEN check ELSE Rejected(check)
    [] n.type = "IDENT" ->
         IF symbol_exists(check, n.name) THEN check ELSE Rejected(check)
    [] OTHER -> check

Checks == [symtab : SUBSET STRING, error : BOOLEAN]

\* A list of nodes, chained by next
Each(check_node_at, check, nodes) ==
  LET c[i \in 0 .. Len(nodes)] ==
        IF i = 0 THEN check ELSE check_node_at[nodes[i]][c[i - 1]]
  IN  c[Len(nodes)]

\* The node, then its children, up to the first error
semantic_check(below, n, check) ==
  LET c == CheckNode(check, n)
  IN  IF check.error THEN check
      ELSE IF c.error THEN c ELSE Each(below, c, n.left \o n.right \o n.third)

check_node[d \in Depths] ==
  [n \in ExprNodes[d] \cup StmtNodes[d] |->
     [check \in Checks |-> semantic_check(check_node[d - 1], n, check)]]

\* symtab is what the last compilation left in the table
semantic_analysis(symtab, root) ==
  Each(check_node[MAX_DEPTH], [symtab |-> semantic_reset(symtab), error |-> FALSE], root)

(***************************************************************************)
(* Code generation: what is emitted, one piece of code behind the other,   *)
(* and the static counter of labels, which no compilation resets.          *)
(***************************************************************************)

make_instr(op, value, name, line) == [op |-> op, value |-> value, name |-> name, line |-> line]

emit_label(id, line) == << make_instr("LABEL", id, NoName, line) >>
emit_jmp(id, line) == << make_instr("JMP", id, NoName, line) >>
emit_jz(id, line) == << make_instr("JZ", id, NoName, line) >>

ExprCode(below, n) ==
  CASE n.type = "INT"   -> << make_instr("LOAD_CONST", n.value, NoName, n.line) >>
    [] n.type = "IDENT" -> << make_instr("LOAD_VAR", 0, n.name, n.line) >>
    [] OTHER -> below[n.left[1]] \o below[n.right[1]] \o << make_instr(n.op, 0, NoName, n.line) >>

gen_expr[d \in Depths] == [n \in ExprNodes[d] |-> ExprCode(gen_expr[d - 1], n)]

\* Mutant of Initial: a declaration without a value emits no constant
Initial_Nothing(exprs, n) == IF n.left = NULL THEN << >> ELSE exprs[n.left[1]]

Initial(exprs, n) ==
  IF n.left = NULL THEN << make_instr("LOAD_CONST", 0, NoName, n.line) >> ELSE exprs[n.left[1]]

Emitted(ir, next_label) == [ir |-> ir, next_label |-> next_label]

Stored(ir, name, line) == ir \o << make_instr("STORE_VAR", 0, name, line) >>

\* The loop over a list of nodes; next_label is the counter before it
gen_stmt(below, nodes, next_label) ==
  LET g[i \in 0 .. Len(nodes)] ==
        IF i = 0 THEN Emitted(<< >>, next_label)
        ELSE LET before == g[i - 1]
                 code == below[nodes[i]][before.next_label]
             IN  Emitted(before.ir \o code.ir, code.next_label)
  IN  g[Len(nodes)]

\* new_label is called twice: the ids are l and l + 1.
gen_if(exprs, below, n, l) ==
  LET then == gen_stmt(below, n.right, l + 2)
      else == gen_stmt(below, n.third, then.next_label)
  IN  Emitted(exprs[n.left[1]] \o emit_jz(l, n.line) \o then.ir \o emit_jmp(l + 1, n.line)
                \o emit_label(l, n.line) \o else.ir \o emit_label(l + 1, n.line),
              else.next_label)

\* The loop of while and of for, whose labels are start and the one after it
gen_loop(cond, body, start, line) ==
  emit_label(start, line) \o cond \o emit_jz(start + 1, line) \o body
    \o emit_jmp(start, line) \o emit_label(start + 1, line)

gen_while(exprs, below, n, l) ==
  LET body == gen_stmt(below, n.right, l + 2)
  IN  Emitted(gen_loop(exprs[n.left[1]], body.ir, l, n.line), body.next_label)

gen_for(exprs, below, n, l) ==
  LET init == gen_stmt(below, n.left, l + 2)
      body == gen_stmt(below, n.third, init.next_label)
  IN  Emitted(init.ir \o gen_loop(exprs[n.right[1]], body.ir, l, n.line), body.next_label)

StmtCode(exprs, below, n, l) ==
  CASE n.type = "VAR_DECL" -> Emitted(Stored(Initial(exprs, n), n.name, n.line), l)
    [] n.type = "ASSIGN" -> Emitted(Stored(exprs[n.right[1]], n.left[1].name, n.line), l)
    [] n.type = "BLOCK"  -> gen_stmt(below, n.left, l)
    [] n.type = "IF"     -> gen_if(exprs, below, n, l)
    [] n.type = "WHILE"  -> gen_while(exprs, below, n, l)
    [] n.type = "FOR"    -> gen_for(exprs, below, n, l)

gen_node[d \in Depths] ==
  [n \in StmtNodes[d] |->
     [l \in Nat |-> StmtCode(gen_expr[d - 1], gen_node[d - 1], n, l)]]

generate_ir(root, next_label) ==
  gen_stmt(gen_node[MAX_DEPTH - 1], root[1].left, next_label)

(***************************************************************************)
(* compile_program with fresh static variables, for a file without syntax  *)
(* errors.                                                                 *)
(***************************************************************************)

Compiles(root) == root # NULL /\ ~ semantic_analysis({}, root).error

Code(root, next_label) == ir_resolve_labels(generate_ir(root, next_label).ir)
===============================================================================
