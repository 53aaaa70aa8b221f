----------------------------- MODULE Compilations -----------------------------
(***************************************************************************)
(* The compilations of a session: compile_program of src/core/compiler.c,  *)
(* with the static variables that outlive a compilation: those of the      *)
(* Scanner, the symbol table and the counter of labels.  CompiledPrograms   *)
(* is the specification: the shell compiles between two programs.          *)
(***************************************************************************)
EXTENDS Compiler, Scanner

CONSTANTS
  FilesAfter(_),  \* bound: the files compiled after a file
  MAX_COMPILES    \* bound: compilations in a session

ASSUME FilesAssumption ==
  \A f \in Files :
    /\ FilesAfter(f) \subseteq Files
    /\ \A n \in DOMAIN f : SyntaxError(f[n]) \/ f[n] \in FileStatements

VARIABLES
  symtab,         \* the names in the symbol table
  next_label,
  result          \* of the last compilation: [ok, ir]

vars == <<scanner, symtab, next_label, result>>

LastLine == 100

NoCode == [ok |-> FALSE, ir |-> << >>]

Init ==
  /\ ScannerInit
  /\ symtab = {}
  /\ next_label = 0
  /\ result = NoCode

SyntaxFails(f) ==
  /\ Rejects(f)
  /\ result' = NoCode
  /\ UNCHANGED <<symtab, next_label>>

EmptyFails(root) ==
  /\ root = NULL
  /\ result' = NoCode
  /\ UNCHANGED <<symtab, next_label>>

SemanticFails(root) ==
  LET check == semantic_analysis(symtab, root)
  IN  /\ root # NULL /\ check.error
      /\ symtab' = check.symtab
      /\ result' = NoCode
      /\ UNCHANGED next_label

Succeeds(root) ==
  LET check == semantic_analysis(symtab, root)
      g == generate_ir(root, next_label)
  IN  /\ root # NULL /\ ~ check.error
      /\ symtab' = check.symtab
      /\ next_label' = g.next_label
      /\ result' = [ok |-> TRUE, ir |-> ir_resolve_labels(g.ir)]

Parsed(f) ==
  /\ Accepts(f)
  /\ \E root \in {program(Content(f), LastLine)} :
       EmptyFails(root) \/ SemanticFails(root) \/ Succeeds(root)

compile_program(f) ==
  /\ compilations < MAX_COMPILES
  /\ Compiled(f)
  /\ SyntaxFails(f) \/ Parsed(f)

NoFile ==
  /\ compilations < MAX_COMPILES
  /\ NotOpened
  /\ result' = NoCode
  /\ UNCHANGED <<symtab, next_label>>

(***************************************************************************)
(* Properties.                                                             *)
(***************************************************************************)

Correct(f) == ErrorsIn(f) = {} /\ Compiles(program(f, LastLine))

\* The same code but for the numbers of the labels, which nothing executes
SameCode(a, b) ==
  /\ Len(a) = Len(b)
  /\ \A i \in DOMAIN a :
       IF IsLabel(a[i]) THEN IsLabel(b[i]) /\ a[i].line = b[i].line ELSE a[i] = b[i]

FileCode(f) == Code(program(f, LastLine), 0)

\* Unless the scanner kept something of a file with a syntax error, a
\* compilation gives the file's own verdict and code, however many files were
\* compiled or rejected before: the symbol table and the label counter do not
\* show (semantic_reset, new_label, ir_resolve_labels).
HistoryDoesNotShow ==
  [][\A f \in FilesAfter(file) :
       file' = f /\ compile_program(f) /\ ScannerIsFresh =>
         /\ result'.ok = Correct(f)
         /\ result'.ok => SameCode(result'.ir, FileCode(f))]_vars
===============================================================================
