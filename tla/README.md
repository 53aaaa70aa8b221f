# A TLA+ verification of the EDM framework

`edm_shell` is a Unix shell with job control that also manages small programs in
the EDM language: it compiles them to the code of a stack machine, runs them,
debugs them, and collects their garbage. Everything but the children of the job
control happens in one process with one thread.

The modules here are translated from the source under `src/` (C and C++), not
from its documentation. Section 6 lists where the two disagree.

| Module | What it is | Lines it stands for |
| --- | --- | --- |
| `Instructions` | the instruction set and its arithmetic | `core/ir.h`, `debugger/vm_debug.c` 153-262 |
| `VM` | stack machine, allocator, mark and sweep collector, shared variables | `debugger/vm_debug.c` 25-262, 358-362 |
| `Programs` | program manager, life cycle, executor and debugger loops, over `VM` | `shell/src/builtins.cpp` 206-438, `core/program.c`, `vm_debug.c` 264-356, `core/compiler.c` |
| `ValueMachine` | abstract specification: one program that computes with numbers | |
| `Meaning` | `Programs` as an implementation of `ValueMachine`: the refinement mapping | |
| `Claims` | what the README and comments promise, over `Programs` with a history variable | |
| `Linker` | label resolution | `core/ir.c` 130-171 |
| `Source` | expressions and statements of any depth, as the grammar sees them | `compiler/parser.y` 43-99 |
| `Compiler` | grammar actions, AST, semantic check, code generation, over `Linker` and `Source` | `compiler/parser.y`, `core/ast.c`, `core/semantic.c`, `core/irgen.c` |
| `SourceScope` | reference: in which order a source's names occur, and how many operands its expressions need | |
| `SourceMeaning` | reference: what a source means, read without a compiler | |
| `Scanner` | what the scanner keeps from one file to the next | `compiler/parser_driver.c` |
| `CompiledPrograms` | sessions: `Compilations` with a `ValueMachine` that executes the code | `builtins.cpp` 251-317, `vm_debug.c` 268-269 |
| `CompiledMeanings` | those sessions next to what the sources mean | |
| `Compilations` | the compilations of a session and the static variables that outlive them: those of `Scanner`, the symbol table, the label counter | `core/compiler.c` |
| `CommandLine` | tokenizer and parser of the shell's lines | `shell/src/parser.cpp` |
| `JobControl` | pipelines as process groups, jobs, waiting, reaping, `fg`, `bg`, the terminal | `shell/src/executor.cpp` |
| `Pipeline` | the descriptors of a pipeline in the shell and its children, and the data in the pipes | `executor.cpp` 43-130, 246-316 |
| `JobTable` | the vector of jobs and its erase-remove loop | `executor.cpp` 160-204, 318-331 |
| `JobList` | abstract specification: the list the callers take that vector for | |
| `TerminalStartup` | `initialize_executor` beside a login shell and its user | `executor.cpp` 357-382 |
| `Shell` | the main loop and its dispatch, composing `Programs` and `JobControl` | `shell/src/main.cpp`, `builtins.cpp` |
| `History` | the history vector and file, shared by several shells | `main.cpp` 17-65, 109-119 |
| `ProgramsProofs`, `CompilerProofs`, `CommandLineProofs`, `JobControlProofs`, `PipelineProofs`, `ShellProofs`, `SessionProofs` (with `JobTable`'s) | theorems, section 4 | |
| `Recursion` | a lemma the proofs instantiate: functions of the depth exist | |
| `MCPrograms`, `MCMeaning`, `MCClaims`, `MCCompiler`, `MCCommandLine`, `MCPipeline`, `MCShell` | constants of the small instances | |

`PROJECT.json` has the machine-readable form: components, runs, mutants, findings,
hazards, theorems, and for every definition the lines it models.

## 1. Inventory

### Virtual machine and garbage collector (`debugger/vm_debug.c`)

*State.* Per VM: the code, the pc, a stack of object pointers (`STACK_SIZE` 1024), a
linked heap list, a breakpoint flag per instruction and a step count (`MAX_STEPS` 500000). Not per VM but
once, `static`: `vars[]`, at most 256 names with a pointer each.

*Operations.* `heap_alloc`, `gc_collect` (`mark` from the stack and `vars[]`, sweep
one heap list), `vm_init`, `vm_destroy`, `vm_step` with sixteen instructions,
`vm_executor` (step until refused, then collect), `vm_debug` (the debugger's prompt).

*Hard.* Every program's VM marks from, writes to and resets the one `vars[]`; pointers
outlive objects and `malloc` reuses addresses; nothing checks the ends of the stack
and of `vars[]`; a breakpoint and the step limit refuse instructions for good.

*Correct when* no object is freed twice, no root dangles, a collection frees what is
unreachable and nothing else, an object never changes, the executor comes back.

### Program manager (`shell/src/builtins.cpp`, `core/program.c`, `main.cpp`)

*State.* `program_table` (PID to `Program`: file name, state, code, VM) and `next_pid`.

*Operations.* `submit`, `compile`, `ir`, `run`, `memstat`, `leaks`, `gc`, `kill`,
`debug`, `list`.

*Hard.* The orders in which a user can type commands: compile after run, debug after
debug, kill and collect of programs that share variables; the debugger and the table
each keep a part of what the program's state is.

*Correct when* the state in the table agrees with the code, the VM and what the shell
is doing.

### Compiler (`compiler/`, `core/ast.c`, `semantic.c`, `irgen.c`, `ir.c`, `compiler.c`)

*State.* `compile_program` keeps nothing between calls but `static` variables: the label counter, the symbol table, and in the
scanner what it has buffered and whether it has met the end of a file.

*Operations.* `parse_source` (Flex, Bison and the grammar's actions), `semantic_analysis`, `generate_ir`,
`ir_resolve_labels`; then the code goes into the `Program` with state READY.

*Hard.* `for` moves its step into the body; nested statements use labels of one counter; a node's line is that of the token
read last; the scanner is not restarted for a new file.

*Correct when* the code does what the source says, every jump has a target, the stack is empty between statements,
and a file's code does not depend on the files before it.

### Command line parser (`shell/src/parser.cpp`)

*State.* None that outlives a line: characters become tokens (words, `<`, `>`, `|`, `&`, quotes), tokens become a `Command` of
`SimpleCommand`s. *Hard.* Quotes beside operators and blanks, redirections anywhere among the arguments. *Correct when* the accepted lines are those of
the grammar, and every word ends up in its place.

### Job control (`shell/src/executor.cpp`)

*State.* `jobs` (id, group, pids, Running or Stopped, background), `next_job_id`,
whether the shell is interactive and its group; in the kernel, the children, their
groups, the changes not collected yet and the terminal's owner; descriptors and pipes while a pipeline is made.

*Operations.* `initialize_executor`, `execute_command` (`spawn_pipeline`, `register_job`, wait unless it is
a background one), `run_child`, `setup_redirections`, `wait_for_job`, `reap_background_jobs`, `handle_child_status`,
`foreground_job`, `background_job`, `terminate_group`, `remove_job`.

*Hard.* Children stop, continue and end between any two steps of the shell; a
second change replaces one that was not collected; forks and pipes fail in the middle of a
pipeline; pids are reused; an end of a pipe left open anywhere blocks a program for ever; `remove_job`'s predicate reads the element that
the loop overwrites.

*Correct when* signals and waits reach the job they are meant for and no other, the
terminal comes back to the shell, the shell comes back from waiting and reaping, a job's
listed state is that of its processes, and each program has its own descriptors and no other.

### Main loop, builtins and history (`main.cpp`, `builtins.cpp`)

*State.* The history vector and file, the working directory, the two tables above.

*Operations.* Read a line, add it to the history and parse it (an error ends
the line). Then, in this order: `history`, the program commands, `cd` /
`export` / `exit` / `jobs` / `fg` / `bg`, a pipeline. Only the last two are followed by
reaping.

*Hard.* The process ends in many ways (`exit`, end of input, an uncaught exception of `stoi`, a trap of a program) with jobs and
programs in any state; the dispatch looks at the first command or at the number of commands, seldom at both.

*Correct when* every prompt finds the terminal with the shell, builtins in pipelines leave the shell alone, and an executed line is on file.

### Interactions

The main loop calls everything; calls return before the next line is read, so the
parts meet through what they leave behind: `run` and `debug` hand the `Program`'s code
to a VM that keeps the pointer; all VMs meet in `vars[]`; `kill` frees a VM whose objects
`vars[]` may still name; a pipeline leaves children that change by themselves; a trap
in a VM (`exit(1)` on a zero divisor) ends the shell and with it everything.

## 2. How the models correspond to the code

### `VM` and `Programs`

`value` is memory: its domain is the set of allocated addresses, its values are
`Object.value`. `heap_alloc` may return any address that is not allocated, one that
dangling pointers still name included. `vm[p]` is the VM of program `p` while it is
allocated; `vm[p].heap` is its heap list as a set, `vm[p].ir` the code it was initialised with,
which after a `compile` is not `program_table[p].ir`. `globals` is
`vars[0 .. var_count-1]`. `owner` is auxiliary: no guard reads it. It is the program for which `vm_init` last
emptied `vars[]`, until another one stores or it is destroyed; it gives a name to the sessions in
which the sharing does no harm. Both modules refer to a program by its PID; `p` in `Programs` is `v` in `VM`.

`at` is where the one thread is: at the shell's prompt, in `run`'s executor, at the debugger's prompt or
in its `continue`. Each command is an action up to the point where a loop begins, and each
instruction is an action; the call of `gc_collect` with which `vm_executor` ends belongs to `RunEnd` and
`ContinueEnd`. A `Program` that has no code is compiled by `run` and `debug` themselves, in the same action.

What is abstracted:

- The source files. A successful compile gives any code of the set `IRs`, a different one each
  time if the file changed in between; a failing one changes nothing and is no step.
- `list`, `ir`, `memstat`, `leaks`, and the debugger's `state`, `memstat`, `leaks` and `help`,
  which only print. Commands with a wrong PID print an error and are no step.
- The step counter. The code goes on counting refused steps, which no code reads; the model stops
  at `MAX_STEPS`.
- Undefined behaviour. An access outside the stack or `vars[]` takes the shell to the location `"undefined"`
  and ends the behaviour. A read of freed memory gives any int. A collection that writes a mark into
  freed memory either does no harm or goes to `"undefined"` (`CorruptingGc`).
- `int` arithmetic wraps, as the build has no optimisation and the operations are
  those of the machine; division truncates, a zero divisor ends the shell, so does the least int
  divided by -1. A `malloc` that returns NULL ends it too (a write to address 0).
- `breakpoints[]` is not bounded (10000 in the code; code that long is not modelled).

### `ValueMachine` and `Meaning`

`ValueMachine` is what the programmer of an EDM program may believe: a program starts with an empty stack and no
variables, each instruction does to numbers what it says, and nothing else changes them. `Meaning` maps
`Programs` to it: the program is the `owner`, and the numbers on its stack and in its variables are the values of the objects the
pointers lead to. `OwnersMeaning` says that every behaviour of `Programs` is one of `ValueMachine` under this
mapping: collections, kills, other programs' instructions and reused addresses are stutters, `vm_init` starts a program, and another program's
store or a kill of the owner ends it. The abstract machine says nothing of fatal steps, breakpoints and limits: it may stop anywhere.
Both use `Instructions`, so what is compared is the memory and not the arithmetic.

### `Linker`, `Source`, `Compiler`, `SourceScope`, `SourceMeaning`, `Scanner`, `Compilations`, `CompiledPrograms`, `CompiledMeanings`

A source is given by its syntax: a sequence of statements with their lines. What the automata of Flex and Bison make of
characters is input; the grammar's *actions* are modelled, with the lookahead that decides which line `node_with_line` gives a
statement (`yylineno`) and the dangling else, whose lookahead it is. A pointer to an AST node is a sequence of nodes: empty for
NULL, longer for a list chained by `next`, so that `ast_make_for` appends the step to the end of the body as the code does.
What the code does by recursion over a tree (`expr`, `stmt`, `check_node`, `gen_expr`, `gen_node`) is here a recursive function of the *depth*: its value at `d` is a function on the
trees of depth `d`, made of its value at `d - 1`. `Expressions[d]`, `Statements[d]`, `ExprNodes[d]` and `StmtNodes[d]` are the sets of what has depth `d` or less, built in the same way, so that
"every source" is a set one can quantify over. `MAX_DEPTH` is any depth: a text is finite, so it has one. The right-hand sides (`Expr`, `Stmt`, `semantic_check`, `ExprCode`, `StmtCode`) are operators of their own and read like the C functions.

`semantic_check` threads the symbol table and stops at the first error; `gen_stmt` threads the emitted code and the label counter;
`ir_resolve_labels` is `Linker`, with `label_map` as a function.

`SourceScope` and `SourceMeaning` are no translations. The first lists a source's declarations and uses in the order of the text (the step of a `for` counts as behind its body, a declaration as before its own initial value), and says how many operands an
expression needs; the second executes the syntax directly. A source that has not ended after `FUEL` iterations counts as endless; the instances' sources end long
before or never.

The variables that outlive a compilation are in two modules. `Scanner` has the scanner's `buffer` and whether it has met the end of its file,
and is a specification of its own, of any sequence of files; `Compilations` adds the symbol table and the label counter, and its
`compile_program` conjoins what a compilation does to each. A file is a sequence of *pieces*: a statement, or text with a syntax error up to the token at
which the parser gives up. The scanner reads `CHUNK` pieces (8192 bytes in flex) at a time. `Content(f)` is what the parser is given: the rest of the
buffer, then the file, unless the end of another file is still to be reported. Flex and Bison are external here, as is their reading one character more.

`CompiledPrograms` puts a `ValueMachine` behind it: `Compile`, `Run`, and the machine's steps alternate at the prompt. `CompiledMeanings` adds the meaning of the source that was
accepted last, for the two properties that compare with it; the others are properties of `CompiledPrograms`, which the proofs are about. `source` and `meaning` are auxiliary.

### `CommandLine`

One character of `tokenize` or one token of `parse_simple_command` is one action, the way the loops go. Characters are letters, blank, the operators and the two
quotes; `>>` is two tokens as in the code. `line` stays as it was so that properties can compare.
`Meant` reads it without the tokenizer: the quote that is open at each position (`OpenAt`) is a recursive function of the line.

### `Pipeline`

`fds[0]` is the shell's descriptor table, `fds[p]` that of the child of command `p`; a number maps to what it refers to: what the shell was started with,
an end of a pipe, a file. `pipe`, `fork`, `dup2`, `close` and `open` do what the kernel does with the least free number. `MakePipe` and the pipe of
the last command, `Fork`, `CloseEnds` and `SpawnFails` are the steps of `spawn_pipeline`; `Inherit`, `Redirected`, `Exec` those
of `run_child`. Programs are external: they read to the end of their input or some data, write some data or without end, and get SIGPIPE when nobody can
read. Pipes hold `CAPACITY` items. Descriptors 0 to 2 are open when the shell starts.

### `JobTable` and `JobList`

The vector of jobs with `register_job` and `remove_job`, one access to an element per action: `std::remove_if` finds the first match and moves the elements behind it
down, while its predicate reads the number through a reference to the element that was to be removed. `JobList` is the list the rest of the code
believes in: `Ask` is a call of `remove_job` and keeps the number it is for in `leaving`, `Leave` its return, which takes the job of that number and no other. `OneJobLeaves` says that the vector
implements it (`remove_job` is `Ask`, the last step of the loop `Leave`, the others change nothing). `JobControl` uses the list as a function of job numbers.

### `Shell`

`Shell` instantiates `Programs` as `P` and `JobControl` as `J`; both wait at the prompt when `AtPrompt`. A `Line` is what the dispatch looks at: the first word, its argument (none, a number, a
word, too many digits), the number of commands, and `&`. `Dispatch` tries the program commands, the builtins and `execute_command` in the order of `main`.
`ShellEnds` is every end of the process; when a program ends it (`EndsTogether`) the jobs lose their shell. `export` only changes the environment.

### `TerminalStartup`

`initialize_executor`, one call of the kernel per action, beside a login shell that takes the terminal back when the job in the foreground stops or ends, and a user
who uses `fg`, `bg` and Ctrl-Z. `Groups` are the shell's, another job's and the login shell's. Whether the shell leads its group when it starts is an input. `suspends`
only bounds Ctrl-Z; `behind`, which no action reads, records that the shell was stopped between its test and `signal()` and then continued in the background.

### `History`

Each shell has its vector; the file is shared. A line goes into the vector (`Type`), into the file (`append_history_line`), and is executed (`Return`), in this order. `End` can
come at any moment. `LoadLine` is one `getline`; others append meanwhile. `Unreadable` is the start of a shell that cannot open the file: its vector stays empty. `Permission` makes the file unwritable, which the code ignores.

### `JobControl`

`procs` has the children the shell has not reaped, each with its state, its group
and the one change that a `waitpid` can still pick up. `Continued(pg)` is `kill(-pg, SIGCONT)`, `Collected(p)` what is
left when `waitpid` returned `p`. `Stop`, `Continue` and `End` are the processes themselves, or whoever
signals them, at any moment. `at` is where the shell's thread is: prompt, spawning, giving
up a pipeline, waiting, reaping, exited. One iteration of each of the loops around `fork` and `waitpid` is one action.

The kernel's part is modelled from how the code uses it (`PROJECT.json` marks it external): a pid is not
reused while it names a child or a group; a waitpid with `WUNTRACED` reports stops, with
`WCONTINUED` continuations; `setpgid`, called by parent and child, is done before either does anything else.
`WNOHANG` loops end when nothing is left to report. The SIGTERM to a pipeline that could not
be completed is one of the reasons for `End`. `waitpid` in `wait_for_job` cannot fail with `ECHILD` and `kill` in `fg` and `bg` cannot fail
with `ESRCH`: both need a job without children, which `JobsAreGroups` excludes.

## 3. Runs

| Run | Instance | Shows |
| --- | --- | --- |
| `shared_variables` | two programs, four objects, five steps per VM, code that stores a variable and code that reads one before it stores | `TypeOK`, `HeapsPartition`, `OwnedRoots`, `LifecycleConsistent`, `OwnersMeaning` in every interleaving of commands, with every reuse of an address (1.3 million states up to symmetry) |
| `one_program` | one program, four objects, ints from -2 to 1, stack of 2, one variable, nine steps; five sources: `x = x + 1`, an endless loop, a division that traps or leaves operands, two variables (one too many), no code | `LeaksAreVariables`, `ObjectsAreImmutable`, `ExecutorReturns` (564,000 states) |
| `compiler` | sessions of up to three compilations: all files of up to three pieces (declaration, loop, error), and some 600 sources of a larger shape (nesting of `if`, `while`, `for` and blocks, dangling else, declarations in scopes) at a session's end; each code is executed | `CompiledMeaning`, `EndsLikeSource`, `AcceptsWellScoped`, `StackDiscipline`, `JumpsAreLinked`, `HistoryDoesNotShow`, `CorrectFilesHeal` (60,000 states) |
| `command_line` | every line of up to four characters over one letter, blank, quotes and operators, and of up to six over letter, `<`, `>`, pipe | `TypeOK`, `CommandsAreRunnable`, `AcceptsGrammar`, `CommandsMatchTokens`, `TextIsKept` |
| `jobs` | three pids, two jobs of up to two processes, fair shell | `TypeOK`, `JobsAreGroups`, `GroupsAreDisjoint`, `TerminalOwner`, `StoppedIsListed`, `RunningIsListed`, `WaitedIsForeground`, `ForegroundReturns`, `PromptReturns` (370,000 states) |
| `pipelines` | ten pipelines of one to four programs, six descriptors, pipes of one item | `ChildEnds`, `ShellKeepsNone`, `PipelineFinishes`, with `pipe` and `fork` failing anywhere |
| `job_table` | up to five jobs registered, any removed at any time | `IdsAscend`, `OneJobLeaves` (9,500 states) |
| `shell` | one program, one job of up to two processes, every line the dispatch tells apart | `PromptsOwnTerminal`, `PipelinesKeepShell`, `BadJobsAreRefused` |
| `startup` | shell, another job, a user who types Ctrl-Z up to twice | `LeadersBecomeReady`, `NothingIsTaken` |
| `history` | two shells, two different lines, three lines in the file | `ListedIsRecorded` |
| `claim_gc`, `claim_run` | one or two programs, three objects | one violated statement of the documentation each, section 6 |

### The properties

Programs:

- `HeapsPartition`: the heap lists are disjoint sets of allocated objects, so a sweep or a kill frees each
  object once. It is at risk because every collection marks through variables that
  other programs' objects hang on.
- `OwnedRoots`: while the program that last had `vars[]` emptied is the only one to store, all that its stack
  and the variables refer to is allocated and on its own heap. Without the condition it fails, see `claim_gc`.
- `OwnersMeaning`: under the same condition the program computes what its code says, as if there were no heap and no other program. It
  needs `OwnedRoots` (the numbers are those of live objects), `ObjectsAreImmutable` (they stay the same) and
  the reset of `vars[]` in `vm_init` together.
- `LifecycleConsistent`: states, code, VMs and control agree. The condition for PAUSED that the VM's code is the
  Program's is the reason why `debug` has to reset the VM.
- `LeaksAreVariables`: what `memstat` calls leaked after a run to the end is exactly the variables, in a session of one
  program. With several it fails: a collection marks objects of other heaps and leaves the marks on
  them, and they survive the next collection of their own.
- `ObjectsAreImmutable`: assignment shares pointers (`var y = x`), so no instruction may write to an object.
- `ExecutorReturns`: `run` and `continue` come back or the shell ends.

Compiler:

- `CompiledMeaning`, `EndsLikeSource`: compiler correctness, against the reference: same variables at the end, a trap where the
  source divides by zero and with the same variables, an end where the source has one.
- `AcceptsWellScoped`: the semantic check, whose symbol table is flat and follows the tree's order (a `for`'s step after its body), accepts exactly the
  sources in which each name is declared once and before its uses in the text, the step of a `for` counted as behind its body.
- `StackDiscipline`: empty between statements, no missing operand, and no deeper than the deepest expression needs, which is what has to stay below `STACK_SIZE`.
- `JumpsAreLinked`: labels are unique in a code, whatever the counter was, and every jump goes to a label.
- `HistoryDoesNotShow`: a compilation's verdict and code are the file's own, whatever was compiled or rejected before, *if the scanner kept nothing*. Without the
  condition it fails, section 6.
- `CorrectFilesHeal`: what the scanner kept does not stay for ever: a file without syntax errors, compiled again, gets through.

Shell:

- `AcceptsGrammar`, `CommandsMatchTokens`, `TextIsKept`, `CommandsAreRunnable`: the parser accepts exactly the grammar's lines, puts every word where it
  belongs, and what it accepts can be executed. `TextIsKept` compares the tokens with the line, in every iteration of `tokenize` and of the whole line once its last word is a token and
  a final `&` is taken off: no character that was meant is lost, doubled or moved. Only a line with an open quote is excepted, which is rejected.
- `ChildEnds`, `ShellKeepsNone`, `PipelineFinishes`: each program has the input and output it asks for and no other descriptor, the shell keeps none,
  so every pipeline of programs that end with their input or their reader ends.
- `JobsAreGroups`, `GroupsAreDisjoint`: what is signalled or waited for by group is exactly that job, in spite of pid reuse.
- `TerminalOwner`, `PromptsOwnTerminal`: the terminal is the waited job's or the shell's; no prompt of either part stands in the background.
- `StoppedIsListed`, `RunningIsListed`: the listed state. Both are as strong as the
  code allows: the state of a job is that of the last change of any of its processes, so a job of several whose
  running process ends stays Running with nothing but a stopped process. For jobs of one process (`MAX_PIPE` 1) they say that the listed state is the process's.
- `WaitedIsForeground`: a job that is waited for is listed as running, in the foreground.
- `ForegroundReturns`, `PromptReturns`: the shell comes back from waiting, spawning, giving up and reaping.
- `IdsAscend`, `OneJobLeaves`: numbers ascend and are never given twice; `remove_job` removes the job it was called for and no other, in whatever position, before anything else happens to the list.
- `PipelinesKeepShell`: `cd` and `exit` in a pipeline of several commands do not reach the shell. `BadJobsAreRefused`: nothing typed after `fg` and `bg` ends the shell or touches another job.
- `LeadersBecomeReady`, `NothingIsTaken`: a shell started as its own group gets through `initialize_executor`, and takes the terminal from nobody, however often jobs, the shell among them, were stopped
  and moved. One case is excepted because the code does take it then: the shell is stopped between its test and `signal()` and continued in the background.
- `ListedIsRecorded`: what a shell lists and has started to execute is in the file, in its order.

Every property is shown to depend on the code by a mutant: a changed definition, kept beside the original in the
module, under which TLC finds the property violated (`PROJECT.json`, "mutants").

### Bounds

All bounds are constants. The code of `Programs`' instances is what the compiler makes of a short source file that
its semantic check accepts (`MCPrograms` has the sources). Two programs are enough for every sharing of variables the code has: what a VM
does to the others depends on `vars[]` and the marks only, and the proofs remove the bound. Four
objects let two programs hold objects while an address is freed and reused, and exhaust memory. `MAX_STEPS` of five is reached by a program that
is run twice, nine by the endless loop. The ints of `one_program` make `x + 1` wrap.

`Files` and `FilesAfter` bound the sessions of `compiler`: a source of a larger shape is the last file of a session, after nothing, an empty file or one that used labels; what a file leaves behind
(buffer, names, labels) does not depend on its shape. `CHUNK` of two pieces puts errors before, at and behind the end of what was read. Two levels of
statements have every pair of a statement and the one it contains.

Two jobs of two processes have every order of stops, continuations and ends of a pipeline while another job exists, and one pid fewer than that makes pids be
reused. Four commands are two middle ones in a row, the case in which the ends of three pipes exist at once. Five jobs are enough for a removal at the beginning, in the middle and at the end after earlier removals. Two suspensions let
`fg` become stale twice.

Symmetry is used for invariants and for the steps of `OwnersMeaning`, `PipelinesKeepShell` and `BadJobsAreRefused`, never with liveness. No definition names a single object or pid.

`CHECK_DEADLOCK FALSE` stands in every configuration because the shell really stops: at `exit`, at the
end of its input, with a fatal trap, in undefined behaviour, or, in the smaller models, when the line is parsed, the pipeline has ended or the bounds of the session are reached.

### Fairness

- `Programs`: weak fairness of the executor's next step while `at` is `"run"` or `"continue"`: the loop of
  `vm_executor` has no other way to spend its time. Nothing makes the user type, so prompts have none. `CompiledMeanings`: the same, for `Execute`.
- `JobControl`: weak fairness of an iteration of `wait_for_job` (`waitpid` returns
  when there is something to report) and of the shell's work between prompts. No process has to end and no user has to type. `PromptReturns` assumes that processes do not stop and continue for ever, as
  the loop of `reap_background_jobs` would have something to report again and again.
- `Pipeline`: weak fairness of the shell and of each child: the kernel schedules them.
- `TerminalStartup`: weak fairness of the shell's steps and of the login shell's return; strong fairness of the user calling the shell to the foreground, since another job may be called instead
  any number of times. Who never calls the shell never gets it.

## 4. Proofs

All hold for every value of the constants that the modules' named assumptions allow.

`ProgramsProofs`: `TypeCorrect`, `NoDoubleFree` (`HeapsPartition`), `NoUseAfterFree` (`OwnedRoots`), `Lifecycle` (`LifecycleConsistent`), and
`Immutable` (`ObjectsAreImmutable`).
The first four follow from one inductive invariant, the conjunction of them all (`IInv`, in two parts: `MemoryOK` for
the memory, `TableOK` and `LifecycleConsistent` for the table). None is inductive alone: that a store keeps `OwnedRoots` needs the
stack of the owner to be on its heap; that a kill keeps it needs the heaps to be disjoint; that `cur` has a VM needs the life cycle.
The proof goes through a summary of an instruction: all sixteen either push one new object or
move within the old ones (`StepHasEffect`), so each part of the invariant is shown for two cases and not for sixteen. The
arithmetic lemmas show that every result is an int, the truncating quotient included.

Two more hold for code that is `Balanced`: there is one depth for each place in the code, the same on every way to it (`Instructions`). That is what the
code generator delivers: `SessionsKeepStackDiscipline` proves it of the code of every source, and `MCPrograms` assumes it of its own, which TLC evaluates. Then the depth of
every stack is that of its pc (`DepthsFit`), from which `NoUnderflow` (`OperandsThere`: no instruction lacks an operand, whatever the session) and
`OnlyVariablesAreLeft` (`LeaksAreVariables`) follow. The second also needs that in a session of one program no mark is ever left (`Alone`): every live object is
on the one heap, so each collection takes away every mark it made.

`Refinement`, which is `Spec => OwnersMeaning`, uses the invariant before and
after a step and that no object changes. There is one lemma for each way the mapped variables can change: `OwnStep` (an instruction of the
owner is that instruction of the value machine; the lemmas on `Image` carry push and pop from pointers to numbers), `StartsProgram`, `EndsProgram`; everything else comes
down to `Stutter`: a step that leaves the owner's pointers alone leaves its numbers alone, whatever it frees or allocates, because the
invariant says that before and after it the pointers lead to allocated objects.

`CompilerProofs` is about `SessionSpec`: any files of any depth, compiled and executed in any order. It goes from pieces of code to sessions.

- *Linking.* Resolving the labels of linkable code (labels have different ids, jumps name one of them) changes the operands of jumps only and makes each the index of the instruction that is
  its label (`JumpsReachTheirLabels`); the result is linked code of the kind `IRsAssumption` asks for (`ResolvedCodeIsLinked`).
- *The stack and the jumps.* A `Piece` is code with the set of its labels, the set of the labels its jumps name, and a depth of the stack at each of its places, from a first to a last one, that stays within a set;
  jumps leave and labels are met with an empty stack. Two pieces one behind the other are a piece when the depths meet and the labels differ (`Compose`). An expression's code is a piece without
  labels that leaves one value more and stays within `Need` (`ExpressionsCompute`). A statement's is a piece from 0 to 0 that uses the labels between the counter before it and the one behind it, each once, and jumps to
  no others (`Closed`; one lemma for each form: `VarGood`, `IfGood`, `WhileGood`, `ForGood`, `BlockGood`, then `StatementsAreGood` by induction on the depth). So a file's code is linkable, and linked it is `GoodCode`
  (`ResolvedIsGood`). The invariant of a session (`SessionInv`) is that the result of the last compilation and the code that is executed are good for `source`, and that the machine's stack has
  the depth that belongs to its pc; `ExecuteKeeps` follows the depth through every instruction. `SessionsKeepStackDiscipline` (`StackDiscipline`) and `SessionsLinkJumps` (`JumpsAreLinked`) follow.
- *Scope.* Checking the tree of a statement is meeting its occurrences of names one by one in the order of `SourceScope` (`Agree`, `StatementsAgree`), with the table and the verdict passed on; the scan finds an error exactly when the
  source is not well scoped (`ScanFindsErrors`). `SessionsAcceptWellScoped` (`AcceptsWellScoped`) adds that `semantic_analysis` resets the table, so that what an earlier file left does not count.
- *History.* When the label counter is larger by `k`, the code of a statement is the same with labels and jump targets larger by `k` (`Shifted`, `AllNodesMove`): linking makes the same targets of them
  (`MovedCodeIsSame`). With a scanner that kept nothing the content is the file, and `SessionsForgetTheirHistory` (`HistoryDoesNotShow`) follows.
- *The scanner.* `FilesHeal` (`CorrectFilesHeal`) is about `ScannerSpec`, whose variables a compilation changes as `ScannerNext` says: any files, any `CHUNK`. The invariant says that the end of a file is pending only when the buffer is
  empty, so a file without errors is read behind the buffer and the first error is one of the buffer's. `ReadForIs` says that then nothing but the buffer was read when the parser
  gives up, unless the error was the last piece of it; `OneErrorLess` counts what is behind the error.

That the functions of the depth obey their equations is itself proved: `Recursion` shows, for a right-hand side given as a CONSTANT operator, that a function with `f[d] = Rhs(f[d - 1], d)` up to `N` exists (a least depth without one cannot be),
and `CompilerProofs` instantiates it once for each function. Inductions on the depth and on the length of lists are over sets of numbers (`Numbers`).

With this the two hypotheses of the theorems about `Programs` are discharged for compiled code: `StackDiscipline` contains `Balanced`, `JumpsAreLinked` what `IRsAssumption` asks of jumps.

`CommandLineProofs`, for lines of any length:

- `TypeCorrect` and `AcceptedCommandsRun` (`CommandsAreRunnable`). The invariant adds to the types that no token and no
  argument collected so far is the empty string, that every finished command has a name, and that nothing is parsed while the line is tokenized.
- `GrammarIsAccepted` (`AcceptsGrammar`) and `TokensAreTranslated` (`CommandsMatchTokens`). Their invariant (`Parsed`) describes the parser between two tokens: the tokens from `start` to `pos` are those of the
  command that comes next and hold no pipe (`Segment`), the redirection that waits for its name is the token before `pos` (`Pending`), and `simple` and `commands` are what the tokens
  they stand for say, which so far follow the grammar (`Translated`). Counting the pipes and the arguments before a position is the work: `Pipes`, `NextPlace`, `WordTranslates`, `FileTranslates`.
- `TextStays` (`TextIsKept`): `quote` is the quote that is open at `i` and what was taken is what was meant, character by character (`TextInv`); at the end of the line the last word becomes a token
  (`TextFlush`), and what is taken off behind it is an `&` because every token of that type has this text (`Ampersands`). `OpenAt` and `FlattenSeq` are
  recursive functions. That they exist and obey their equations is shown by induction on the length. The induction is over *sets* of numbers (`Numbers`, from the least element
  of a set, `LeastElement`): the library's induction theorems take an operator, which the provers cannot instantiate, but `S = {n \in Nat : ...}` says the same.

`JobControlProofs`, for every set of pids, number of jobs and length of pipelines, with and without a terminal:
`TypeCorrect`, `JobsAreTheirGroups`, `GroupsStayDisjoint`, `TerminalIsReturned`, `WaitedStaysForeground`. The
conjunction of the five is inductive; `GroupsAreDisjoint` has to speak of the pipeline that is being spawned or given up, or a
registered job could share its group. `StatusKeepsJobs` is the core: whatever status is
collected, the listed jobs are the groups that are left.

`StoppedJobsAreListed` and `RunningJobsAreListed`: their invariant adds what is still to be collected: a change that was not collected agrees with the process's state (`NotesFit`), no
job is larger than `MAX_PIPE` (`JobsAreSmall`), and no child of a pipeline that is not registered yet was collected (`SpawnedUnseen`); the two properties are then inductive on top of the first invariant.

`SessionProofs`, about `JobTable`: `NumbersAscend` (`IdsAscend`) and `VectorImplementsList` (`OneJobLeaves`). The second says that after the call for a job the next thing that happens to the list is that this job leaves it. The invariant says, of the loop in the middle, which elements are already moved and which not, that the vector keeps the numbers of the old one in order, and that
the aliased reference names either the removed job or one behind it, whose number no element still to be tested has (`Numbered`, `Finding`, `Moving`). That numbers ascend is why the aliasing does no harm.

`PipelineProofs`: `ProgramsHaveTheirEnds` (`ChildEnds`) and `ShellIsLeftClean` (`ShellKeepsNone`), for pipelines of any length and failures anywhere. The invariant gives the shell's table at each place of the loop: the three standard descriptors, the read end kept from
the previous command, and the ends of the pipe just made.

`ShellProofs`: the shell implements both of its parts, `ProgramsImplemented` (`Spec => P!Spec`) and `JobControlImplemented` (`Spec => J!Spec`): each line the dispatch tells apart, each of
the debugger's and each step of a child is a step of one part, or of both, or a stutter. So the theorems above about `Programs` and `JobControl` hold in the shell, which TLC can only
check on instances much smaller than those of the parts. Three things neither part says alone: `PromptsAreInForeground` (`PromptsOwnTerminal`: the invariant is that programs are executed only while job control is at its
prompt and that the shell has the terminal whenever it does not wait), `LongLinesKeepShell` (`PipelinesKeepShell`) and `BadJobsChangeNothing` (`BadJobsAreRefused`), which are about the dispatch of the line.

`SessionProofs`, about `History` and `TerminalStartup`: `LinesAreRecorded` (`ListedIsRecorded`), for any number of shells: what a shell has listed is a subsequence of the file, and it stays one when anybody appends; the line that was listed last and
is not yet appended is the only exception, and a line that could not be appended is the condition. `WaitsForTerminal` (`NothingIsTaken`): between its test and `signal()` the shell can lose the foreground only by being stopped,
and a shell that is stopped does not go on: what continues it gives it the foreground back, or it is the case the property excepts; behind `signal()` Ctrl-Z does not stop it any more (`StartInv`).

The assumptions are those of the modules, which TLC evaluates on its instances: bounds are naturals, the shell's group is no child's
pid, letters are not operators, files are sequences of errors and of statements of the depth that `MAX_DEPTH` allows, `CHUNK` is positive, and `IRsAssumption`: jumps of resolved code have a target inside the code and constants are ints.
`ShellAssumption` is the conjunction of those of its parts. `Balanced` is a hypothesis of two theorems and no assumption of the module.

Checked by TLC only:

- `CompiledMeaning`. Its reference executes loops by recursion on the fuel and on the statement at once (`Loop`, RECURSIVE, which the prover does not take). A proof would need a simulation between places in the code and
  rests of the source; what is proved of the code is the part that needs no values (stack, jumps, names).
- Liveness under fairness: `ExecutorReturns`, `EndsLikeSource`, `ForegroundReturns`, `PromptReturns`, `PipelineFinishes`, `LeadersBecomeReady`.
- The claims, which are violated.

## 5. What is not modelled

| Part | Why |
| --- | --- |
| The automata that Flex and Bison generate | generated from tables; trees, and the token at which a syntax error is found, are inputs |
| Variable store of `ir.c` | nothing calls it |
| Environment (`export`) and the text of messages | nothing in the models depends on them |
| Names of more than 31 characters, which the compiler cuts | the models' names are atoms |
| `breakpoints[10000]` | code of that length is out of TLC's reach, and nothing else bounds the code |
| A shell started with a standard descriptor closed | `dup2` of a descriptor to itself and the `close` behind it would close the program's input or output; `Pipeline` assumes descriptors 0 to 2 |
| Reports (`list`, `ir`, `memstat`, `leaks`, `jobs`) | they change nothing. `jobs` prints before the shell collects what changed since the last command, so an ended job may be listed once more |
| Build files, sample programs | no behaviour of their own |

Some hazards of the code no property excludes, because the code does not: more variables than `MAX_VARS`, marks left on other programs' objects, the heap that a second `debug` drops,
a trap that ends the shell with everything else, code longer than `breakpoints[]`, a PID that is no number. The models have these steps (but for the length of the code), and `PROJECT.json` says so at each.

## 6. Disagreements of documentation and code

Shown by a run:

| Run | The documentation | The code |
| --- | --- | --- |
| `claim_gc` | `gc`: "globals are preserved" (README.md:63) | after another program ran, `gc` of the first frees the objects of its variables |
| `claim_run` | `run` executes "to completion" (README.md:43) | a run that a breakpoint or the step limit stops is TERMINATED |

`Claims` adds one history variable, `stored`: what each program last stored under each name. The code does
not have it; it says what "its globals" means although `vars[]` does not know whose a variable is.

Seen in the modules, without a run of their own:

- `quit` of the debugger: "program remains in current state" (vm_debug.c:296). Starting any other program empties the variables of the paused one (`vm_init`).
- Step and continue after a breakpoint (README.md:73-80). At a breakpoint `step` is refused and leaves the debugger, `continue` stays where it is (`AtBreakpoint` is tested first and never cleared).
- `kill` frees the program's resources (README.md:47). A second `debug` drops the heap list, and its objects are never freed (`Debug`).
- `run` executes the program (README.md:43). After a new compile, `run` resumes the old code of a VM that exists (`Run`).
- "break <line>  Set breakpoint at source line" (vm_debug.c:293). An `if` without `else` has the line of the token behind it (`yylineno` in `Compiler`), so `break` of the next line selects its jump.
- "Compilation successful." (builtins.cpp:260). After a file with a syntax error, what flex had buffered of it is parsed as the beginning of the next file (`Content` in `Scanner`), whose code is then not the file's.
- Builtins that "appear in pipelines/background" "should NOT affect the parent shell" (executor.cpp:109). `is_builtin` does not look at `&`: `exit &` ends the shell, `cd &` moves it (`is_builtin` in `Shell`).
- `quit`: "Exit the shell." (README.md:48). No code knows the word; it is executed as a program (`Words` in `Shell`).

## 7. What could follow

Every component but the generated automata is modelled, and every invariant that a run checks is a theorem except `CompiledMeaning`. What is left:

1. `CompiledMeaning` as a theorem: the meaning of a source as an abstract machine over rests of statements, which the code implements (a refinement needs no recursion on the fuel).
2. Descriptors closed at the start in `Pipeline`, and names that are cut in `Compiler`.

## 8. Running

    tlc -workers 2 -config MCShared.cfg MCMeaning.tla
    tlc -workers 2 -config MCSingle.cfg MCPrograms.tla
    tlc -workers 2 -config MCCompiler.cfg MCCompiler.tla
    tlc -workers 2 -config MCCommandLine.cfg MCCommandLine.tla
    tlc -workers 2 -config MCJobs.cfg JobControl.tla
    tlc -workers 2 -config MCPipeline.cfg MCPipeline.tla
    tlc -workers 2 -config MCJobTable.cfg JobTable.tla
    tlc -workers 2 -config MCShell.cfg MCShell.tla
    tlc -workers 2 -config TerminalStartup.cfg TerminalStartup.tla
    tlc -workers 2 -config History.cfg History.tla
    tlc -workers 2 -config ClaimGc.cfg MCClaims.tla
    tlc -workers 2 -config ClaimRun.cfg MCClaims.tla
    for m in *Proofs.tla Recursion.tla; do tlapm $m; done
