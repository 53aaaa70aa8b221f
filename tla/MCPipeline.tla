------------------------------ MODULE MCPipeline ------------------------------
(***************************************************************************)
(* Small instances of Pipeline for TLC: pipelines of one to four commands  *)
(* that come to an end, with and without redirections.                     *)
(***************************************************************************)
EXTENDS Pipeline

Plain(program) == [program |-> program, input |-> FALSE, output |-> FALSE]
From(program) == [Plain(program) EXCEPT !.input = TRUE]
To(program) == [Plain(program) EXCEPT !.output = TRUE]

MCPipelines ==
  { <<To("echo")>>,
    <<Plain("echo"), Plain("cat")>>,
    <<Plain("yes"), Plain("head")>>,
    <<Plain("yes"), Plain("cat"), Plain("head")>>,
    <<Plain("echo"), Plain("cat"), Plain("cat"), To("cat")>>,
    <<Plain("yes"), Plain("cd")>>,
    <<Plain("cd"), Plain("cat")>>,
    <<Plain("yes"), From("cat"), Plain("head")>>,
    <<To("echo"), Plain("cat")>>,
    <<From("cat"), To("cat")>> }
===============================================================================
