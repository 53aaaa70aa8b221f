----------------------------- MODULE MCCommandLine -----------------------------
(***************************************************************************)
(* Small instances of CommandLine: every line of up to four characters,    *)
(* and of up to six without quotes and blanks.                             *)
(***************************************************************************)
EXTENDS CommandLine

ShortLines ==
  UNION {[1 .. n -> Chars] : n \in 0 .. 4}
    \cup UNION {[1 .. n -> Letters \cup {"<", ">", "|"}] : n \in 5 .. 6}
===============================================================================
