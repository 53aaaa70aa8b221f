--------------------------- MODULE CompiledMeanings ---------------------------
(***************************************************************************)
(* The sessions of CompiledPrograms, in which the code of a source is      *)
(* compared with what the source means.                                    *)
(***************************************************************************)
EXTENDS CompiledPrograms, SourceMeaning

VARIABLE meaning   \* auxiliary: of the last source that was accepted

allVars == <<sessionVars, meaning>>

CompileMeaning ==
  /\ Compile
  /\ meaning' = IF result'.ok THEN Meaning(source') ELSE meaning

ExecuteMeaning == Execute /\ UNCHANGED meaning

MeaningInit == SessionInit /\ meaning = Meaning(<< >>)
MeaningNext == CompileMeaning \/ (Run /\ UNCHANGED meaning) \/ ExecuteMeaning
MeaningSpec == MeaningInit /\ [][MeaningNext]_allVars /\ WF_allVars(ExecuteMeaning)

(***************************************************************************)
(* Properties.                                                             *)
(***************************************************************************)

Trapping ==
  /\ who # 0 /\ pc < Len(code)
  /\ Machine!Instr.op \in BinaryOps
  /\ Traps(Machine!Instr.op, Machine!Below, Machine!Top)

\* The code computes what the source means: it ends with the variables the
\* source ends with, it divides by zero where the source does and with the
\* same variables, and it does neither when the source is endless
\* (gen_stmt, gen_expr, ast_make_for, ir_resolve_labels).
CompiledMeaning ==
  /\ AtEnd => meaning.ended = "no" /\ store = meaning.store
  /\ Trapping => meaning.ended = "trap" /\ store = meaning.store

\* ... and it does come to its end or to its trap when the source is not endless.
EndsLikeSource == who # 0 /\ meaning.ended # "endless" ~> AtEnd \/ Trapping
===============================================================================
