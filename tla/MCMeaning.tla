------------------------------- MODULE MCMeaning -------------------------------
(***************************************************************************)
(* Small instances of Meaning: the code of MCPrograms.                     *)
(***************************************************************************)
EXTENDS Meaning, MCPrograms
===============================================================================
