------------------------------- MODULE MCClaims -------------------------------
(***************************************************************************)
(* Small instances of Claims: the code of MCPrograms, one or two programs. *)
(***************************************************************************)
EXTENDS Claims, MCPrograms

SetOnly == {Set}
===============================================================================
