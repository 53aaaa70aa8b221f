-------------------------------- MODULE Meaning --------------------------------
(***************************************************************************)
(* Programs implements ValueMachine.  The program of the value machine is  *)
(* the owner: the one vars[] was last emptied for, as long as no other     *)
(* program stores and it is not killed.  The numbers on its stack and in   *)
(* its variables are those of the objects the pointers lead to.            *)
(***************************************************************************)
EXTENDS Programs

Code == IF owner = NoPID THEN << >> ELSE vm[owner].ir
Counter == IF owner = NoPID THEN 0 ELSE vm[owner].pc
Numbers == IF owner = NoPID THEN << >>
           ELSE [i \in DOMAIN vm[owner].stack |-> value[vm[owner].stack[i]]]
Variables == IF owner = NoPID THEN [n \in {} |-> 0]
             ELSE [n \in DOMAIN globals |-> value[globals[n]]]

Values == INSTANCE ValueMachine WITH
  who <- owner, code <- Code, pc <- Counter, stack <- Numbers, store <- Variables

\* Whatever the other programs execute, collect or free, whenever the owner's
\* own heap is collected and whichever addresses malloc gives out again, the
\* numbers the owner computes with change by its own instructions only, and
\* each of those does to them what it says (gc_collect, vm_destroy, vm_step).
OwnersMeaning == Values!Spec
===============================================================================
