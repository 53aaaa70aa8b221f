-------------------------------- MODULE Linker --------------------------------
(***************************************************************************)
(* ir_resolve_labels of src/core/ir.c: the last step of a compilation puts *)
(* the index of an instruction in the place of each label a jump names.    *)
(***************************************************************************)
EXTENDS Instructions

IsLabel(instr) == instr.op = "LABEL"
IsJump(instr) == instr.op \in {"JMP", "JZ"}

LabelIds(ir) == {ir[i].value : i \in {j \in DOMAIN ir : IsLabel(ir[j])}}

\* Mutant of label_map: indices as TLA+ counts them, from 1
label_map_FromOne(ir) ==
  [id \in LabelIds(ir) |->
     CHOOSE i \in DOMAIN ir : IsLabel(ir[i]) /\ ir[i].value = id]

\* The index of the label, from 0; of several with the same id the last one
label_map(ir) ==
  [id \in LabelIds(ir) |->
     CHOOSE i \in 0 .. Len(ir) - 1 :
       /\ IsLabel(ir[i + 1]) /\ ir[i + 1].value = id
       /\ \A j \in i + 2 .. Len(ir) : ~ (IsLabel(ir[j]) /\ ir[j].value = id)]

\* A jump to a label that is nowhere keeps the id: a message, no error
ir_resolve_labels(ir) ==
  [i \in DOMAIN ir |->
     IF IsJump(ir[i]) /\ ir[i].value \in LabelIds(ir)
     THEN [ir[i] EXCEPT !.value = label_map(ir)[@]]
     ELSE ir[i]]

\* What the code generator has to deliver
Linkable(ir) ==
  /\ ir \in Seq(IRInstr)
  /\ \A i \in DOMAIN ir : IsJump(ir[i]) => ir[i].value \in LabelIds(ir)
  /\ \A i, j \in DOMAIN ir :
       IsLabel(ir[i]) /\ IsLabel(ir[j]) /\ ir[i].value = ir[j].value => i = j
  /\ \A i \in DOMAIN ir : ir[i].op = "LOAD_CONST" => ir[i].value \in Ints

\* What the virtual machine relies on: a jump goes to an instruction of the
\* code and a constant is an int.
Linked(ir) ==
  /\ ir \in Seq(IRInstr)
  /\ \A i \in DOMAIN ir :
       /\ IsJump(ir[i]) => ir[i].value \in 0 .. Len(ir) - 1
       /\ ir[i].op = "LOAD_CONST" => ir[i].value \in Ints
===============================================================================
