---------------------------- MODULE ProgramsProofs ----------------------------
(***************************************************************************)
(* Proofs about Programs, for every number of programs, every heap, every  *)
(* int width, stack, variable and step limit, and every set of linked      *)
(* code: memory and life cycle, immutable objects, the depth of the stack  *)
(* and what a session leaves on the heap, and, last, that the program that *)
(* owns the variables is executed as Meaning says.                         *)
(***************************************************************************)
EXTENDS Meaning, TLAPS

USE DEF Live, PIDs, NoPID, Ints, INT_MIN

(***************************************************************************)
(* Arithmetic stays within an int.                                         *)
(***************************************************************************)

\* The wrapped result of +, - and * is an int.
LEMMA WrapIsInt ==
  ASSUME NEW n \in Int PROVE Wrap(n) \in Ints
<1> DEFINE m == 2 * (INT_MAX + 1)
<1>1. m \in Nat \ {0}
  BY BoundsAssumption
<1>2. (n - INT_MIN) % m \in 0 .. m - 1
  <2> HIDE DEF m
  <2> QED BY <1>1, BoundsAssumption
<1> QED BY <1>2, BoundsAssumption DEF Wrap

\* A quotient of naturals is a natural no greater than the dividend, and less
\* than it unless the divisor is 1 or the dividend 0.
LEMMA QuotientBound ==
  ASSUME NEW a \in Nat, NEW b \in Nat \ {0}
  PROVE  /\ a \div b \in Nat
         /\ a \div b <= a
         /\ b # 1 /\ a # 0 => a \div b < a
<1> DEFINE q == a \div b
           r == a % b
<1>1. q \in Int /\ r \in 0 .. b - 1 /\ a = b * q + r
  OBVIOUS
<1> HIDE DEF q, r
<1>2. q >= 0
  <2> SUFFICES ASSUME q < 0 PROVE FALSE
    BY <1>1
  <2>1. b * (q + 1) <= 0
    BY <1>1, Z3
  <2> QED BY <2>1, <1>1
<1>3. b = 1 => q = a
  BY <1>1
<1>4. b # 1 => b * q >= 2 * q
  BY <1>1, <1>2, Z3
<1> QED BY <1>1, <1>2, <1>3, <1>4 DEF q

\* A quotient that does not trap is an int: only the least one divided by -1
\* has none.
LEMMA QuotientIsInt ==
  ASSUME NEW a \in Ints, NEW b \in Ints, ~ Traps("DIV", a, b)
  PROVE  Quotient(a, b) \in Ints
<1>1. b # 0 /\ ~ (a = INT_MIN /\ b = -1)
  BY DEF Traps
<1> DEFINE q == Magnitude(a) \div Magnitude(b)
<1>2. /\ Magnitude(a) \in Nat /\ Magnitude(b) \in Nat \ {0}
      /\ Magnitude(a) <= INT_MAX + 1
      /\ a # INT_MIN => Magnitude(a) <= INT_MAX
      /\ b < 0 /\ b # -1 => Magnitude(b) # 1
  BY <1>1, BoundsAssumption DEF Magnitude
<1>3. /\ q \in Nat /\ q <= Magnitude(a)
      /\ Magnitude(b) # 1 /\ Magnitude(a) # 0 => q < Magnitude(a)
  BY <1>2, QuotientBound
<1>4. (a < 0) = (b < 0) => q <= INT_MAX
  BY <1>1, <1>2, <1>3, BoundsAssumption DEF Magnitude
<1>5. Quotient(a, b) = IF (a < 0) = (b < 0) THEN q ELSE -q
  BY DEF Quotient
<1> HIDE DEF q
<1> QED BY <1>2, <1>3, <1>4, <1>5, BoundsAssumption

\* Every instruction that computes gives an int.
LEMMA EvaluateIsInt ==
  ASSUME NEW op \in BinaryOps, NEW a \in Ints, NEW b \in Ints, ~ Traps(op, a, b)
  PROVE  Evaluate(op, a, b) \in Ints
<1>1. 0 \in Ints /\ 1 \in Ints
  BY BoundsAssumption
<1>2. a \in Int /\ b \in Int
  BY BoundsAssumption
<1>3. CASE op = "DIV"
  BY <1>3, QuotientIsInt DEF Evaluate
<1>4. CASE op \in {"ADD", "SUB", "MUL"}
  <2>1. Wrap(a + b) \in Ints /\ Wrap(a - b) \in Ints /\ Wrap(a * b) \in Ints
    BY <1>2, WrapIsInt
  <2> QED BY <1>4, <2>1 DEF Evaluate
<1>5. CASE op \in {"EQ", "NE", "LT", "GT", "LE", "GE"}
  BY <1>1, <1>5 DEF Evaluate, Truth
<1> QED BY <1>3, <1>4, <1>5 DEF BinaryOps

(***************************************************************************)
(* What an operation of VM.tla does to memory, in one formula, so that the *)
(* invariants are proved once for all the instructions.                    *)
(***************************************************************************)

\* The memory part of the invariant, which every operation keeps
MemoryOK ==
  /\ DOMAIN value \subseteq Objects
  /\ \A o \in Live : value[o] \in Ints
  /\ marked \subseteq Live
  /\ DOMAIN globals \subseteq STRING \cup {NoName}
  /\ Range(globals) \subseteq Objects
  /\ \A p \in DOMAIN vm : vm[p] \in VMs
  /\ owner \in DOMAIN vm \cup {NoPID}
  /\ DOMAIN vm \subseteq PIDs
  /\ HeapsPartition
  /\ OwnedRoots

\* new objects are allocated for v
Allocated(v, new) ==
  /\ new \subseteq Objects
  /\ new \cap Live = {}
  /\ DOMAIN value' = Live \cup new
  /\ \A o \in Live : value'[o] = value[o]
  /\ \A o \in new : value'[o] \in Ints
  /\ marked' = marked

\* an instruction of v moves objects among its operands and the variables
StepEffect(v, pc, stack, new) ==
  /\ pc \in Nat
  /\ stack \in Seq(Objects)
  /\ Allocated(v, new)
  /\ Advance(v, pc, stack, new)
  /\ Range(stack) \subseteq Range(vm[v].stack) \cup Range(globals) \cup new
  /\ DOMAIN globals' \subseteq STRING \cup {NoName}
  /\ Range(globals') \subseteq Range(globals) \cup Range(vm[v].stack)
  /\ owner' \in {owner, NoPID}
  /\ owner' = NoPID \/ owner = v \/ globals' = globals

\* The instruction that is fetched is one of the code's.
LEMMA InstrType ==
  ASSUME NEW v \in DOMAIN vm, vm[v] \in VMs, ~ Refuses(v)
  PROVE  /\ Instr(v) \in IRInstr
         /\ Instr(v).op \in {"JMP", "JZ"} => Instr(v).value \in Nat
         /\ Instr(v).op = "LOAD_CONST" => Instr(v).value \in Ints
         /\ vm[v].steps + 1 \in 0 .. MAX_STEPS
<1>1. /\ vm[v].ir \in IRs /\ vm[v].pc \in Nat
      /\ vm[v].steps \in 0 .. MAX_STEPS /\ vm[v].steps # MAX_STEPS
      /\ vm[v].pc < Len(vm[v].ir)
  <2>1. vm[v].ir \in Seq(IRInstr)
    BY IRsAssumption DEF VMs
  <2> QED BY <2>1 DEF VMs, Refuses, AtEnd
<1>2. /\ vm[v].ir \in Seq(IRInstr)
      /\ vm[v].pc + 1 \in DOMAIN vm[v].ir
  BY <1>1, IRsAssumption
<1>3. Instr(v) \in IRInstr
  BY <1>2 DEF Instr
<1>4. /\ Instr(v).op \in {"JMP", "JZ"} => Instr(v).value \in 0 .. Len(vm[v].ir) - 1
      /\ Instr(v).op = "LOAD_CONST" => Instr(v).value \in Ints
  BY <1>1, <1>2, IRsAssumption DEF Instr
<1> QED BY <1>1, <1>3, <1>4, BoundsAssumption

\* The operands of an instruction that does not overrun are on the stack, and
\* what is left below them is a stack again.
LEMMA Operands ==
  ASSUME NEW v \in DOMAIN vm, vm[v] \in VMs, ~ Overruns(v)
  PROVE  /\ Popped(v) \in Seq(Objects)
         /\ Range(Popped(v)) \subseteq Range(vm[v].stack)
         /\ Pops(Instr(v).op) >= 1 => Top(v) \in Range(vm[v].stack)
         /\ Pops(Instr(v).op) >= 2 => Below(v) \in Range(vm[v].stack)
<1> DEFINE s == vm[v].stack
           k == Pops(Instr(v).op)
<1>1. s \in Seq(Objects) /\ Len(s) \in Nat /\ DOMAIN s = 1 .. Len(s)
  BY DEF VMs
<1>2. k \in 0 .. 2 /\ k <= Len(s)
  <2>1. k \in 0 .. 2
    BY DEF Pops
  <2>2. ~ (Len(s) < k)
    BY DEF Overruns, Depth
  <2> QED BY <1>1, <2>1, <2>2
<1>3. Popped(v) = SubSeq(s, 1, Len(s) - k)
  BY DEF Popped, Depth
<1> HIDE DEF s, k
<1>4. /\ Popped(v) \in Seq(Objects)
      /\ \A i \in DOMAIN Popped(v) : i \in DOMAIN s /\ Popped(v)[i] = s[i]
  BY <1>1, <1>2, <1>3
<1>5. Range(Popped(v)) \subseteq Range(s)
  BY <1>4 DEF Range
<1>6. k >= 1 => s[Len(s)] \in Range(s)
  BY <1>1, <1>2 DEF Range
<1>7. k >= 2 => s[Len(s) - 1] \in Range(s)
  BY <1>1, <1>2 DEF Range
<1> QED BY <1>4, <1>5, <1>6, <1>7 DEF s, k, Top, Below, Depth

\* Appending to a stack adds the object and nothing else to what it refers to.
LEMMA AppendRange ==
  ASSUME NEW s \in Seq(Objects), NEW o \in Objects
  PROVE  /\ Append(s, o) \in Seq(Objects)
         /\ Range(Append(s, o)) = Range(s) \cup {o}
<1>1. /\ Append(s, o) \in Seq(Objects)
      /\ DOMAIN Append(s, o) = DOMAIN s \cup {Len(s) + 1}
      /\ \A i \in DOMAIN s : Append(s, o)[i] = s[i]
      /\ Append(s, o)[Len(s) + 1] = o
  OBVIOUS
<1> QED BY <1>1 DEF Range

\* A read gives an int, of a freed object too.
LEMMA ReadIsInt ==
  ASSUME \A o \in Live : value[o] \in Ints, NEW o, NEW n \in Read(o)
  PROVE  n \in Ints
  BY DEF Read

\* What a pushed new object does.
LEMMA PushNewEffect ==
  ASSUME MemoryOK, NEW v \in DOMAIN vm, ~ Refuses(v), ~ Overruns(v),
         NEW n \in Ints, PushNew(v, n)
  PROVE  \E pc, stack, new : StepEffect(v, pc, stack, new)
<1>1. PICK o \in Objects :
        /\ heap_alloc(o, n)
        /\ Advance(v, vm[v].pc + 1, Append(Popped(v), o), {o})
        /\ UNCHANGED <<globals, owner>>
  BY DEF PushNew
<1>2. Allocated(v, {o})
  BY <1>1 DEF heap_alloc, Allocated, Bind
<1>3. /\ Popped(v) \in Seq(Objects)
      /\ Range(Popped(v)) \subseteq Range(vm[v].stack)
  BY Operands DEF MemoryOK
<1>4. /\ Append(Popped(v), o) \in Seq(Objects)
      /\ Range(Append(Popped(v), o)) = Range(Popped(v)) \cup {o}
  BY <1>3, AppendRange
<1>5. vm[v].pc + 1 \in Nat
  BY DEF MemoryOK, VMs
<1>6. StepEffect(v, vm[v].pc + 1, Append(Popped(v), o), {o})
  BY <1>1, <1>2, <1>3, <1>4, <1>5 DEF StepEffect, MemoryOK
<1> QED BY <1>6

\* What an instruction that allocates nothing does.
LEMMA MoveEffect ==
  ASSUME MemoryOK, NEW v \in DOMAIN vm, NEW pc \in Nat, NEW stack \in Seq(Objects),
         Advance(v, pc, stack, {}),
         Range(stack) \subseteq Range(vm[v].stack) \cup Range(globals),
         UNCHANGED <<value, marked, globals, owner>>
  PROVE  StepEffect(v, pc, stack, {})
<1>1. Allocated(v, {})
  BY DEF Allocated
<1> QED BY <1>1 DEF StepEffect, MemoryOK

\* Every instruction has such an effect.
LEMMA StepHasEffect ==
  ASSUME MemoryOK, NEW v \in DOMAIN vm, vm_step(v)
  PROVE  \E pc, stack, new : StepEffect(v, pc, stack, new)
<1>1. ~ Refuses(v) /\ ~ Overruns(v)
  BY DEF vm_step
<1>2. vm[v] \in VMs
  BY DEF MemoryOK
<1>3. /\ vm[v].pc + 1 \in Nat
      /\ vm[v].stack \in Seq(Objects)
  BY <1>2 DEF VMs
<1>4. /\ Instr(v) \in IRInstr
      /\ Instr(v).op \in {"JMP", "JZ"} => Instr(v).value \in Nat
      /\ Instr(v).op = "LOAD_CONST" => Instr(v).value \in Ints
  BY <1>1, <1>2, InstrType
<1>5. /\ Popped(v) \in Seq(Objects)
      /\ Range(Popped(v)) \subseteq Range(vm[v].stack)
      /\ Pops(Instr(v).op) >= 1 => Top(v) \in Range(vm[v].stack)
  BY <1>1, <1>2, Operands
<1>6. CASE LoadConst(v)
  BY <1>1, <1>4, <1>6, PushNewEffect DEF LoadConst
<1>7. CASE Binary(v)
  <2>1. PICK a \in Read(Below(v)), b \in Read(Top(v)) :
          /\ ~ Traps(Instr(v).op, a, b)
          /\ PushNew(v, Evaluate(Instr(v).op, a, b))
    BY <1>7 DEF Binary
  <2>2. a \in Ints /\ b \in Ints
    BY ReadIsInt DEF MemoryOK
  <2>3. Evaluate(Instr(v).op, a, b) \in Ints
    BY <1>7, <2>1, <2>2, EvaluateIsInt DEF Binary
  <2> QED BY <1>1, <2>1, <2>3, PushNewEffect
<1>8. CASE Jump(v)
  <2> DEFINE pc == IF Instr(v).op = "JMP" THEN Instr(v).value ELSE vm[v].pc + 1
  <2>1. pc \in Nat
    BY <1>3, <1>4
  <2>2. StepEffect(v, pc, vm[v].stack, {})
    BY <1>3, <1>8, <2>1, MoveEffect DEF Jump
  <2> QED BY <2>2
<1>9. CASE JumpIfZero(v)
  <2>1. PICK a \in Read(Top(v)) :
          Advance(v, IF a = 0 THEN Instr(v).value ELSE vm[v].pc + 1, Popped(v), {})
    BY <1>9 DEF JumpIfZero
  <2> DEFINE pc == IF a = 0 THEN Instr(v).value ELSE vm[v].pc + 1
  <2>2. pc \in Nat
    BY <1>3, <1>4, <1>9 DEF JumpIfZero
  <2>3. StepEffect(v, pc, Popped(v), {})
    BY <1>5, <1>9, <2>1, <2>2, MoveEffect DEF JumpIfZero
  <2> QED BY <2>3
<1>10. CASE LoadUnset(v)
  <2>1. 0 \in Ints
    BY BoundsAssumption
  <2> QED BY <1>1, <1>10, <2>1, PushNewEffect DEF LoadUnset
<1>11. CASE LoadVar(v)
  <2> DEFINE o == globals[Instr(v).name]
             stack == Append(vm[v].stack, o)
  <2>1. o \in Range(globals) /\ o \in Objects
    BY <1>11 DEF LoadVar, Range, MemoryOK
  <2>2. stack \in Seq(Objects) /\ Range(stack) = Range(vm[v].stack) \cup {o}
    BY <1>3, <2>1, AppendRange
  <2>3. Range(stack) \subseteq Range(vm[v].stack) \cup Range(globals)
    BY <2>1, <2>2
  <2>4. /\ Advance(v, vm[v].pc + 1, stack, {})
        /\ UNCHANGED <<value, marked, globals, owner>>
    BY <1>11 DEF LoadVar
  <2> HIDE DEF stack
  <2>5. StepEffect(v, vm[v].pc + 1, stack, {})
    BY <1>3, <2>2, <2>3, <2>4, MoveEffect
  <2> QED BY <2>5
<1>12. CASE StoreVar(v)
  <2>1. Top(v) \in Range(vm[v].stack)
    BY <1>5, <1>12 DEF StoreVar, Pops, BinaryOps
  <2>2. /\ DOMAIN globals' \subseteq STRING \cup {NoName}
        /\ Range(globals') \subseteq Range(globals) \cup Range(vm[v].stack)
    BY <1>4, <1>12, <2>1 DEF StoreVar, Bind, Range, IRInstr, MemoryOK
  <2>3. Allocated(v, {})
    BY <1>12 DEF StoreVar, Allocated, MemoryOK
  <2>4. owner' \in {owner, NoPID} /\ (owner' = NoPID \/ owner = v)
    BY <1>12 DEF StoreVar
  <2>5. Advance(v, vm[v].pc + 1, Popped(v), {})
    BY <1>12 DEF StoreVar
  <2>6. StepEffect(v, vm[v].pc + 1, Popped(v), {})
    BY <1>3, <1>5, <2>2, <2>3, <2>4, <2>5 DEF StepEffect
  <2> QED BY <2>6
<1> QED BY <1>6, <1>7, <1>8, <1>9, <1>10, <1>11, <1>12 DEF vm_step

(***************************************************************************)
(* The operations keep the memory invariant.                               *)
(***************************************************************************)

\* The VM that advances, field by field; the others are as they were.
LEMMA AdvanceVM ==
  ASSUME NEW v \in DOMAIN vm, vm[v] \in VMs, NEW pc, NEW stack, NEW new,
         Advance(v, pc, stack, new)
  PROVE  /\ DOMAIN vm' = DOMAIN vm
         /\ \A q \in DOMAIN vm : q # v => vm'[q] = vm[q]
         /\ vm'[v] = [ir |-> vm[v].ir, pc |-> pc, stack |-> stack,
                      heap |-> vm[v].heap \cup new,
                      breakpoints |-> vm[v].breakpoints, steps |-> vm[v].steps + 1]
  BY DEF Advance, VMs

\* An instruction keeps the memory part of the invariant: what it allocates is
\* on its own heap, what it stores comes from its own stack.
LEMMA StepKeepsMemory ==
  ASSUME MemoryOK, NEW v \in DOMAIN vm, vm_step(v)
  PROVE  /\ MemoryOK'
         /\ DOMAIN vm' = DOMAIN vm
         /\ \A p \in DOMAIN vm : vm'[p].ir = vm[p].ir
<1>1. PICK pc, stack, new : StepEffect(v, pc, stack, new)
  BY StepHasEffect
<1>2. /\ vm[v] \in VMs
      /\ vm[v].steps + 1 \in 0 .. MAX_STEPS
  BY InstrType DEF MemoryOK, vm_step
<1>3. /\ DOMAIN vm' = DOMAIN vm
      /\ \A q \in DOMAIN vm : q # v => vm'[q] = vm[q]
      /\ vm'[v] = [ir |-> vm[v].ir, pc |-> pc, stack |-> stack,
                   heap |-> vm[v].heap \cup new,
                   breakpoints |-> vm[v].breakpoints, steps |-> vm[v].steps + 1]
  BY <1>1, <1>2, AdvanceVM DEF StepEffect
<1>4. /\ pc \in Nat /\ stack \in Seq(Objects)
      /\ new \subseteq Objects /\ new \cap Live = {}
      /\ DOMAIN value' = Live \cup new
      /\ \A o \in Live : value'[o] = value[o]
      /\ \A o \in new : value'[o] \in Ints
      /\ marked' = marked
  BY <1>1 DEF StepEffect, Allocated
<1>5. \A p \in DOMAIN vm : vm'[p] \in VMs
  <2>1. vm'[v] \in VMs
    BY <1>2, <1>3, <1>4 DEF VMs
  <2> QED BY <1>3, <2>1 DEF MemoryOK
<1>6. HeapsPartition'
  <2>1. \A p \in DOMAIN vm : vm[p].heap \subseteq Live
    BY DEF MemoryOK, HeapsPartition
  <2>2. \A p, q \in DOMAIN vm : p # q => vm[p].heap \cap vm[q].heap = {}
    BY DEF MemoryOK, HeapsPartition
  <2>3. \A p \in DOMAIN vm : vm'[p].heap = IF p = v THEN vm[v].heap \cup new ELSE vm[p].heap
    BY <1>3
  <2> QED BY <1>3, <1>4, <2>1, <2>2, <2>3 DEF HeapsPartition
<1>7. OwnedRoots'
  <2> SUFFICES ASSUME owner' # NoPID PROVE (Roots(owner) \subseteq vm[owner].heap)'
    BY DEF OwnedRoots
  <2>1. owner' = owner /\ (owner = v \/ globals' = globals)
    BY <1>1 DEF StepEffect
  <2>2. owner \in DOMAIN vm
    BY <2>1 DEF MemoryOK
  <2>3. Range(vm[owner].stack) \cup Range(globals) \subseteq vm[owner].heap
    BY <2>1 DEF MemoryOK, OwnedRoots, Roots
  <2>4. CASE owner = v
    <3>1. Range(stack) \subseteq vm[v].heap \cup new
      BY <1>1, <2>3, <2>4 DEF StepEffect
    <3>2. Range(globals') \subseteq vm[v].heap
      BY <1>1, <2>3, <2>4 DEF StepEffect
    <3> QED BY <1>3, <2>1, <2>4, <3>1, <3>2 DEF Roots
  <2>5. CASE owner # v
    BY <1>3, <2>1, <2>2, <2>3, <2>5 DEF Roots
  <2> QED BY <2>4, <2>5
<1>8. /\ Range(globals') \subseteq Objects /\ DOMAIN globals' \subseteq STRING \cup {NoName}
      /\ owner' \in DOMAIN vm \cup {NoPID}
  <2>1. Range(vm[v].stack) \subseteq Objects
    BY <1>2 DEF VMs, Range
  <2> QED BY <1>1, <2>1 DEF StepEffect, MemoryOK
<1>9. MemoryOK'
  BY <1>3, <1>4, <1>5, <1>6, <1>7, <1>8 DEF MemoryOK
<1>10. \A p \in DOMAIN vm : vm'[p].ir = vm[p].ir
  BY <1>3
<1> QED BY <1>3, <1>9, <1>10

\* A collection frees nothing that the VM's stack or a variable refers to.
LEMMA CollectKeepsMemory ==
  ASSUME MemoryOK, NEW v \in DOMAIN vm, gc_collect(v)
  PROVE  /\ MemoryOK'
         /\ DOMAIN vm' = DOMAIN vm
         /\ \A p \in DOMAIN vm : vm'[p].ir = vm[p].ir /\ vm'[p].pc = vm[p].pc
<1> DEFINE kept == Kept(v)
           dead == Dead(v)
<1>1. /\ DOMAIN value' = Live \ dead
      /\ \A o \in Live \ dead : value'[o] = value[o]
      /\ marked' = kept \ vm[v].heap
      /\ vm' = [vm EXCEPT ![v].heap = @ \ dead]
      /\ globals' = globals /\ owner' = owner
  BY DEF gc_collect, Restrict, MarksLeft
<1>2. vm[v] \in VMs
  BY DEF MemoryOK
<1>3. /\ DOMAIN vm' = DOMAIN vm
      /\ \A q \in DOMAIN vm : q # v => vm'[q] = vm[q]
      /\ vm'[v] = [vm[v] EXCEPT !.heap = @ \ dead]
  BY <1>1
<1>4. /\ vm'[v] \in VMs
      /\ vm'[v].heap = vm[v].heap \ dead
      /\ vm'[v].stack = vm[v].stack /\ vm'[v].ir = vm[v].ir /\ vm'[v].pc = vm[v].pc
  BY <1>2, <1>3 DEF VMs
<1>5. /\ \A p \in DOMAIN vm : vm[p].heap \subseteq Live
      /\ \A p, q \in DOMAIN vm : p # q => vm[p].heap \cap vm[q].heap = {}
  BY DEF MemoryOK, HeapsPartition
<1>6. marked \subseteq Live /\ DOMAIN value \subseteq Objects
  BY DEF MemoryOK
<1>7. marked' \subseteq Live'
  BY <1>1, <1>6 DEF Kept, Dead
<1>8. \A p \in DOMAIN vm : vm'[p].heap = IF p = v THEN vm[v].heap \ dead ELSE vm[p].heap
  BY <1>3, <1>4
<1>9. dead \subseteq vm[v].heap /\ dead \cap Roots(v) \cap Live = {}
  BY DEF Kept, Dead
<1> HIDE DEF kept, dead
<1>10. HeapsPartition'
  BY <1>1, <1>3, <1>5, <1>8, <1>9 DEF HeapsPartition
<1>11. OwnedRoots'
  <2> SUFFICES ASSUME owner # NoPID PROVE (Roots(owner) \subseteq vm[owner].heap)'
    BY <1>1 DEF OwnedRoots
  <2>1. owner \in DOMAIN vm
    BY DEF MemoryOK
  <2>2. Roots(owner) \subseteq vm[owner].heap
    BY DEF MemoryOK, OwnedRoots
  <2>3. vm'[owner].stack = vm[owner].stack
    BY <1>3, <1>4, <2>1
  <2>4. (Roots(owner))' = Roots(owner)
    BY <1>1, <2>3 DEF Roots
  <2>5. CASE owner = v
    BY <1>4, <1>5, <1>9, <2>1, <2>2, <2>4, <2>5, <1>1
  <2>6. CASE owner # v
    BY <1>1, <1>3, <2>1, <2>2, <2>4, <2>6
  <2> QED BY <2>5, <2>6
<1>12. \A p \in DOMAIN vm : vm'[p] \in VMs
  BY <1>3, <1>4 DEF MemoryOK
<1>13. MemoryOK'
  BY <1>1, <1>3, <1>6, <1>7, <1>10, <1>11, <1>12 DEF MemoryOK
<1> QED BY <1>3, <1>4, <1>13

\* vm_init keeps the memory part: it forgets a heap and frees nothing of it.
LEMMA InitKeepsMemory ==
  ASSUME MemoryOK, NEW v \in PIDs, NEW ir \in IRs, vm_init(v, ir)
  PROVE  /\ MemoryOK'
         /\ DOMAIN vm' = DOMAIN vm \cup {v}
         /\ \A p \in DOMAIN vm : p # v => vm'[p] = vm[p]
         /\ vm'[v].ir = ir
<1> DEFINE fresh == [ir |-> ir, pc |-> 0, stack |-> <<>>, heap |-> {},
                     breakpoints |-> {}, steps |-> 0]
<1>1. /\ DOMAIN vm' = DOMAIN vm \cup {v}
      /\ \A p \in DOMAIN vm : p # v => vm'[p] = vm[p]
      /\ vm'[v] = fresh
      /\ DOMAIN globals' = {}
      /\ owner' = v /\ value' = value /\ marked' = marked
  BY DEF vm_init, Bind
<1>2. fresh \in VMs /\ Range(fresh.stack) = {} /\ fresh.heap = {} /\ fresh.ir = ir
  BY BoundsAssumption DEF VMs, Range
<1>3. Range(globals') = {}
  BY <1>1 DEF Range
<1> HIDE DEF fresh
<1>4. \A p \in DOMAIN vm' : vm'[p] \in VMs
  BY <1>1, <1>2 DEF MemoryOK
<1>5. \A p \in DOMAIN vm' : vm'[p].heap = IF p = v THEN {} ELSE vm[p].heap
  BY <1>1, <1>2
<1>6. HeapsPartition'
  BY <1>1, <1>5 DEF HeapsPartition, MemoryOK
<1>7. OwnedRoots'
  BY <1>1, <1>2, <1>3 DEF OwnedRoots, Roots
<1>8. MemoryOK'
  BY <1>1, <1>3, <1>4, <1>6, <1>7 DEF MemoryOK
<1> QED BY <1>1, <1>2, <1>8

\* Destroying a VM keeps the memory part: what it frees is on no other heap,
\* and when it was the owner nobody is.
LEMMA DestroyKeepsMemory ==
  ASSUME MemoryOK, NEW v \in DOMAIN vm, vm_destroy(v)
  PROVE  /\ MemoryOK'
         /\ DOMAIN vm' = DOMAIN vm \ {v}
         /\ \A p \in DOMAIN vm' : vm'[p] = vm[p]
<1>1. /\ DOMAIN value' = Live \ vm[v].heap
      /\ \A o \in Live \ vm[v].heap : value'[o] = value[o]
      /\ marked' = marked \ vm[v].heap
      /\ DOMAIN vm' = DOMAIN vm \ {v}
      /\ \A p \in DOMAIN vm' : vm'[p] = vm[p]
      /\ owner' = IF owner = v THEN NoPID ELSE owner
      /\ globals' = globals
  BY DEF vm_destroy, Restrict
<1>2. HeapsPartition'
  BY <1>1 DEF HeapsPartition, MemoryOK
<1>3. OwnedRoots'
  BY <1>1 DEF OwnedRoots, Roots, MemoryOK
<1>4. MemoryOK'
  BY <1>1, <1>2, <1>3 DEF MemoryOK
<1> QED BY <1>1, <1>4

\* The debugger's break changes nothing but the breakpoints of the VM.
LEMMA BreakKeepsMemory ==
  ASSUME MemoryOK, NEW v \in DOMAIN vm, NEW i \in Nat,
         vm' = [vm EXCEPT ![v].breakpoints = @ \cup {i}],
         UNCHANGED <<value, marked, globals, owner>>
  PROVE  /\ MemoryOK'
         /\ DOMAIN vm' = DOMAIN vm
         /\ \A p \in DOMAIN vm : vm'[p].ir = vm[p].ir
<1>1. vm[v] \in VMs
  BY DEF MemoryOK
<1>2. /\ DOMAIN vm' = DOMAIN vm
      /\ \A q \in DOMAIN vm : q # v => vm'[q] = vm[q]
      /\ vm'[v] = [vm[v] EXCEPT !.breakpoints = @ \cup {i}]
  OBVIOUS
<1>3. /\ vm'[v] \in VMs
      /\ vm'[v].heap = vm[v].heap /\ vm'[v].stack = vm[v].stack /\ vm'[v].ir = vm[v].ir
  BY <1>1, <1>2 DEF VMs
<1>4. \A p \in DOMAIN vm : /\ vm'[p].heap = vm[p].heap /\ vm'[p].stack = vm[p].stack
                           /\ vm'[p].ir = vm[p].ir /\ vm'[p] \in VMs
  BY <1>2, <1>3 DEF MemoryOK
<1>5. HeapsPartition'
  BY <1>2, <1>4 DEF HeapsPartition, MemoryOK
<1>6. OwnedRoots'
  BY <1>4 DEF OwnedRoots, Roots, MemoryOK
<1>7. MemoryOK'
  BY <1>2, <1>4, <1>5, <1>6 DEF MemoryOK
<1> QED BY <1>2, <1>4, <1>7

(***************************************************************************)
(* The inductive invariant.                                                *)
(***************************************************************************)

\* The table part of TypeOK
TableOK ==
  /\ DOMAIN vm \subseteq DOMAIN program_table
  /\ DOMAIN program_table \subseteq PIDs
  /\ \A p \in DOMAIN program_table :
       program_table[p] \in [state : States, ir : IRs \cup {NoIR}]
  /\ next_pid \in 1 .. MAX_PID + 1
  /\ at \in Locations
  /\ cur \in DOMAIN program_table \cup {NoPID}

IInv == MemoryOK /\ TableOK /\ LifecycleConsistent

\* The strengthening is the conjunction of the properties that are checked.
LEMMA InvariantParts == IInv <=> TypeOK /\ HeapsPartition /\ OwnedRoots /\ LifecycleConsistent
<1>1. DOMAIN program_table \subseteq PIDs <=> DOMAIN program_table = PIDs \cap DOMAIN program_table
  OBVIOUS
<1> QED BY <1>1 DEF IInv, MemoryOK, TableOK, TypeOK

\* The executing program has a VM.
LEMMA ExecutingHasVM ==
  ASSUME IInv, at \in {"run", "dbg", "continue"}
  PROVE  /\ cur \in DOMAIN vm /\ cur \in DOMAIN program_table
         /\ program_table[cur].state = IF at = "run" THEN "RUNNING" ELSE "PAUSED"
  BY DEF IInv, TableOK, LifecycleConsistent

\* An operation that leaves the table and every VM's code alone keeps the
\* table part of the invariant.
LEMMA TableKept ==
  ASSUME IInv, DOMAIN vm' = DOMAIN vm, \A p \in DOMAIN vm : vm'[p].ir = vm[p].ir,
         UNCHANGED <<program_table, next_pid, at, cur>>
  PROVE  TableOK' /\ LifecycleConsistent'
<1>1. TableOK'
  BY DEF IInv, TableOK
<1>2. \A p \in DOMAIN program_table : program_table[p].state = "PAUSED" => p \in DOMAIN vm
  BY DEF IInv, LifecycleConsistent
<1>3. LifecycleConsistent'
  BY <1>2 DEF IInv, LifecycleConsistent
<1> QED BY <1>1, <1>3

\* Nothing changes but that the shell is gone.
LEMMA GoneKept ==
  ASSUME IInv, at' \in {"exited", "undefined"},
         UNCHANGED <<vmVars, program_table, next_pid, cur>>
  PROVE  IInv'
<1>1. MemoryOK'
  BY DEF IInv, MemoryOK, vmVars, HeapsPartition, OwnedRoots, Roots
<1>2. TableOK'
  BY DEF IInv, TableOK, vmVars, Locations
<1>3. LifecycleConsistent'
  BY DEF IInv, LifecycleConsistent, vmVars
<1> QED BY <1>1, <1>2, <1>3 DEF IInv

\* The memory part depends on the memory only.
LEMMA MemoryUnchanged ==
  ASSUME MemoryOK, UNCHANGED vmVars PROVE MemoryOK'
  BY DEF MemoryOK, vmVars, HeapsPartition, OwnedRoots, Roots

\* Initially there is nothing.
LEMMA InitIInv == Init => IInv
<1> SUFFICES ASSUME Init PROVE IInv
  OBVIOUS
<1>1. Range(globals) = {}
  BY DEF Init, Range
<1> QED BY <1>1, BoundsAssumption DEF Init, IInv, MemoryOK, TableOK, LifecycleConsistent,
             HeapsPartition, OwnedRoots, Locations

\* Every command, instruction and return keeps the invariant.
LEMMA NextIInv == IInv /\ [Next]_vars => IInv'
<1> SUFFICES ASSUME IInv, [Next]_vars PROVE IInv'
  OBVIOUS
<1> USE DEF IInv
<1>0. /\ DOMAIN vm \subseteq DOMAIN program_table /\ DOMAIN program_table \subseteq PIDs
      /\ \A p \in DOMAIN program_table :
           program_table[p] \in [state : States, ir : IRs \cup {NoIR}]
  BY DEF TableOK
<1>1. CASE Submit
  <2>1. /\ DOMAIN program_table' = DOMAIN program_table \cup {next_pid}
        /\ program_table'[next_pid] = [state |-> "SUBMITTED", ir |-> NoIR]
        /\ \A p \in DOMAIN program_table : p # next_pid => program_table'[p] = program_table[p]
        /\ next_pid \in PIDs /\ next_pid' = next_pid + 1
        /\ at' = at /\ cur' = cur /\ at = "prompt" /\ UNCHANGED vmVars
    BY <1>1, BoundsAssumption DEF Submit, Bind, TableOK
  <2>2. MemoryOK'
    BY <2>1, MemoryUnchanged
  <2>3. cur = NoPID
    BY <2>1 DEF LifecycleConsistent
  <2>4. TableOK'
    BY <2>1, <2>3, BoundsAssumption DEF TableOK, States, vmVars
  <2>5. LifecycleConsistent'
    BY <2>1, <2>3 DEF LifecycleConsistent, vmVars
  <2> QED BY <2>2, <2>4, <2>5
<1>2. CASE Exit
  BY <1>2, GoneKept DEF Exit
<1>3. ASSUME NEW p \in DOMAIN program_table, Compile(p) PROVE IInv'
  <2>1. PICK ir \in IRs : SetProgram(p, "READY", ir)
    BY <1>3 DEF Compile
  <2>2. /\ DOMAIN program_table' = DOMAIN program_table
        /\ program_table'[p] = [state |-> "READY", ir |-> ir]
        /\ \A q \in DOMAIN program_table : q # p => program_table'[q] = program_table[q]
        /\ UNCHANGED <<vmVars, next_pid, at, cur>> /\ at = "prompt"
    BY <1>3, <2>1 DEF SetProgram, Compile
  <2>3. MemoryOK'
    BY <2>2, MemoryUnchanged
  <2>4. TableOK'
    BY <2>2 DEF TableOK, States, vmVars
  <2>5. LifecycleConsistent'
    BY <2>2, NoIRAssumption DEF LifecycleConsistent, vmVars
  <2> QED BY <2>3, <2>4, <2>5
<1>4. ASSUME NEW p \in DOMAIN program_table, Run(p) PROVE IInv'
  <2>1. PICK ir \in CodeFor(p) :
          /\ SetProgram(p, "RUNNING", ir)
          /\ IF p \in DOMAIN vm THEN UNCHANGED vmVars ELSE vm_init(p, ir)
    BY <1>4 DEF Run
  <2>2. ir \in IRs
    BY <1>0 DEF CodeFor
  <2>3. /\ DOMAIN program_table' = DOMAIN program_table
        /\ program_table'[p] = [state |-> "RUNNING", ir |-> ir]
        /\ \A q \in DOMAIN program_table : q # p => program_table'[q] = program_table[q]
        /\ at = "prompt" /\ at' = "run" /\ cur' = p /\ next_pid' = next_pid
    BY <1>4, <2>1 DEF SetProgram, Run
  <2>4. /\ MemoryOK'
        /\ DOMAIN vm' = DOMAIN vm \cup {p}
        /\ \A q \in DOMAIN vm : q # p => vm'[q] = vm[q]
    <3>1. CASE p \in DOMAIN vm
      BY <2>1, <3>1, MemoryUnchanged DEF vmVars
    <3>2. CASE p \notin DOMAIN vm
      BY <1>0, <2>1, <2>2, <3>2, InitKeepsMemory
    <3> QED BY <3>1, <3>2
  <2>5. TableOK'
    BY <2>2, <2>3, <2>4 DEF TableOK, States, Locations
  <2>6. LifecycleConsistent'
    BY <1>0, <2>2, <2>3, <2>4, NoIRAssumption DEF LifecycleConsistent
  <2> QED BY <2>4, <2>5, <2>6
<1>5. ASSUME NEW p \in DOMAIN program_table, Gc(p) PROVE IInv'
  BY <1>5, CollectKeepsMemory, TableKept DEF Gc
<1>6. ASSUME NEW p \in DOMAIN program_table, Kill(p) PROVE IInv'
  <2>1. /\ DOMAIN program_table' = DOMAIN program_table \ {p}
        /\ \A q \in DOMAIN program_table' : program_table'[q] = program_table[q]
        /\ at = "prompt" /\ UNCHANGED <<next_pid, at, cur>>
    BY <1>6 DEF Kill, Restrict
  <2>2. /\ MemoryOK'
        /\ DOMAIN vm' = DOMAIN vm \ {p}
        /\ \A q \in DOMAIN vm' : vm'[q] = vm[q]
    <3>1. CASE p \in DOMAIN vm
      BY <1>6, <3>1, DestroyKeepsMemory DEF Kill, program_destroy
    <3>2. CASE p \notin DOMAIN vm
      BY <1>6, <3>2, MemoryUnchanged DEF Kill, program_destroy, vmVars
    <3> QED BY <3>1, <3>2
  <2>3. cur = NoPID
    BY <2>1 DEF LifecycleConsistent
  <2>4. TableOK'
    BY <2>1, <2>2, <2>3 DEF TableOK
  <2>5. LifecycleConsistent'
    BY <2>1, <2>2, <2>3 DEF LifecycleConsistent
  <2> QED BY <2>2, <2>4, <2>5
<1>7. ASSUME NEW p \in DOMAIN program_table, Debug(p) PROVE IInv'
  <2>1. PICK ir \in CodeFor(p) : SetProgram(p, "PAUSED", ir) /\ vm_init(p, ir)
    BY <1>7 DEF Debug
  <2>2. ir \in IRs
    BY <1>0 DEF CodeFor
  <2>3. /\ DOMAIN program_table' = DOMAIN program_table
        /\ program_table'[p] = [state |-> "PAUSED", ir |-> ir]
        /\ \A q \in DOMAIN program_table : q # p => program_table'[q] = program_table[q]
        /\ at = "prompt" /\ at' = "dbg" /\ cur' = p /\ next_pid' = next_pid
    BY <1>7, <2>1 DEF SetProgram, Debug
  <2>4. /\ MemoryOK'
        /\ DOMAIN vm' = DOMAIN vm \cup {p}
        /\ \A q \in DOMAIN vm : q # p => vm'[q] = vm[q]
        /\ vm'[p].ir = ir
    BY <1>0, <2>1, <2>2, InitKeepsMemory
  <2>5. TableOK'
    BY <2>2, <2>3, <2>4 DEF TableOK, States, Locations
  <2>6. LifecycleConsistent'
    BY <1>0, <2>2, <2>3, <2>4, NoIRAssumption DEF LifecycleConsistent
  <2> QED BY <2>4, <2>5, <2>6
<1>8. CASE Execute
  BY <1>8, ExecutingHasVM, StepKeepsMemory, TableKept DEF Execute
<1>9. ASSUME at \in {"run", "dbg", "continue"}, MemoryOK', DOMAIN vm' = DOMAIN vm,
             \A p \in DOMAIN vm : vm'[p].ir = vm[p].ir,
             NEW s \in {"TERMINATED", "PAUSED"}, s = "PAUSED" => at # "run",
             program_table' = [program_table EXCEPT ![cur].state = s],
             at' = "prompt", cur' = NoPID, next_pid' = next_pid
      PROVE  IInv'
  <2>1. /\ cur \in DOMAIN vm /\ cur \in DOMAIN program_table
        /\ program_table[cur].state = IF at = "run" THEN "RUNNING" ELSE "PAUSED"
    BY <1>9, ExecutingHasVM
  <2>2. /\ DOMAIN program_table' = DOMAIN program_table
        /\ program_table'[cur] = [state |-> s, ir |-> program_table[cur].ir]
        /\ \A q \in DOMAIN program_table : q # cur => program_table'[q] = program_table[q]
    BY <1>0, <1>9, <2>1
  <2>3. TableOK'
    BY <1>0, <1>9, <2>1, <2>2 DEF TableOK, States, Locations
  <2>4. LifecycleConsistent'
    BY <1>0, <1>9, <2>1, <2>2 DEF LifecycleConsistent
  <2> QED BY <1>9, <2>3, <2>4
<1>10. CASE RunEnd
  <2>1. cur \in DOMAIN vm
    BY <1>10, ExecutingHasVM DEF RunEnd
  <2>2. /\ MemoryOK' /\ DOMAIN vm' = DOMAIN vm
        /\ \A p \in DOMAIN vm : vm'[p].ir = vm[p].ir
    BY <1>10, <2>1, CollectKeepsMemory DEF RunEnd
  <2> QED BY <1>9, <1>10, <2>2 DEF RunEnd
<1>11. ASSUME at \in {"dbg", "continue"}, MemoryOK', DOMAIN vm' = DOMAIN vm,
              \A p \in DOMAIN vm : vm'[p].ir = vm[p].ir, LeaveDebugger
       PROVE  IInv'
  BY <1>9, <1>11 DEF LeaveDebugger
<1>12. CASE ContinueEnd
  <2>1. cur \in DOMAIN vm /\ at = "continue"
    BY <1>12, ExecutingHasVM DEF ContinueEnd
  <2>2. /\ MemoryOK' /\ DOMAIN vm' = DOMAIN vm
        /\ \A p \in DOMAIN vm : vm'[p].ir = vm[p].ir
    BY <1>12, <2>1, CollectKeepsMemory DEF ContinueEnd
  <2>3. CASE AtEnd(cur)
    BY <1>11, <1>12, <2>1, <2>2, <2>3 DEF ContinueEnd
  <2>4. CASE ~ AtEnd(cur)
    <3>1. at' = "dbg" /\ UNCHANGED <<program_table, next_pid, cur>>
      BY <1>12, <2>4 DEF ContinueEnd
    <3>2. TableOK'
      BY <2>2, <3>1 DEF TableOK, Locations
    <3>3. LifecycleConsistent'
      BY <2>1, <2>2, <3>1 DEF LifecycleConsistent
    <3> QED BY <2>2, <3>2, <3>3
  <2> QED BY <2>3, <2>4
<1>13. CASE DbgStep
  BY <1>13, ExecutingHasVM, StepKeepsMemory, TableKept DEF DbgStep
<1>14. CASE DbgStepRefused \/ DbgQuit
  <2>1. at = "dbg" /\ LeaveDebugger /\ UNCHANGED vmVars
    BY <1>14 DEF DbgStepRefused, DbgQuit
  <2>2. MemoryOK' /\ vm' = vm
    BY <2>1, MemoryUnchanged DEF vmVars
  <2> QED BY <1>11, <2>1, <2>2
<1>15. CASE DbgContinue
  <2>1. /\ at = "dbg" /\ at' = "continue"
        /\ UNCHANGED <<vmVars, program_table, next_pid, cur>>
    BY <1>15 DEF DbgContinue
  <2>2. MemoryOK'
    BY <2>1, MemoryUnchanged
  <2>3. TableOK'
    BY <2>1 DEF TableOK, Locations, vmVars
  <2>4. LifecycleConsistent'
    BY <2>1 DEF LifecycleConsistent, vmVars
  <2> QED BY <2>2, <2>3, <2>4
<1>16. CASE DbgBreak
  <2>1. cur \in DOMAIN vm /\ vm[cur].ir \in Seq(IRInstr)
    BY <1>16, ExecutingHasVM, IRsAssumption DEF DbgBreak, MemoryOK, VMs
  <2>2. PICK i \in DOMAIN vm[cur].ir :
          vm' = [vm EXCEPT ![cur].breakpoints = @ \cup {i - 1}]
    BY <1>16 DEF DbgBreak
  <2>3. i - 1 \in Nat
    BY <2>1
  <2> QED BY <1>16, <2>1, <2>2, <2>3, BreakKeepsMemory, TableKept DEF DbgBreak
<1>17. CASE DbgGc
  BY <1>17, ExecutingHasVM, CollectKeepsMemory, TableKept DEF DbgGc
<1>18. CASE NoReturn
  BY <1>18, GoneKept DEF NoReturn, Die, Overrun, CorruptingGc
<1>19. CASE UNCHANGED vars
  <2>1. MemoryOK'
    BY <1>19, MemoryUnchanged DEF vars, vmVars
  <2> QED BY <1>19, <2>1, TableKept DEF vars
<1> QED BY <1>1, <1>2, <1>3, <1>4, <1>5, <1>6, <1>7, <1>8, <1>10, <1>12, <1>13, <1>14,
           <1>15, <1>16, <1>17, <1>18, <1>19
        DEF Next, Command, Executor, Debugger

(***************************************************************************)
(* Theorems of the specification.                                          *)
(***************************************************************************)

\* The strengthening is an invariant of the specification.
LEMMA Invariance == Spec => []IInv
  BY InitIInv, NextIInv, PTL DEF Spec

\* Every variable keeps its type, whatever the programs do.
THEOREM TypeCorrect == Spec => []TypeOK
<1>1. IInv => TypeOK
  BY InvariantParts
<1> QED BY <1>1, Invariance, PTL

\* No object is freed twice: the heaps are disjoint sets of allocated objects.
THEOREM NoDoubleFree == Spec => []HeapsPartition
<1>1. IInv => HeapsPartition
  BY InvariantParts
<1> QED BY <1>1, Invariance, PTL

\* As long as one program stores, its stack and the variables refer to its own
\* allocated objects only.
THEOREM NoUseAfterFree == Spec => []OwnedRoots
<1>1. IInv => OwnedRoots
  BY InvariantParts
<1> QED BY <1>1, Invariance, PTL

\* A program's state agrees with its code, its VM and the shell's control.
THEOREM Lifecycle == Spec => []LifecycleConsistent
<1>1. IInv => LifecycleConsistent
  BY InvariantParts
<1> QED BY <1>1, Invariance, PTL

(***************************************************************************)
(* Objects are immutable.                                                  *)
(***************************************************************************)

Preserved == \A o \in Live : o \in DOMAIN value' => value'[o] = value[o]

\* An instruction writes to the object it has just been given and to no other.
LEMMA StepPreserves ==
  ASSUME NEW v, vm_step(v)
  PROVE  Preserved
<1>1. CASE \E n : PushNew(v, n)
  <2>1. PICK n : PushNew(v, n)
    BY <1>1
  <2>2. PICK o \in Objects \ Live : value' = Bind(value, o, n)
    BY <2>1 DEF PushNew, heap_alloc
  <2> QED BY <2>2 DEF Bind, Preserved
<1>2. CASE UNCHANGED value
  BY <1>2 DEF Preserved
<1> QED
  BY <1>1, <1>2 DEF vm_step, LoadConst, Binary, Jump, JumpIfZero, LoadUnset, LoadVar, StoreVar

\* A collection and a destroyed VM take objects away and leave the others.
LEMMA ReleasePreserves ==
  ASSUME NEW v, gc_collect(v) \/ vm_destroy(v) \/ UNCHANGED value
  PROVE  Preserved
  BY DEF gc_collect, vm_destroy, Restrict, Preserved

\* No command, instruction or return changes an object that stays allocated.
LEMMA NextPreserves == [Next]_vars => Preserved
<1> SUFFICES ASSUME [Next]_vars PROVE Preserved
  OBVIOUS
<1>1. CASE \E p \in DOMAIN program_table : Command(p)
  <2>1. PICK p \in DOMAIN program_table : Command(p)
    BY <1>1
  <2>2. gc_collect(p) \/ vm_destroy(p) \/ UNCHANGED value
    BY <2>1 DEF Command, Compile, Run, Gc, Kill, Debug, program_destroy, vm_init, vmVars
  <2> QED BY <2>2, ReleasePreserves
<1>2. CASE Executor
  BY <1>2, StepPreserves, ReleasePreserves DEF Executor, Execute, RunEnd, ContinueEnd
<1>3. CASE Debugger
  BY <1>3, StepPreserves, ReleasePreserves
  DEF Debugger, DbgStep, DbgStepRefused, DbgContinue, DbgBreak, DbgGc, DbgQuit, vmVars
<1>4. CASE UNCHANGED value
  BY <1>4, ReleasePreserves
<1> QED
  BY <1>1, <1>2, <1>3, <1>4
  DEF Next, Submit, Exit, NoReturn, Die, Overrun, CorruptingGc, vmVars, vars

\* An object keeps its value from its allocation to its release, so variables
\* and stacks may share it (heap_alloc is the only writer).
THEOREM Immutable == Spec => ObjectsAreImmutable
<1>1. Preserved => \A o \in Live : o \in DOMAIN value' => value'[o] = value[o]
  BY DEF Preserved
<1> QED BY <1>1, NextPreserves, PTL DEF Spec, ObjectsAreImmutable
(***************************************************************************)
(* The stack of code whose depths are known.                               *)
(***************************************************************************)

\* The stack is as deep as the code says of the place the VM is at.
DepthsFit ==
  \A v \in DOMAIN vm :
    /\ vm[v].pc \in 0 .. Len(vm[v].ir)
    /\ Depth(v) = DepthsOf(vm[v].ir)[vm[v].pc + 1]

\* An instruction finds its operands.
OperandsThere == \A v \in DOMAIN vm : AtEnd(v) \/ Depth(v) >= Pops(Instr(v).op)

LEMMA PoppedDepth ==
  ASSUME NEW v \in DOMAIN vm, vm[v] \in VMs, ~ Overruns(v)
  PROVE  /\ Popped(v) \in Seq(Objects)
         /\ Len(Popped(v)) = Depth(v) - Pops(Instr(v).op)
         /\ Depth(v) \in Nat /\ Pops(Instr(v).op) \in 0 .. 2
<1> DEFINE s == vm[v].stack
           k == Pops(Instr(v).op)
<1>1. s \in Seq(Objects) /\ Len(s) \in Nat
  BY DEF VMs
<1>2. k \in 0 .. 2
  BY DEF Pops
<1>3. k <= Len(s)
  BY <1>1, <1>2 DEF Overruns, Depth
<1>4. Popped(v) = SubSeq(s, 1, Len(s) - k)
  BY DEF Popped, Depth
<1> HIDE DEF s, k
<1>5. Popped(v) \in Seq(Objects) /\ Len(Popped(v)) = Len(s) - k
  BY <1>1, <1>2, <1>3, <1>4
<1> QED BY <1>1, <1>2, <1>5 DEF s, k, Depth

\* An instruction goes on at the next one or at its target, and changes the depth
\* by what it pops and pushes.
LEMMA StepChangesDepth ==
  ASSUME MemoryOK, NEW v \in DOMAIN vm, vm_step(v)
  PROVE  /\ DOMAIN vm' = DOMAIN vm
         /\ \A q \in DOMAIN vm : q # v => vm'[q] = vm[q]
         /\ vm'[v].ir = vm[v].ir
         /\ Len(vm'[v].stack) = Depth(v) + Change(Instr(v).op)
         /\ \/ vm'[v].pc = vm[v].pc + 1 /\ Instr(v).op # "JMP"
            \/ vm'[v].pc = Instr(v).value /\ Instr(v).op \in {"JMP", "JZ"}
<1>1. vm[v] \in VMs /\ ~ Refuses(v) /\ ~ Overruns(v)
  BY DEF MemoryOK, vm_step
<1> DEFINE s == vm[v].stack
           next == vm[v].pc + 1
<1>2. /\ Popped(v) \in Seq(Objects)
      /\ Len(Popped(v)) = Depth(v) - Pops(Instr(v).op)
      /\ Depth(v) \in Nat /\ Pops(Instr(v).op) \in 0 .. 2
      /\ s \in Seq(Objects) /\ Len(s) = Depth(v)
  BY <1>1, PoppedDepth DEF VMs, Depth
<1>3. \E pc, stack, new :
        /\ Advance(v, pc, stack, new)
        /\ Len(stack) = Depth(v) + Change(Instr(v).op)
        /\ \/ pc = next /\ Instr(v).op # "JMP"
           \/ pc = Instr(v).value /\ Instr(v).op \in {"JMP", "JZ"}
  <2>1. ASSUME NEW n, PushNew(v, n), Pushes(Instr(v).op)
        PROVE  \E o \in Objects : /\ Advance(v, next, Append(Popped(v), o), {o})
                                  /\ Len(Append(Popped(v), o)) = Depth(v) + Change(Instr(v).op)
    <3>1. PICK o \in Objects : Advance(v, next, Append(Popped(v), o), {o})
      BY <2>1 DEF PushNew
    <3>2. Len(Append(Popped(v), o)) = Len(Popped(v)) + 1
      BY <1>2
    <3>3. Change(Instr(v).op) = 1 - Pops(Instr(v).op)
      BY <2>1 DEF Change
    <3>4. Len(Append(Popped(v), o)) = Depth(v) + Change(Instr(v).op)
      BY <1>2, <3>2, <3>3
    <3> QED BY <3>1, <3>4
  <2>2. CASE LoadConst(v) \/ Binary(v) \/ LoadUnset(v)
    <3>1. Pushes(Instr(v).op) /\ Instr(v).op # "JMP"
      BY <2>2 DEF LoadConst, Binary, LoadUnset, Pushes, BinaryOps
    <3>2. PICK n : PushNew(v, n)
      BY <2>2 DEF LoadConst, Binary, LoadUnset
    <3> QED BY <2>1, <3>1, <3>2
  <2>3. CASE Jump(v)
    <3>1. Change(Instr(v).op) = 0
      BY <2>3 DEF Jump, Change, Pops, Pushes, BinaryOps
    <3>2. Advance(v, IF Instr(v).op = "JMP" THEN Instr(v).value ELSE next, s, {})
      BY <2>3 DEF Jump
    <3>3. CASE Instr(v).op = "JMP"
      BY <1>2, <3>1, <3>2, <3>3
    <3>4. CASE Instr(v).op # "JMP"
      BY <1>2, <3>1, <3>2, <3>4
    <3> QED BY <3>3, <3>4
  <2>4. CASE JumpIfZero(v)
    <3>1. Instr(v).op = "JZ" /\ Change(Instr(v).op) = 0 - Pops(Instr(v).op)
      BY <2>4 DEF JumpIfZero, Change, Pushes, BinaryOps
    <3>2. PICK a : Advance(v, IF a = 0 THEN Instr(v).value ELSE next, Popped(v), {})
      BY <2>4 DEF JumpIfZero
    <3>3. Len(Popped(v)) = Depth(v) + Change(Instr(v).op)
      BY <1>2, <3>1
    <3>4. CASE a = 0
      BY <3>1, <3>2, <3>3, <3>4
    <3>5. CASE a # 0
      BY <3>1, <3>2, <3>3, <3>5
    <3> QED BY <3>4, <3>5
  <2>5. CASE LoadVar(v)
    <3>1. Instr(v).op = "LOAD_VAR" /\ Change(Instr(v).op) = 1
      BY <2>5 DEF LoadVar, Change, Pops, Pushes, BinaryOps
    <3> DEFINE o == globals[Instr(v).name]
    <3>2. Advance(v, next, Append(s, o), {}) /\ o \in Objects
      BY <2>5 DEF LoadVar, MemoryOK, Range
    <3>3. Len(Append(s, o)) = Len(s) + 1
      BY <1>2, <3>2
    <3> HIDE DEF o
    <3> QED BY <1>2, <3>1, <3>2, <3>3
  <2>6. CASE StoreVar(v)
    <3>1. Instr(v).op = "STORE_VAR" /\ Change(Instr(v).op) = 0 - Pops(Instr(v).op)
      BY <2>6 DEF StoreVar, Change, Pushes, BinaryOps
    <3>2. Advance(v, next, Popped(v), {})
      BY <2>6 DEF StoreVar
    <3> QED BY <1>2, <3>1, <3>2
  <2> QED BY <2>2, <2>3, <2>4, <2>5, <2>6 DEF vm_step
<1>4. PICK pc, stack, new :
        /\ Advance(v, pc, stack, new)
        /\ Len(stack) = Depth(v) + Change(Instr(v).op)
        /\ \/ pc = next /\ Instr(v).op # "JMP"
           \/ pc = Instr(v).value /\ Instr(v).op \in {"JMP", "JZ"}
  BY <1>3
<1>5. /\ DOMAIN vm' = DOMAIN vm
      /\ \A q \in DOMAIN vm : q # v => vm'[q] = vm[q]
      /\ vm'[v] = [ir |-> vm[v].ir, pc |-> pc, stack |-> stack,
                   heap |-> vm[v].heap \cup new,
                   breakpoints |-> vm[v].breakpoints, steps |-> vm[v].steps + 1]
  BY <1>1, <1>4, AdvanceVM
<1>6. vm'[v].ir = vm[v].ir /\ vm'[v].pc = pc /\ vm'[v].stack = stack
  BY <1>5
<1> QED BY <1>4, <1>5, <1>6
\* What a step does to the VMs is one of the operations of the machine, or a change
\* of breakpoints.
LEMMA StepsOfTheVMs ==
  ASSUME IInv, [Next]_vars
  PROVE  \/ \E v \in DOMAIN vm : vm_step(v) \/ gc_collect(v) \/ vm_destroy(v)
         \/ \E v \in DOMAIN program_table, ir \in IRs : vm_init(v, ir)
         \/ /\ UNCHANGED <<value, marked, globals, owner>>
            /\ DOMAIN vm' = DOMAIN vm
            /\ \A v \in DOMAIN vm : /\ vm'[v].ir = vm[v].ir /\ vm'[v].pc = vm[v].pc
                                    /\ vm'[v].stack = vm[v].stack
<1> DEFINE operation == \E v \in DOMAIN vm : vm_step(v) \/ gc_collect(v) \/ vm_destroy(v)
           creation == \E v \in DOMAIN program_table, ir \in IRs : vm_init(v, ir)
<1>1. \A p \in DOMAIN program_table : CodeFor(p) \subseteq IRs
  BY DEF IInv, TableOK, CodeFor
<1>2. CASE Submit \/ Exit \/ NoReturn \/ UNCHANGED vars
  BY <1>2 DEF Submit, Exit, NoReturn, Die, Overrun, CorruptingGc, vars, vmVars
<1>3. ASSUME NEW p \in DOMAIN program_table, Command(p)
      PROVE  operation \/ creation \/ UNCHANGED vmVars
  BY <1>1, <1>3 DEF Command, Compile, Run, Gc, Kill, Debug, program_destroy
<1>4. CASE Executor
  BY <1>4, ExecutingHasVM DEF Executor, Execute, RunEnd, ContinueEnd
<1>5. CASE DbgBreak
  <2>1. cur \in DOMAIN vm /\ vm[cur] \in VMs
    BY <1>5, ExecutingHasVM DEF DbgBreak, IInv, MemoryOK
  <2> QED BY <1>5, <2>1 DEF DbgBreak, VMs
<1>6. CASE Debugger /\ ~ DbgBreak
  BY <1>6, ExecutingHasVM
  DEF Debugger, DbgStep, DbgStepRefused, DbgContinue, DbgGc, DbgQuit, vmVars
<1> QED BY <1>2, <1>3, <1>4, <1>5, <1>6 DEF Next, vmVars

\* Each VM keeps its depth or is at the place its instruction leads to.
LEMMA NextDepths ==
  ASSUME \A ir \in IRs : Balanced(ir), IInv, DepthsFit, [Next]_vars
  PROVE  DepthsFit'
<1>1. \A v \in DOMAIN vm : vm[v] \in VMs
  BY DEF IInv, MemoryOK
<1>2. ASSUME NEW v \in DOMAIN vm, vm_step(v) PROVE DepthsFit'
  <2> DEFINE ir == vm[v].ir
             d == DepthsOf(ir)
             i == vm[v].pc + 1
  <2>1. /\ ir \in IRs /\ ir \in Seq(IRInstr) /\ Len(ir) \in Nat
        /\ AreDepths(d, ir)
    BY <1>1, IRsAssumption DEF VMs, Balanced
  <2>2. i \in DOMAIN ir /\ i \in Nat /\ Depth(v) = d[i] /\ Instr(v) = ir[i] /\ vm[v].pc = i - 1
    <3>1. vm[v].pc \in 0 .. Len(ir) /\ ~ (vm[v].pc >= Len(ir))
      BY <1>2 DEF DepthsFit, vm_step, Refuses, AtEnd
    <3> QED BY <2>1, <3>1 DEF DepthsFit, Instr
  <2>3. Instr(v).op \in {"JMP", "JZ"} => Instr(v).value \in 0 .. Len(ir) - 1
    BY <2>1, <2>2, IRsAssumption
  <2>4. /\ DOMAIN vm' = DOMAIN vm
        /\ \A q \in DOMAIN vm : q # v => vm'[q] = vm[q]
        /\ vm'[v].ir = ir
        /\ Len(vm'[v].stack) = d[i] + Change(Instr(v).op)
        /\ \/ vm'[v].pc = i /\ Instr(v).op # "JMP"
           \/ vm'[v].pc = Instr(v).value /\ Instr(v).op \in {"JMP", "JZ"}
    BY <1>2, <2>2, StepChangesDepth DEF IInv
  <2>5. /\ Instr(v).op # "JMP" => d[i + 1] = d[i] + Change(Instr(v).op)
        /\ Instr(v).op \in {"JMP", "JZ"} => d[Instr(v).value + 1] = d[i] + Change(Instr(v).op)
    BY <2>1, <2>2 DEF AreDepths
  <2> HIDE DEF d, i, ir
  <2>6. vm'[v].pc \in 0 .. Len(ir) /\ Len(vm'[v].stack) = d[vm'[v].pc + 1]
    <3>1. DOMAIN ir = 1 .. Len(ir)
      BY <2>1
    <3>2. CASE vm'[v].pc = i /\ Instr(v).op # "JMP"
      BY <2>1, <2>2, <2>4, <2>5, <3>1, <3>2
    <3>3. CASE vm'[v].pc = Instr(v).value /\ Instr(v).op \in {"JMP", "JZ"}
      BY <2>1, <2>3, <2>4, <2>5, <3>3
    <3> QED BY <2>4, <3>2, <3>3
  <2>7. ASSUME NEW q \in DOMAIN vm, q # v
        PROVE  /\ vm'[q].pc \in 0 .. Len(vm'[q].ir)
               /\ Len(vm'[q].stack) = DepthsOf(vm'[q].ir)[vm'[q].pc + 1]
    BY <2>4, <2>7 DEF DepthsFit, Depth
  <2>8. /\ vm'[v].pc \in 0 .. Len(vm'[v].ir)
        /\ Len(vm'[v].stack) = DepthsOf(vm'[v].ir)[vm'[v].pc + 1]
    BY <2>4, <2>6 DEF d
  <2> QED BY <2>4, <2>7, <2>8 DEF DepthsFit, Depth
<1>3. ASSUME DOMAIN vm' \subseteq DOMAIN vm,
             \A v \in DOMAIN vm' : /\ vm'[v].ir = vm[v].ir /\ vm'[v].pc = vm[v].pc
                                   /\ vm'[v].stack = vm[v].stack
      PROVE  DepthsFit'
  BY <1>3 DEF DepthsFit, Depth
<1>4. ASSUME NEW v \in DOMAIN vm, gc_collect(v) PROVE DepthsFit'
  <2>1. vm' = [vm EXCEPT ![v].heap = @ \ Dead(v)] /\ vm[v] \in VMs
    BY <1>1, <1>4 DEF gc_collect
  <2> QED BY <1>3, <2>1 DEF VMs
<1>5. ASSUME NEW v \in DOMAIN vm, vm_destroy(v) PROVE DepthsFit'
  <2>1. DOMAIN vm' \subseteq DOMAIN vm /\ \A q \in DOMAIN vm' : vm'[q] = vm[q]
    BY <1>5 DEF vm_destroy, Restrict
  <2> QED BY <1>3, <2>1
<1>6. ASSUME NEW v \in DOMAIN program_table, NEW ir \in IRs, vm_init(v, ir) PROVE DepthsFit'
  <2>1. /\ DOMAIN vm' = DOMAIN vm \cup {v}
        /\ \A q \in DOMAIN vm : q # v => vm'[q] = vm[q]
        /\ vm'[v].ir = ir /\ vm'[v].pc = 0 /\ vm'[v].stack = << >>
    BY <1>6 DEF vm_init, Bind
  <2>2. Len(ir) \in Nat /\ DepthsOf(ir)[1] = 0
    BY IRsAssumption DEF Balanced, AreDepths
  <2>3. /\ vm'[v].pc \in 0 .. Len(vm'[v].ir)
        /\ Len(vm'[v].stack) = DepthsOf(vm'[v].ir)[vm'[v].pc + 1]
    BY <2>1, <2>2
  <2> QED BY <2>1, <2>3 DEF DepthsFit, Depth
<1> QED BY <1>2, <1>3, <1>4, <1>5, <1>6, StepsOfTheVMs

\* With code that is balanced no instruction lacks an operand, in any session: the
\* only ways off the stack and off vars[] are the ones at their upper ends (pop).
THEOREM NoUnderflow ==
  ASSUME \A ir \in IRs : Balanced(ir)
  PROVE  Spec => []OperandsThere
<1>1. Init => DepthsFit
  BY DEF Init, DepthsFit
<1>2. IInv /\ DepthsFit /\ [Next]_vars => DepthsFit'
  BY NextDepths
<1>3. IInv /\ DepthsFit => OperandsThere
  <2> SUFFICES ASSUME IInv, DepthsFit, NEW v \in DOMAIN vm, ~ AtEnd(v)
               PROVE  Depth(v) >= Pops(Instr(v).op)
    BY DEF OperandsThere
  <2>1. /\ vm[v].ir \in IRs /\ vm[v].ir \in Seq(IRInstr)
        /\ AreDepths(DepthsOf(vm[v].ir), vm[v].ir)
    BY IRsAssumption DEF IInv, MemoryOK, VMs, Balanced
  <2>2. vm[v].pc + 1 \in DOMAIN vm[v].ir
    BY <2>1 DEF DepthsFit, AtEnd
  <2> QED BY <2>1, <2>2 DEF DepthsFit, AreDepths, Instr
<1> QED BY <1>1, <1>2, <1>3, Invariance, PTL DEF Spec

(***************************************************************************)
(* What is left in a session of one program.                               *)
(***************************************************************************)

\* The PIDs that were given out; a program that is alone owns the variables, so no
\* collection marks an object that it does not sweep.
Alone ==
  /\ DOMAIN program_table \subseteq 1 .. next_pid - 1
  /\ next_pid <= 2 => marked = {} /\ \A v \in DOMAIN vm : owner = v

LEMMA StepsOfTheTable ==
  ASSUME IInv, [Next]_vars
  PROVE  \/ next_pid' = next_pid /\ DOMAIN program_table' \subseteq DOMAIN program_table
         \/ /\ next_pid' = next_pid + 1
            /\ DOMAIN program_table' = DOMAIN program_table \cup {next_pid}
            /\ UNCHANGED vmVars
<1>1. CASE Submit
  BY <1>1 DEF Submit, Bind
<1>2. ASSUME NEW p \in DOMAIN program_table, Command(p)
      PROVE  next_pid' = next_pid /\ DOMAIN program_table' \subseteq DOMAIN program_table
  BY <1>2 DEF Command, Compile, Run, Gc, Kill, Debug, SetProgram, Restrict
<1>3. CASE Executor \/ Debugger
  BY <1>3 DEF Executor, Execute, RunEnd, ContinueEnd, LeaveDebugger,
       Debugger, DbgStep, DbgStepRefused, DbgContinue, DbgBreak, DbgGc, DbgQuit
<1>4. CASE Exit \/ NoReturn \/ UNCHANGED vars
  BY <1>4 DEF Exit, NoReturn, Die, Overrun, CorruptingGc, vars
<1> QED BY <1>1, <1>2, <1>3, <1>4 DEF Next

\* What a collection of the only program keeps
LEMMA AloneCollects ==
  ASSUME IInv, Alone, next_pid <= 2, NEW v \in DOMAIN vm, gc_collect(v)
  PROVE  /\ marked' = {}
         /\ vm'[v].heap = Roots(v)
<1>1. /\ Roots(v) \subseteq vm[v].heap /\ vm[v].heap \subseteq Live /\ marked = {}
      /\ vm[v] \in VMs
  BY DEF IInv, MemoryOK, OwnedRoots, HeapsPartition, Alone, TableOK
<1>2. Kept(v) = Roots(v)
  BY <1>1 DEF Kept
<1>3. marked' = {} /\ Dead(v) = vm[v].heap \ Roots(v)
  BY <1>1, <1>2 DEF gc_collect, MarksLeft, Dead
<1>4. vm'[v].heap = vm[v].heap \ Dead(v)
  BY <1>1 DEF gc_collect, VMs
<1> QED BY <1>1, <1>3, <1>4

LEMMA NextAlone == IInv /\ Alone /\ [Next]_vars => Alone'
<1> SUFFICES ASSUME IInv, Alone, [Next]_vars PROVE Alone'
  OBVIOUS
<1>1. next_pid \in Nat /\ next_pid >= 1 /\ DOMAIN vm \subseteq DOMAIN program_table
  BY BoundsAssumption DEF IInv, TableOK
<1>2. DOMAIN program_table' \subseteq 1 .. next_pid' - 1
  <2>1. DOMAIN program_table \subseteq 1 .. next_pid - 1
    BY DEF Alone
  <2>2. CASE next_pid' = next_pid /\ DOMAIN program_table' \subseteq DOMAIN program_table
    BY <2>1, <2>2
  <2>3. CASE next_pid' = next_pid + 1 /\ DOMAIN program_table' = DOMAIN program_table \cup {next_pid}
    BY <1>1, <2>1, <2>3
  <2> QED BY <2>2, <2>3, StepsOfTheTable
<1>3. ASSUME next_pid' <= 2, next_pid' = next_pid PROVE marked' = {} /\ \A v \in DOMAIN vm' : owner' = v
  <2>1. /\ marked = {} /\ \A v \in DOMAIN vm : owner = v
        /\ \A p \in DOMAIN program_table : p = 1
    BY <1>1, <1>3 DEF Alone
  <2>2. ASSUME NEW v \in DOMAIN vm, vm_step(v) PROVE marked' = {} /\ \A u \in DOMAIN vm' : owner' = u
    <3>1. DOMAIN vm' = DOMAIN vm /\ owner = v
      BY <2>1, <2>2, StepKeepsMemory DEF IInv
    <3>2. marked' = marked /\ owner' = owner
      BY <2>2, <3>1 DEF vm_step, LoadConst, Binary, Jump, JumpIfZero, LoadUnset, LoadVar,
           StoreVar, PushNew, heap_alloc
    <3> QED BY <2>1, <3>1, <3>2
  <2>3. ASSUME NEW v \in DOMAIN vm, gc_collect(v) PROVE marked' = {} /\ \A u \in DOMAIN vm' : owner' = u
    <3>1. marked' = {}
      BY <1>3, <2>3, AloneCollects
    <3>2. DOMAIN vm' = DOMAIN vm /\ owner' = owner
      BY <2>3 DEF gc_collect
    <3> QED BY <2>1, <3>1, <3>2
  <2>4. ASSUME NEW v \in DOMAIN vm, vm_destroy(v) PROVE marked' = {} /\ \A u \in DOMAIN vm' : owner' = u
    <3>1. DOMAIN vm' = {} /\ marked' = {}
      BY <1>1, <2>1, <2>4 DEF vm_destroy, Restrict
    <3> QED BY <3>1
  <2>5. ASSUME NEW v \in DOMAIN program_table, NEW ir \in IRs, vm_init(v, ir)
        PROVE  marked' = {} /\ \A u \in DOMAIN vm' : owner' = u
    <3>1. DOMAIN vm' = DOMAIN vm \cup {v} /\ owner' = v /\ marked' = marked
      BY <2>5 DEF vm_init, Bind
    <3> QED BY <1>1, <2>1, <3>1
  <2>6. CASE marked' = marked /\ owner' = owner /\ DOMAIN vm' = DOMAIN vm
    BY <2>1, <2>6
  <2> QED BY <2>2, <2>3, <2>4, <2>5, <2>6, StepsOfTheVMs
<1>4. ASSUME next_pid' <= 2, next_pid' = next_pid + 1, UNCHANGED vmVars
      PROVE  marked' = {} /\ \A v \in DOMAIN vm' : owner' = v
  <2>1. next_pid = 1
    BY <1>1, <1>4
  <2>2. marked = {} /\ DOMAIN program_table \subseteq {}
    BY <2>1 DEF Alone
  <2>3. DOMAIN vm = {}
    BY <1>1, <2>2
  <2> QED BY <1>4, <2>2, <2>3 DEF vmVars
<1> QED BY <1>2, <1>3, <1>4, StepsOfTheTable DEF Alone

\* With code that is balanced, and a session of one program, what the heap holds at
\* the end of the code are the values of the variables (gc_collect, vm_executor).
THEOREM OnlyVariablesAreLeft ==
  ASSUME \A ir \in IRs : Balanced(ir)
  PROVE  Spec => LeaksAreVariables
<1>1. Init => DepthsFit /\ Alone
  BY DEF Init, DepthsFit, Alone
<1>2. IInv /\ DepthsFit /\ [Next]_vars => DepthsFit'
  BY NextDepths
<1>3. IInv /\ DepthsFit /\ Alone /\ [Next]_vars =>
        ((RunEnd \/ ContinueEnd) /\ next_pid = 2 /\ AtEnd(cur) => vm'[cur].heap = Range(globals))
  <2> SUFFICES ASSUME IInv, DepthsFit, Alone, RunEnd \/ ContinueEnd, next_pid = 2, AtEnd(cur)
               PROVE  vm'[cur].heap = Range(globals)
    OBVIOUS
  <2>1. cur \in DOMAIN vm /\ gc_collect(cur)
    BY ExecutingHasVM DEF RunEnd, ContinueEnd
  <2>2. /\ vm[cur].ir \in IRs /\ Len(vm[cur].ir) \in Nat /\ vm[cur].stack \in Seq(Objects)
        /\ AreDepths(DepthsOf(vm[cur].ir), vm[cur].ir)
    BY <2>1, IRsAssumption DEF IInv, MemoryOK, VMs, Balanced
  <2>3. vm[cur].pc = Len(vm[cur].ir)
    BY <2>1, <2>2 DEF DepthsFit, AtEnd
  <2>4. Len(vm[cur].stack) = 0
    BY <2>1, <2>2, <2>3 DEF DepthsFit, AreDepths, Depth
  <2>5. Range(vm[cur].stack) = {}
    BY <2>2, <2>4 DEF Range
  <2>6. vm'[cur].heap = Roots(cur)
    BY <2>1, AloneCollects
  <2> QED BY <2>5, <2>6 DEF Roots
<1> QED BY <1>1, <1>2, <1>3, Invariance, NextAlone, PTL DEF Spec, LeaksAreVariables


(***************************************************************************)
(* Programs implements ValueMachine.  First, sequences of pointers and the *)
(* numbers they lead to.                                                   *)
(***************************************************************************)

Numbered(f, S) == {f[x] : x \in S}

Image(f, s) == [i \in DOMAIN s |-> f[s[i]]]

\* The numbers on a stack are as many as the pointers.
LEMMA ImageSeq ==
  ASSUME NEW S, NEW s \in Seq(S), NEW f
  PROVE  /\ Image(f, s) \in Seq(Numbered(f, S))
         /\ Len(Image(f, s)) = Len(s)
         /\ \A i \in 1 .. Len(s) : Image(f, s)[i] = f[s[i]]
<1>1. DOMAIN s = 1 .. Len(s) /\ Len(s) \in Nat /\ \A i \in 1 .. Len(s) : s[i] \in S
  OBVIOUS
<1>2. Image(f, s) = [i \in 1 .. Len(s) |-> f[s[i]]]
  BY <1>1 DEF Image
<1>3. \A i \in 1 .. Len(s) : f[s[i]] \in Numbered(f, S)
  BY <1>1 DEF Numbered
<1> QED BY <1>1, <1>2, <1>3

\* Only the objects on the stack matter.
LEMMA ImageSame ==
  ASSUME NEW f, NEW g, NEW s, \A i \in DOMAIN s : f[s[i]] = g[s[i]]
  PROVE  Image(f, s) = Image(g, s)
  BY DEF Image

\* Popping pointers pops their numbers.
LEMMA ImagePop ==
  ASSUME NEW S, NEW s \in Seq(S), NEW f, NEW k \in Nat, k <= Len(s)
  PROVE  Image(f, SubSeq(s, 1, Len(s) - k)) = SubSeq(Image(f, s), 1, Len(Image(f, s)) - k)
<1> DEFINE m == Len(s) - k
           t == SubSeq(s, 1, m)
<1>1. Len(s) \in Nat /\ m \in Nat /\ m <= Len(s)
  OBVIOUS
<1>2. t \in Seq(S) /\ Len(t) = m /\ \A i \in 1 .. m : t[i] = s[i]
  BY <1>1
<1> HIDE DEF t
<1>3. /\ Image(f, t) \in Seq(Numbered(f, S))
      /\ Len(Image(f, t)) = m
      /\ \A i \in 1 .. m : Image(f, t)[i] = f[s[i]]
  BY <1>2, ImageSeq
<1>4. /\ Image(f, s) \in Seq(Numbered(f, S))
      /\ Len(Image(f, s)) = Len(s)
      /\ \A i \in 1 .. Len(s) : Image(f, s)[i] = f[s[i]]
  BY ImageSeq
<1> DEFINE u == SubSeq(Image(f, s), 1, m)
<1>5. /\ u \in Seq(Numbered(f, S)) /\ Len(u) = m
      /\ \A i \in 1 .. m : u[i] = Image(f, s)[i]
  BY <1>1, <1>4
<1> HIDE DEF m, t, u
<1>6. \A i \in 1 .. m : Image(f, t)[i] = u[i]
  BY <1>1, <1>3, <1>4, <1>5
<1>7. Image(f, t) = u
  BY <1>1, <1>3, <1>5, <1>6
<1> QED BY <1>4, <1>7 DEF m, t, u

\* Pushing a pointer pushes its number.
LEMMA ImagePush ==
  ASSUME NEW S, NEW s \in Seq(S), NEW f, NEW o \in S
  PROVE  Image(f, Append(s, o)) = Append(Image(f, s), f[o])
<1> DEFINE T == Numbered(f, S)
           r == Append(s, o)
           a == Image(f, s)
           b == Image(f, r)
<1>1. /\ r \in Seq(S) /\ Len(r) = Len(s) + 1 /\ Len(s) \in Nat
      /\ \A i \in 1 .. Len(s) : r[i] = s[i]
      /\ r[Len(s) + 1] = o
  OBVIOUS
<1> HIDE DEF r
<1>2. a \in Seq(T) /\ Len(a) = Len(s) /\ \A i \in 1 .. Len(s) : a[i] = f[s[i]]
  BY ImageSeq
<1>3. b \in Seq(T) /\ Len(b) = Len(s) + 1 /\ \A i \in 1 .. Len(s) + 1 : b[i] = f[r[i]]
  BY <1>1, ImageSeq
<1>4. f[o] \in T
  BY DEF Numbered
<1> HIDE DEF T, a, b
<1>5. /\ Append(a, f[o]) \in Seq(T) /\ Len(Append(a, f[o])) = Len(s) + 1
      /\ \A i \in 1 .. Len(s) : Append(a, f[o])[i] = a[i]
      /\ Append(a, f[o])[Len(s) + 1] = f[o]
  BY <1>2, <1>4
<1>6. \A i \in 1 .. Len(s) + 1 : b[i] = Append(a, f[o])[i]
  BY <1>1, <1>2, <1>3, <1>5
<1>7. b = Append(a, f[o])
  BY <1>1, <1>3, <1>5, <1>6
<1> QED BY <1>7 DEF a, b, r

(***************************************************************************)
(* The steps of Programs as steps of the value machine.                    *)
(***************************************************************************)

\* Both machines have the same instruction set.
LEMMA SameInstructions ==
  /\ Values!BinaryOps = BinaryOps
  /\ \A op : Values!Pops(op) = Pops(op)
  /\ \A op, a, b : Values!Evaluate(op, a, b) = Evaluate(op, a, b)
  /\ \A op, a, b : Values!Traps(op, a, b) = Traps(op, a, b)
<1>1. Values!BinaryOps = BinaryOps
  BY DEF Values!BinaryOps, BinaryOps
<1>2. \A op : Values!Pops(op) = Pops(op)
  BY DEF Values!Pops, Pops, Values!BinaryOps, BinaryOps
<1>3. \A op, a, b : Values!Evaluate(op, a, b) = Evaluate(op, a, b)
  BY DEF Values!Evaluate, Evaluate, Values!Wrap, Wrap, Values!Quotient, Quotient, Values!Truth,
         Truth, Values!Magnitude, Magnitude, Values!INT_MIN
<1>4. \A op, a, b : Values!Traps(op, a, b) = Traps(op, a, b)
  BY DEF Values!Traps, Traps, Values!INT_MIN
<1> QED BY <1>1, <1>2, <1>3, <1>4

\* What the owner's pointers lead to is allocated.
LEMMA OwnersPointers ==
  ASSUME IInv, owner # NoPID
  PROVE  /\ owner \in DOMAIN vm /\ vm[owner] \in VMs
         /\ \A i \in DOMAIN vm[owner].stack : vm[owner].stack[i] \in Live
         /\ \A n \in DOMAIN globals : globals[n] \in Live
  BY DEF IInv, MemoryOK, OwnedRoots, HeapsPartition, Roots, Range

\* A step that leaves the owner's pointers alone leaves its numbers alone, even
\* when it frees and allocates objects.
LEMMA Stutter ==
  ASSUME IInv, IInv', Preserved, owner' = owner,
         owner # NoPID => /\ globals' = globals
                          /\ vm'[owner].ir = vm[owner].ir
                          /\ vm'[owner].pc = vm[owner].pc
                          /\ vm'[owner].stack = vm[owner].stack
  PROVE  UNCHANGED Values!vars
<1>1. CASE owner = NoPID
  BY <1>1 DEF Values!vars, Code, Counter, Numbers, Variables
<1>2. CASE owner # NoPID
  <2>1. /\ \A i \in DOMAIN vm[owner].stack : vm[owner].stack[i] \in Live
        /\ \A n \in DOMAIN globals : globals[n] \in Live
    BY <1>2, OwnersPointers
  <2>2. /\ \A i \in DOMAIN vm[owner].stack : vm[owner].stack[i] \in DOMAIN value'
        /\ \A n \in DOMAIN globals : globals[n] \in DOMAIN value'
    BY <1>2 DEF IInv, MemoryOK, OwnedRoots, HeapsPartition, Roots, Range
  <2>3. /\ \A i \in DOMAIN vm[owner].stack : value'[vm[owner].stack[i]] = value[vm[owner].stack[i]]
        /\ \A n \in DOMAIN globals : value'[globals[n]] = value[globals[n]]
    BY <2>1, <2>2 DEF Preserved
  <2>4. Numbers' = Numbers /\ Variables' = Variables
    BY <1>2, <2>3 DEF Numbers, Variables
  <2> QED BY <1>2, <2>4 DEF Values!vars, Code, Counter
<1> QED BY <1>1, <1>2

\* A VM that is initialised, again or for the first time, starts a program.
LEMMA StartsProgram ==
  ASSUME NEW p \in PIDs, NEW ir \in IRs, vm_init(p, ir)
  PROVE  Values!Start
<1>1. /\ owner' = p /\ owner' # NoPID
      /\ vm'[p] = [ir |-> ir, pc |-> 0, stack |-> << >>, heap |-> {},
                   breakpoints |-> {}, steps |-> 0]
      /\ globals' = [n \in {} |-> NoPID]
  BY DEF vm_init, Bind
<1>2. Numbers' = << >> /\ Variables' = [n \in {} |-> 0]
  BY <1>1 DEF Numbers, Variables
<1> QED BY <1>1, <1>2 DEF Values!Start, Code, Counter

\* When the variables are nobody's any more, the value machine has stopped.
LEMMA EndsProgram ==
  ASSUME owner' = NoPID
  PROVE  Values!End
  BY DEF Values!End, Values!Nobody, Code, Counter, Numbers, Variables

(***************************************************************************)
(* An instruction of the owner.                                            *)
(***************************************************************************)

\* The value machine sees the owner's code, counter, stack and variables.
LEMMA OwnersView ==
  ASSUME IInv, NEW v \in DOMAIN vm, owner = v, ~ Refuses(v), ~ Overruns(v)
  PROVE  /\ v # NoPID /\ vm[v] \in VMs /\ vm[v].stack \in Seq(Objects)
         /\ Values!Instr = Instr(v)
         /\ Counter = vm[v].pc /\ Counter < Len(Code) /\ Code = vm[v].ir
         /\ Numbers = Image(value, vm[v].stack)
         /\ Values!Depth = Depth(v) /\ Depth(v) \in Nat
         /\ Pops(Instr(v).op) \in Nat /\ Depth(v) >= Pops(Instr(v).op)
         /\ Variables = [n \in DOMAIN globals |-> value[globals[n]]]
<1>1. v # NoPID /\ vm[v] \in VMs
  BY DEF IInv, MemoryOK
<1>2. vm[v].stack \in Seq(Objects) /\ vm[v].pc \in Nat /\ vm[v].ir \in Seq(IRInstr)
  BY <1>1, IRsAssumption DEF VMs
<1>3. Code = vm[v].ir /\ Counter = vm[v].pc /\ vm[v].pc < Len(vm[v].ir)
  BY <1>1, <1>2 DEF Code, Counter, Refuses, AtEnd
<1>4. Values!Instr = Instr(v)
  BY <1>3 DEF Values!Instr, Instr
<1>5. Numbers = Image(value, vm[v].stack)
  BY <1>1 DEF Numbers, Image
<1>6. Values!Depth = Depth(v) /\ Depth(v) \in Nat
  BY <1>2, <1>5, ImageSeq DEF Values!Depth, Depth
<1>7. Pops(Instr(v).op) \in Nat /\ Depth(v) >= Pops(Instr(v).op)
  <2>1. Pops(Instr(v).op) \in Nat
    BY DEF Pops
  <2> QED BY <1>6, <2>1 DEF Overruns
<1>8. Variables = [n \in DOMAIN globals |-> value[globals[n]]]
  BY <1>1 DEF Variables
<1> QED BY <1>1, <1>2, <1>3, <1>4, <1>5, <1>6, <1>7, <1>8

\* The numbers of the operands
LEMMA OwnersOperands ==
  ASSUME IInv, NEW v \in DOMAIN vm, owner = v, ~ Refuses(v), ~ Overruns(v)
  PROVE  /\ Image(value, Popped(v)) = SubSeq(Numbers, 1, Values!Depth - Pops(Instr(v).op))
         /\ \A i \in DOMAIN Popped(v) : Popped(v)[i] \in Live
         /\ Pops(Instr(v).op) >= 1 => Top(v) \in Live /\ value[Top(v)] = Values!Top
         /\ Pops(Instr(v).op) >= 2 => Below(v) \in Live /\ value[Below(v)] = Values!Below
<1> DEFINE s == vm[v].stack
           k == Pops(Instr(v).op)
<1>1. /\ s \in Seq(Objects) /\ Len(s) \in Nat /\ k \in Nat /\ Len(s) >= k
      /\ Numbers = Image(value, s) /\ Values!Depth = Len(s) /\ v # NoPID
  BY OwnersView DEF Depth
<1>2. \A i \in DOMAIN s : s[i] \in Live
  BY <1>1, OwnersPointers
<1>3. /\ Len(Image(value, s)) = Len(s)
      /\ \A i \in 1 .. Len(s) : Image(value, s)[i] = value[s[i]]
  BY <1>1, ImageSeq
<1>4. Popped(v) = SubSeq(s, 1, Len(s) - k)
  BY DEF Popped, Depth
<1>5. Image(value, Popped(v)) = SubSeq(Numbers, 1, Values!Depth - k)
  <2>1. Image(value, SubSeq(s, 1, Len(s) - k)) = SubSeq(Image(value, s), 1, Len(Image(value, s)) - k)
    BY <1>1, ImagePop
  <2> QED BY <1>1, <1>3, <1>4, <2>1
<1>6. k >= 1 => Top(v) = s[Len(s)] /\ Values!Top = Image(value, s)[Len(s)] /\ Len(s) \in 1 .. Len(s)
  BY <1>1 DEF Top, Depth, Values!Top
<1>7. k >= 2 => /\ Below(v) = s[Len(s) - 1] /\ Values!Below = Image(value, s)[Len(s) - 1]
               /\ Len(s) - 1 \in 1 .. Len(s)
  BY <1>1 DEF Below, Depth, Values!Below
<1> HIDE DEF s, k
<1>8. \A i \in DOMAIN Popped(v) : i \in DOMAIN s /\ Popped(v)[i] = s[i]
  BY <1>1, <1>4
<1>9. \A i \in DOMAIN Popped(v) : Popped(v)[i] \in Live
  BY <1>2, <1>8
<1>10. DOMAIN s = 1 .. Len(s)
  BY <1>1
<1>11. k >= 1 => Top(v) \in Live /\ value[Top(v)] = Values!Top
  BY <1>2, <1>3, <1>6, <1>10
<1>12. k >= 2 => Below(v) \in Live /\ value[Below(v)] = Values!Below
  BY <1>2, <1>3, <1>7, <1>10
<1> QED BY <1>5, <1>9, <1>11, <1>12 DEF k

\* An instruction that pushes a new object pushes its number.
LEMMA OwnerPushes ==
  ASSUME IInv, NEW v \in DOMAIN vm, owner = v, ~ Refuses(v), ~ Overruns(v),
         NEW n, PushNew(v, n)
  PROVE  Values!Push(n) /\ owner' = owner /\ Code' = Code
<1>1. PICK o \in Objects :
        /\ o \notin Live /\ value' = Bind(value, o, n)
        /\ Advance(v, vm[v].pc + 1, Append(Popped(v), o), {o})
        /\ UNCHANGED <<globals, owner>>
  BY DEF PushNew, heap_alloc
<1>2. /\ value'[o] = n
      /\ \A q \in Live : value'[q] = value[q]
  BY <1>1 DEF Bind
<1>3. /\ v # NoPID /\ vm[v] \in VMs /\ owner' = v
      /\ vm'[v].stack = Append(Popped(v), o)
      /\ vm'[v].pc = vm[v].pc + 1 /\ vm'[v].ir = vm[v].ir
  <2>1. v # NoPID /\ vm[v] \in VMs
    BY OwnersView
  <2>2. vm'[v] = [ir |-> vm[v].ir, pc |-> vm[v].pc + 1, stack |-> Append(Popped(v), o),
                  heap |-> vm[v].heap \cup {o}, breakpoints |-> vm[v].breakpoints,
                  steps |-> vm[v].steps + 1]
    BY <1>1, <2>1 DEF Advance, VMs
  <2>3. /\ vm'[v].stack = Append(Popped(v), o)
        /\ vm'[v].pc = vm[v].pc + 1 /\ vm'[v].ir = vm[v].ir
    BY <2>2
  <2>4. owner' = v
    BY <1>1
  <2> QED BY <2>1, <2>3, <2>4
<1>4. Numbers' = Image(value', Append(Popped(v), o))
  BY <1>3 DEF Numbers, Image
<1>5. Popped(v) \in Seq(Objects)
  BY <1>3, Operands
<1>6. Image(value', Append(Popped(v), o)) = Append(Image(value', Popped(v)), n)
  BY <1>2, <1>5, ImagePush
<1>7. Image(value', Popped(v)) = Image(value, Popped(v))
  <2>1. \A i \in DOMAIN Popped(v) : value'[Popped(v)[i]] = value[Popped(v)[i]]
    BY <1>2, OwnersOperands
  <2> QED BY <2>1, ImageSame
<1>8. Numbers' = Append(SubSeq(Numbers, 1, Values!Depth - Pops(Instr(v).op)), n)
  BY <1>4, <1>6, <1>7, OwnersOperands
<1>9. Variables' = Variables
  <2>1. \A x \in DOMAIN globals : value'[globals[x]] = value[globals[x]]
    BY <1>2, <1>3, OwnersPointers
  <2> QED BY <1>1, <1>3, <2>1 DEF Variables
<1>10. Counter' = Counter + 1 /\ Code' = Code
  BY <1>1, <1>3, OwnersView DEF Counter, Code
<1>11. Values!Pops(Values!Instr.op) = Pops(Instr(v).op)
  BY SameInstructions, OwnersView
<1> QED BY <1>1, <1>8, <1>9, <1>10, <1>11 DEF Values!Push

\* An instruction that allocates nothing moves the numbers with the pointers.
LEMMA OwnerMoves ==
  ASSUME IInv, NEW v \in DOMAIN vm, owner = v, ~ Refuses(v), ~ Overruns(v),
         NEW pc, NEW stack, Advance(v, pc, stack, {}), value' = value, owner' = owner
  PROVE  /\ Numbers' = Image(value, stack)
         /\ Counter' = pc /\ Code' = Code
         /\ Variables' = [n \in DOMAIN globals' |-> value[globals'[n]]]
<1>1. v # NoPID /\ vm[v] \in VMs /\ owner' = v /\ Code = vm[v].ir
  BY OwnersView
<1>2. vm'[v].stack = stack /\ vm'[v].pc = pc /\ vm'[v].ir = vm[v].ir
  <2>1. vm'[v] = [ir |-> vm[v].ir, pc |-> pc, stack |-> stack,
                  heap |-> vm[v].heap \cup {}, breakpoints |-> vm[v].breakpoints,
                  steps |-> vm[v].steps + 1]
    BY <1>1, AdvanceVM
  <2> QED BY <2>1
<1> QED BY <1>1, <1>2 DEF Numbers, Counter, Code, Variables, Image

\* Every instruction of the owner is that instruction of the value machine.
LEMMA OwnStep ==
  ASSUME IInv, NEW v \in DOMAIN vm, owner = v, vm_step(v)
  PROVE  Values!Step
<1>1. ~ Refuses(v) /\ ~ Overruns(v)
  BY DEF vm_step
<1> DEFINE op == Instr(v).op
<1>2. /\ Values!Instr = Instr(v) /\ Counter = vm[v].pc /\ Counter < Len(Code)
      /\ Values!Depth = Depth(v) /\ Depth(v) \in Nat
      /\ Depth(v) >= Pops(op) /\ Numbers = Image(value, vm[v].stack)
      /\ Variables = [n \in DOMAIN globals |-> value[globals[n]]]
      /\ v # NoPID /\ vm[v].stack \in Seq(Objects)
  BY <1>1, OwnersView
<1>3. /\ Image(value, Popped(v)) = SubSeq(Numbers, 1, Values!Depth - Pops(op))
      /\ Pops(op) >= 1 => Top(v) \in Live /\ value[Top(v)] = Values!Top
      /\ Pops(op) >= 2 => Below(v) \in Live /\ value[Below(v)] = Values!Below
  BY <1>1, OwnersOperands
<1>4. \A n : PushNew(v, n) => Values!Push(n) /\ owner' = owner /\ Code' = Code
  BY <1>1, OwnerPushes
<1>5. /\ Values!BinaryOps = BinaryOps /\ Values!Pops(op) = Pops(op)
      /\ \A a, b : /\ Values!Evaluate(op, a, b) = Evaluate(op, a, b)
                   /\ Values!Traps(op, a, b) = Traps(op, a, b)
  BY SameInstructions
<1>6. SUFFICES /\ \/ Values!Constant \/ Values!Operation \/ Values!Load
                  \/ Values!Store \/ Values!Jump \/ Values!Branch
               /\ owner' = owner /\ Code' = Code
  BY <1>2, <1>5 DEF Values!Step
<1>7. CASE LoadConst(v)
  BY <1>2, <1>4, <1>7 DEF LoadConst, Values!Constant
<1>8. CASE Binary(v)
  <2>1. op \in BinaryOps /\ Pops(op) = 2
    BY <1>8 DEF Binary, Pops
  <2>2. PICK a \in Read(Below(v)), b \in Read(Top(v)) :
          ~ Traps(op, a, b) /\ PushNew(v, Evaluate(op, a, b))
    BY <1>8 DEF Binary
  <2>3. a = Values!Below /\ b = Values!Top
    BY <1>3, <2>1, <2>2 DEF Read
  <2> QED BY <1>2, <1>4, <1>5, <2>1, <2>2, <2>3 DEF Values!Operation
<1>9. CASE LoadUnset(v)
  <2>1. op = "LOAD_VAR" /\ Instr(v).name \notin DOMAIN globals /\ PushNew(v, 0)
    BY <1>9 DEF LoadUnset
  <2>2. Instr(v).name \notin DOMAIN Variables
    BY <1>2, <2>1
  <2> QED BY <1>2, <1>4, <2>1, <2>2 DEF Values!Load
<1>10. CASE LoadVar(v)
  <2> DEFINE g == globals[Instr(v).name]
  <2>1. /\ op = "LOAD_VAR" /\ Instr(v).name \in DOMAIN globals
        /\ Advance(v, vm[v].pc + 1, Append(vm[v].stack, g), {})
        /\ UNCHANGED <<value, globals, owner>>
    BY <1>10 DEF LoadVar
  <2>2. g \in Objects
    BY <2>1 DEF IInv, MemoryOK, Range
  <2>3. Pops(op) = 0
    BY <2>1 DEF Pops, BinaryOps
  <2>4. SubSeq(Numbers, 1, Values!Depth - 0) = Numbers
    <3>1. SubSeq(vm[v].stack, 1, Len(vm[v].stack)) = vm[v].stack
      BY <1>2
    <3>2. Popped(v) = vm[v].stack
      BY <1>2, <2>3, <3>1 DEF Popped, Depth
    <3> QED BY <1>2, <1>3, <2>3, <3>2
  <2>5. Numbers' = Append(Numbers, value[g])
    <3>1. Numbers' = Image(value, Append(vm[v].stack, g))
      BY <1>1, <2>1, OwnerMoves
    <3> QED BY <1>2, <2>2, <3>1, ImagePush
  <2>6. Counter' = Counter + 1 /\ Code' = Code /\ Variables' = Variables
    BY <1>1, <1>2, <2>1, OwnerMoves
  <2>7. Values!Instr.name \in DOMAIN Variables /\ Variables[Values!Instr.name] = value[g]
    BY <1>2, <2>1
  <2> QED BY <1>2, <1>5, <2>1, <2>3, <2>4, <2>5, <2>6, <2>7 DEF Values!Load, Values!Push
<1>11. CASE StoreVar(v)
  <2>1. /\ op = "STORE_VAR" /\ globals' = Bind(globals, Instr(v).name, Top(v))
        /\ Advance(v, vm[v].pc + 1, Popped(v), {}) /\ value' = value /\ owner' = owner
    BY <1>11 DEF StoreVar
  <2>2. Pops(op) = 1
    BY <2>1 DEF Pops, BinaryOps
  <2>3. /\ Numbers' = SubSeq(Numbers, 1, Values!Depth - 1)
        /\ Counter' = Counter + 1 /\ Code' = Code
        /\ Variables' = [n \in DOMAIN globals' |-> value[globals'[n]]]
    BY <1>1, <1>2, <1>3, <2>1, <2>2, OwnerMoves
  <2>4. Variables' = [n \in DOMAIN Variables \cup {Instr(v).name} |->
                        IF n = Instr(v).name THEN Values!Top ELSE Variables[n]]
    BY <1>2, <1>3, <2>1, <2>2, <2>3 DEF Bind
  <2> QED BY <1>2, <2>1, <2>3, <2>4 DEF Values!Store
<1>12. CASE Jump(v)
  <2>1. /\ op \in {"JMP", "LABEL"}
        /\ Advance(v, IF op = "JMP" THEN Instr(v).value ELSE vm[v].pc + 1, vm[v].stack, {})
        /\ UNCHANGED <<value, globals, owner>>
    BY <1>12 DEF Jump
  <2>2. /\ Numbers' = Numbers /\ Variables' = Variables /\ Code' = Code
        /\ Counter' = IF op = "JMP" THEN Instr(v).value ELSE vm[v].pc + 1
    BY <1>1, <1>2, <2>1, OwnerMoves
  <2> QED BY <1>2, <2>1, <2>2 DEF Values!Jump
<1>13. CASE JumpIfZero(v)
  <2>1. op = "JZ" /\ Pops(op) = 1 /\ UNCHANGED <<value, globals, owner>>
    BY <1>13 DEF JumpIfZero, Pops, BinaryOps
  <2>2. PICK a \in Read(Top(v)) :
          Advance(v, IF a = 0 THEN Instr(v).value ELSE vm[v].pc + 1, Popped(v), {})
    BY <1>13 DEF JumpIfZero
  <2>3. a = Values!Top
    BY <1>3, <2>1, <2>2 DEF Read
  <2>4. /\ Numbers' = Image(value, Popped(v)) /\ Variables' = Variables /\ Code' = Code
        /\ Counter' = IF a = 0 THEN Instr(v).value ELSE vm[v].pc + 1
    BY <1>1, <1>2, <2>1, <2>2, OwnerMoves
  <2> QED BY <1>2, <1>3, <2>1, <2>3, <2>4 DEF Values!Branch
<1> QED BY <1>7, <1>8, <1>9, <1>10, <1>11, <1>12, <1>13 DEF vm_step

(***************************************************************************)
(* The theorem.                                                            *)
(***************************************************************************)

\* An instruction of another program leaves the owner's numbers alone, or ends
\* its program by storing.
LEMMA OthersStep ==
  ASSUME IInv, IInv', NEW v \in DOMAIN vm, owner # v, vm_step(v)
  PROVE  Values!End \/ UNCHANGED Values!vars
<1>1. Preserved
  BY StepPreserves
<1>2. CASE StoreVar(v)
  <2>1. owner' = NoPID
    BY <1>2 DEF StoreVar
  <2> QED BY <2>1, EndsProgram
<1>3. CASE ~ StoreVar(v)
  <2>1. owner' = owner /\ globals' = globals /\ \E pc, stack, new : Advance(v, pc, stack, new)
    BY <1>3 DEF vm_step, LoadConst, Binary, Jump, JumpIfZero, LoadUnset, LoadVar, PushNew
  <2>2. owner # NoPID => owner \in DOMAIN vm
    BY OwnersPointers
  <2>3. vm[v] \in VMs
    BY DEF IInv, MemoryOK
  <2>4. owner # NoPID => vm'[owner] = vm[owner]
    BY <2>1, <2>2, <2>3, AdvanceVM
  <2> QED BY <1>1, <2>1, <2>4, Stutter
<1> QED BY <1>2, <1>3

\* A collection, of the owner's heap or of another one, leaves its numbers alone.
LEMMA CollectStutters ==
  ASSUME IInv, IInv', NEW v \in DOMAIN vm, gc_collect(v)
  PROVE  UNCHANGED Values!vars
<1>1. Preserved
  BY ReleasePreserves
<1>2. /\ owner' = owner /\ globals' = globals
      /\ vm' = [vm EXCEPT ![v].heap = @ \ Dead(v)]
  BY DEF gc_collect
<1>3. owner # NoPID => /\ vm'[owner].ir = vm[owner].ir
                       /\ vm'[owner].pc = vm[owner].pc
                       /\ vm'[owner].stack = vm[owner].stack
  <2>1. owner # NoPID => owner \in DOMAIN vm /\ vm[owner] \in VMs
    BY OwnersPointers
  <2> QED BY <1>2, <2>1 DEF VMs
<1> QED BY <1>1, <1>2, <1>3, Stutter

\* A kill ends the owner's program, or leaves its numbers alone.
LEMMA DestroyEnds ==
  ASSUME IInv, IInv', NEW v \in DOMAIN vm, vm_destroy(v)
  PROVE  Values!End \/ UNCHANGED Values!vars
<1>1. CASE owner = v
  <2>1. owner' = NoPID
    BY <1>1 DEF vm_destroy
  <2> QED BY <2>1, EndsProgram
<1>2. CASE owner # v
  <2>1. Preserved
    BY ReleasePreserves
  <2>2. /\ owner' = owner /\ globals' = globals
        /\ owner # NoPID => owner \in DOMAIN vm
    BY <1>2, OwnersPointers DEF vm_destroy
  <2>3. owner # NoPID => vm'[owner] = vm[owner]
    BY <1>2, <2>2 DEF vm_destroy, Restrict
  <2> QED BY <2>1, <2>2, <2>3, Stutter
<1> QED BY <1>1, <1>2

\* What touches no VM but for its breakpoints leaves the numbers alone.
LEMMA MemoryStutters ==
  ASSUME IInv, IInv', UNCHANGED <<value, globals, owner>>,
         owner # NoPID => /\ vm'[owner].ir = vm[owner].ir
                          /\ vm'[owner].pc = vm[owner].pc
                          /\ vm'[owner].stack = vm[owner].stack
  PROVE  UNCHANGED Values!vars
<1>1. Preserved
  BY DEF Preserved
<1> QED BY <1>1, Stutter

\* Every step of the shell is a step of the value machine, or none.
LEMMA StepRefines ==
  ASSUME IInv, IInv', [Next]_vars
  PROVE  [Values!Next]_(Values!vars)
<1>1. ASSUME NEW v \in DOMAIN vm, vm_step(v) PROVE [Values!Next]_(Values!vars)
  BY <1>1, OwnStep, OthersStep DEF Values!Next
<1>2. ASSUME NEW v \in DOMAIN vm, gc_collect(v) PROVE [Values!Next]_(Values!vars)
  BY <1>2, CollectStutters
<1>3. ASSUME NEW p \in DOMAIN program_table, NEW ir \in CodeFor(p), vm_init(p, ir)
      PROVE  [Values!Next]_(Values!vars)
  <2>1. p \in PIDs /\ ir \in IRs
    BY <1>3 DEF IInv, TableOK, CodeFor
  <2> QED BY <1>3, <2>1, StartsProgram DEF Values!Next
<1>4. CASE UNCHANGED vmVars
  BY <1>4, MemoryStutters DEF vmVars
<1>5. ASSUME NEW p \in DOMAIN program_table, Command(p)
      PROVE  [Values!Next]_(Values!vars)
  <2>1. CASE Compile(p)
    BY <1>4, <2>1 DEF Compile
  <2>2. CASE Run(p)
    BY <1>3, <1>4, <2>2 DEF Run
  <2>3. CASE Gc(p)
    BY <1>2, <2>3 DEF Gc
  <2>4. CASE Kill(p)
    <3>1. CASE p \in DOMAIN vm
      <4>1. vm_destroy(p)
        BY <2>4, <3>1 DEF Kill, program_destroy
      <4> QED BY <3>1, <4>1, DestroyEnds DEF Values!Next
    <3>2. CASE p \notin DOMAIN vm
      BY <1>4, <2>4, <3>2 DEF Kill, program_destroy
    <3> QED BY <3>1, <3>2
  <2>5. CASE Debug(p)
    BY <1>3, <2>5 DEF Debug
  <2> QED BY <1>5, <2>1, <2>2, <2>3, <2>4, <2>5 DEF Command
<1>6. CASE Executor
  BY <1>1, <1>2, <1>6, ExecutingHasVM DEF Executor, Execute, RunEnd, ContinueEnd
<1>7. CASE DbgBreak
  <2>1. cur \in DOMAIN vm /\ vm[cur] \in VMs
    BY <1>7, ExecutingHasVM DEF DbgBreak, IInv, MemoryOK
  <2>2. PICK i : vm' = [vm EXCEPT ![cur].breakpoints = @ \cup {i - 1}]
    BY <1>7 DEF DbgBreak
  <2>3. owner # NoPID => owner \in DOMAIN vm /\ vm[owner] \in VMs
    BY OwnersPointers
  <2>4. owner # NoPID => /\ vm'[owner].ir = vm[owner].ir
                         /\ vm'[owner].pc = vm[owner].pc
                         /\ vm'[owner].stack = vm[owner].stack
    BY <2>1, <2>2, <2>3 DEF VMs
  <2> QED BY <1>7, <2>4, MemoryStutters DEF DbgBreak
<1>8. CASE Debugger /\ ~ DbgBreak
  BY <1>1, <1>2, <1>4, <1>8, ExecutingHasVM
  DEF Debugger, DbgStep, DbgStepRefused, DbgContinue, DbgGc, DbgQuit
<1>9. CASE NoReturn \/ Submit \/ Exit \/ UNCHANGED vars
  <2>1. UNCHANGED vmVars
    BY <1>9 DEF NoReturn, Die, Overrun, CorruptingGc, Submit, Exit, vars, vmVars
  <2> QED BY <1>4, <2>1
<1> QED BY <1>5, <1>6, <1>7, <1>8, <1>9 DEF Next

\* The programs of the shell, with their shared variables, their collections and
\* their reused addresses, implement the value machine: whatever happens to the
\* others, the program that owns vars[] computes what its code says.
THEOREM Refinement == Spec => OwnersMeaning
<1>1. Init => Values!Nobody
  BY DEF Init, Values!Nobody, Code, Counter, Numbers, Variables
<1>2. IInv /\ IInv' /\ [Next]_vars => [Values!Next]_(Values!vars)
  BY StepRefines
<1> QED BY <1>1, <1>2, Invariance, PTL DEF Spec, OwnersMeaning, Values!Spec
===============================================================================
