------------------------------ MODULE Recursion ------------------------------
(***************************************************************************)
(* A function that is defined at 0, and at a number by its value at the    *)
(* number before, exists.                                                  *)
(***************************************************************************)
EXTENDS Integers, WellFoundedInduction, TLAPS

CONSTANTS
  Rhs(_, _),   \* the value at a number, from the one before and the number
  N            \* the last number

\* The least element of a set of numbers.
LEMMA LeastNumber ==
  ASSUME NEW T, T \subseteq Nat, T # {} PROVE \E n \in T : \A k \in T : n <= k
<1>1. IsWellFoundedOn(OpToRel(<, Nat), Nat)
  BY NatLessThanWellFounded
<1>2. PICK n \in T : \A k \in T : <<k, n>> \notin OpToRel(<, Nat)
  BY <1>1, WFMin
<1>3. \A k, m \in Nat : k < m => <<k, m>> \in OpToRel(<, Nat)
  BY DEF OpToRel
<1>4. ASSUME NEW k \in T PROVE n <= k
  <2>1. k \in Nat /\ n \in Nat /\ ~ (k < n)
    BY <1>2, <1>3
  <2> QED
    BY <2>1
<1> QED
  BY <1>4

Defines(f, n) == f = [d \in 0 .. n |-> Rhs(f[d - 1], d)]

\* One number more.
LEMMA Extended ==
  ASSUME \A x, y : Rhs(x, 0) = Rhs(y, 0), NEW n \in Nat, NEW f, Defines(f, n)
  PROVE  \E g : Defines(g, n + 1)
<1> DEFINE g == [d \in 0 .. n + 1 |-> IF d <= n THEN f[d] ELSE Rhs(f[n], n + 1)]
<1>1. \A d \in 0 .. n : f[d] = Rhs(f[d - 1], d)
  BY DEF Defines
<1>2. ASSUME NEW d \in 0 .. n + 1 PROVE g[d] = Rhs(g[d - 1], d)
  <2>1. CASE d = 0
    <3>1. g[d] = Rhs(f[d - 1], 0)
      BY <1>1, <2>1
    <3> HIDE DEF g
    <3> QED
      BY <2>1, <3>1
  <2>2. CASE d \in 1 .. n
    <3>1. g[d] = f[d] /\ g[d - 1] = f[d - 1]
      BY <2>2
    <3> QED
      BY <1>1, <2>2, <3>1
  <2>3. CASE d = n + 1
    <3>1. g[d] = Rhs(f[n], d) /\ g[n] = f[n] /\ d - 1 = n
      BY <2>3
    <3> QED
      BY <3>1
  <2> QED
    BY <2>1, <2>2, <2>3
<1>3. g = [d \in 0 .. n + 1 |-> g[d]]
  OBVIOUS
<1> HIDE DEF g
<1>4. g = [d \in 0 .. n + 1 |-> Rhs(g[d - 1], d)]
  BY <1>2, <1>3
<1> QED
  BY <1>4 DEF Defines

\* A function that is given at 0 and otherwise by its value one below exists, up
\* to every number: the least number it did not exist for would be 1 above one
\* it exists for. The compiler's functions of the depth (gen_expr, gen_stmt,
\* semantic_check, the grammar's actions) are defined that way.
THEOREM Exists ==
  ASSUME N \in Nat, \A x, y : Rhs(x, 0) = Rhs(y, 0)
  PROVE  \E f : f = [d \in 0 .. N |-> Rhs(f[d - 1], d)]
<1> DEFINE T == {n \in Nat : ~ \E f : Defines(f, n)}
<1>1. 0 \notin T
  <2> DEFINE f == [d \in 0 .. 0 |-> Rhs(0, 0)]
  <2>1. \A d \in 0 .. 0 : f[d] = Rhs(f[d - 1], d)
    <3>1. \A d \in 0 .. 0 : d = 0 /\ f[d] = Rhs(0, 0)
      OBVIOUS
    <3> HIDE DEF f
    <3> QED
      BY <3>1
  <2>2. f = [d \in 0 .. 0 |-> f[d]]
    OBVIOUS
  <2> HIDE DEF f
  <2>3. Defines(f, 0)
    BY <2>1, <2>2 DEF Defines
  <2> QED
    BY <2>3
<1>2. T = {}
  <2> SUFFICES ASSUME T # {} PROVE FALSE
    OBVIOUS
  <2>1. PICK n \in T : \A k \in T : n <= k
    BY LeastNumber
  <2>2. n - 1 \in Nat /\ (n - 1) + 1 = n /\ ~ (n <= n - 1)
    BY <1>1
  <2>3. PICK f : Defines(f, n - 1)
    BY <2>1, <2>2
  <2>4. \E g : Defines(g, (n - 1) + 1)
    BY <2>2, <2>3, Extended
  <2> QED
    BY <2>2, <2>4
<1>3. N \notin T
  BY <1>2
<1> QED
  BY <1>3 DEF Defines
===============================================================================
