---------------------------- MODULE CompilerProofs ----------------------------
(***************************************************************************)
(* The compiler and the sessions of compiler and machine, for every source *)
(* of any depth, whatever was compiled before: which sources are accepted, *)
(* that the code of a source leaves the stack as it should, that every     *)
(* jump goes to a label, that nothing of earlier files shows in it; and    *)
(* what the scanner keeps from one file to the next.                       *)
(***************************************************************************)
EXTENDS CompiledPrograms, FiniteSetTheorems, SequenceTheorems, TLAPS

\* A set of numbers that is not empty has a least one.
LEMMA LeastElement ==
  ASSUME NEW T, T \subseteq Nat, T # {} PROVE \E n \in T : \A k \in T : n <= k
<1>1. IsWellFoundedOn(OpToRel(<, Nat), Nat)
  BY NatLessThanWellFounded
<1>2. PICK n \in T : \A k \in T : <<k, n>> \notin OpToRel(<, Nat)
  BY <1>1, WFMin
<1>3. \A k, m \in Nat : k < m => <<k, m>> \in OpToRel(<, Nat)
  BY DEF OpToRel
<1>4. ASSUME NEW k \in T PROVE n <= k
  <2>1. k \in Nat /\ n \in Nat /\ ~ (k < n)
    BY <1>2, <1>3
  <2> QED
    BY <2>1
<1> QED
  BY <1>4

\* label_map has the index of the label itself (ir_resolve_labels).
LEMMA LabelMap ==
  ASSUME NEW ir, Linkable(ir), NEW id \in LabelIds(ir)
  PROVE  /\ label_map(ir)[id] \in 0 .. Len(ir) - 1
         /\ IsLabel(ir[label_map(ir)[id] + 1])
         /\ ir[label_map(ir)[id] + 1].value = id
<1> DEFINE At(i) == /\ IsLabel(ir[i + 1]) /\ ir[i + 1].value = id
                    /\ \A j \in i + 2 .. Len(ir) : ~ (IsLabel(ir[j]) /\ ir[j].value = id)
<1>1. PICK k \in DOMAIN ir : IsLabel(ir[k]) /\ ir[k].value = id
  BY DEF LabelIds
<1>2. DOMAIN ir = 1 .. Len(ir) /\ Len(ir) \in Nat
  BY DEF Linkable
<1>3. k - 1 \in 0 .. Len(ir) - 1 /\ (k - 1) + 1 = k
  BY <1>2
<1>4. \A j \in (k - 1) + 2 .. Len(ir) : j \in DOMAIN ir /\ j # k
  BY <1>2
<1>5. \A j \in (k - 1) + 2 .. Len(ir) : ~ (IsLabel(ir[j]) /\ ir[j].value = id)
  BY <1>1, <1>4 DEF Linkable
<1>6. At(k - 1)
  BY <1>1, <1>3, <1>5
<1>7. label_map(ir)[id] = CHOOSE i \in 0 .. Len(ir) - 1 : At(i)
  BY DEF label_map
<1> HIDE DEF At
<1>8. label_map(ir)[id] \in 0 .. Len(ir) - 1 /\ At(label_map(ir)[id])
  BY <1>3, <1>6, <1>7
<1> QED
  BY <1>8 DEF At

\* Resolving changes the values of jumps and nothing else, and a jump gets the
\* index of the label it named (ir_resolve_labels).
THEOREM JumpsReachTheirLabels ==
  ASSUME NEW ir, Linkable(ir)
  PROVE  LET linked == ir_resolve_labels(ir)
         IN  /\ DOMAIN linked = DOMAIN ir
             /\ \A i \in DOMAIN ir :
                  /\ linked[i].op = ir[i].op /\ linked[i].name = ir[i].name
                  /\ linked[i].line = ir[i].line
                  /\ ~ IsJump(ir[i]) => linked[i] = ir[i]
                  /\ IsJump(ir[i]) => /\ linked[i].value \in 0 .. Len(ir) - 1
                                      /\ IsLabel(linked[linked[i].value + 1])
                                      /\ linked[linked[i].value + 1].value = ir[i].value
<1> DEFINE linked == ir_resolve_labels(ir)
<1>1. DOMAIN linked = DOMAIN ir /\ DOMAIN ir = 1 .. Len(ir) /\ Len(ir) \in Nat
  BY DEF ir_resolve_labels, Linkable
<1>2. ASSUME NEW i \in DOMAIN ir, ~ IsJump(ir[i])
      PROVE  linked[i] = ir[i]
  BY <1>2 DEF ir_resolve_labels
<1>3. ASSUME NEW i \in DOMAIN ir, IsJump(ir[i])
      PROVE  linked[i] = [ir[i] EXCEPT !.value = label_map(ir)[ir[i].value]]
  BY <1>3 DEF ir_resolve_labels, Linkable
<1>4. \A i \in DOMAIN ir : ir[i] \in IRInstr
  BY <1>1 DEF Linkable
<1>5. ASSUME NEW i \in DOMAIN ir
      PROVE  /\ linked[i].op = ir[i].op /\ linked[i].name = ir[i].name
             /\ linked[i].line = ir[i].line
  BY <1>2, <1>3, <1>4 DEF IRInstr
<1>6. ASSUME NEW i \in DOMAIN ir, IsJump(ir[i])
      PROVE  /\ linked[i].value \in 0 .. Len(ir) - 1
             /\ IsLabel(linked[linked[i].value + 1])
             /\ linked[linked[i].value + 1].value = ir[i].value
  <2> DEFINE t == label_map(ir)[ir[i].value]
  <2>1. linked[i].value = t
    BY <1>3, <1>4, <1>6 DEF IRInstr
  <2>2. /\ t \in 0 .. Len(ir) - 1
        /\ IsLabel(ir[t + 1])
        /\ ir[t + 1].value = ir[i].value
    BY <1>6, LabelMap DEF Linkable
  <2>3. t + 1 \in DOMAIN ir
    BY <1>1, <2>2
  <2>4. ~ IsJump(ir[t + 1])
    BY <2>2 DEF IsLabel, IsJump
  <2>5. linked[t + 1] = ir[t + 1]
    BY <1>2, <2>3, <2>4
  <2> QED
    BY <2>1, <2>2, <2>5
<1> QED
  BY <1>1, <1>2, <1>5, <1>6

\* Resolved linked is what the virtual machine takes for granted: every jump stays
\* inside it (the assumption of module VM on the linked a Program can have).
THEOREM ResolvedCodeIsLinked ==
  ASSUME NEW ir, Linkable(ir)
  PROVE  Linked(ir_resolve_labels(ir))
<1> DEFINE linked == ir_resolve_labels(ir)
<1>1. /\ DOMAIN linked = DOMAIN ir
      /\ \A i \in DOMAIN ir :
           /\ linked[i].op = ir[i].op
           /\ ~ IsJump(ir[i]) => linked[i] = ir[i]
           /\ IsJump(ir[i]) => linked[i].value \in 0 .. Len(ir) - 1
  BY JumpsReachTheirLabels
<1>2. /\ ir \in Seq(IRInstr) /\ DOMAIN ir = 1 .. Len(ir) /\ Len(ir) \in Nat
      /\ \A i \in DOMAIN ir : ir[i] \in IRInstr
  BY DEF Linkable
<1>3. ASSUME NEW i \in DOMAIN ir
      PROVE  linked[i] \in IRInstr
  <2>1. CASE ~ IsJump(ir[i])
    BY <1>1, <1>2, <2>1
  <2>2. CASE IsJump(ir[i])
    <3>1. ir[i].value \in LabelIds(ir)
      BY <2>2 DEF Linkable
    <3>2. linked[i] = [ir[i] EXCEPT !.value = label_map(ir)[ir[i].value]]
      BY <2>2, <3>1 DEF ir_resolve_labels
    <3>3. label_map(ir)[ir[i].value] \in Int
      BY <1>2, <3>1, LabelMap
    <3> QED
      BY <1>2, <3>2, <3>3 DEF IRInstr
  <2> QED
    BY <2>1, <2>2
<1>4. linked = [i \in 1 .. Len(ir) |-> linked[i]]
  BY <1>2 DEF ir_resolve_labels
<1>5. linked \in Seq(IRInstr) /\ Len(linked) = Len(ir)
  BY <1>2, <1>3, <1>4
<1>6. ASSUME NEW i \in DOMAIN linked
      PROVE  /\ IsJump(linked[i]) => linked[i].value \in 0 .. Len(linked) - 1
             /\ linked[i].op = "LOAD_CONST" => linked[i].value \in Ints
  <2>1. i \in DOMAIN ir /\ linked[i].op = ir[i].op
    BY <1>1
  <2>2. IsJump(linked[i]) => linked[i].value \in 0 .. Len(linked) - 1
    BY <1>1, <1>5, <2>1 DEF IsJump
  <2>3. ASSUME linked[i].op = "LOAD_CONST" PROVE linked[i].value \in Ints
    <3>1. ir[i].op = "LOAD_CONST" /\ ~ IsJump(ir[i])
      BY <2>1, <2>3 DEF IsJump
    <3>2. linked[i] = ir[i]
      BY <1>1, <2>1, <3>1
    <3> QED
      BY <2>1, <3>1, <3>2 DEF Linkable
  <2> QED
    BY <2>2, <2>3
<1> QED
  BY <1>5, <1>6 DEF Linked

(***************************************************************************)
(* The scanner.                                                            *)
(***************************************************************************)

Pieces == UNION {{f[n] : n \in DOMAIN f} : f \in Files}

\* The end of a file waits to be reported only when everything was given out.
ScannerInv ==
  /\ buffer \in Seq(Pieces)
  /\ eof_pending \in BOOLEAN
  /\ file \in Files
  /\ compilations \in Nat
  /\ eof_pending => buffer = << >>

\* Least is that number.
LEMMA LeastIs ==
  ASSUME NEW T, T \subseteq Nat, T # {}
  PROVE  Least(T) \in T /\ \A k \in T : Least(T) <= k
<1>1. \E n \in T : \A k \in T : n <= k
  BY LeastElement
<1> QED
  BY <1>1 DEF Least

\* A file is a sequence of statements and errors.
LEMMA FilesAreSequences ==
  ASSUME NEW f \in Files PROVE f \in Seq(Pieces)
<1>1. {f[n] : n \in DOMAIN f} \subseteq Pieces
  BY DEF Pieces
<1>2. f \in Seq({f[n] : n \in DOMAIN f})
  BY ScannerAssumption
<1> QED
  BY <1>1, <1>2

\* The parser was given piece n of the content: how much was read for it.
LEMMA ReadForIs ==
  ASSUME buffer \in Seq(Pieces), NEW content \in Seq(Pieces), Len(buffer) <= Len(content),
         NEW n \in 1 .. Len(content)
  PROVE  /\ ReadFor(content, n) \in Len(buffer) .. Len(content)
         /\ n <= ReadFor(content, n)
         /\ n <= Len(buffer) => ReadFor(content, n) = Len(buffer)
<1> DEFINE b == Len(buffer)
           m == Len(content)
           T == {k \in {b + c * CHUNK : c \in 0 .. m} \cup {m} : n <= k /\ b <= k}
<1>1. b \in Nat /\ m \in Nat /\ b <= m /\ n \in 1 .. m /\ CHUNK \in Nat
  BY ScannerAssumption
<1>2. ReadFor(content, n) = Least(T)
  BY DEF ReadFor
<1> HIDE DEF b, m
<1>3. T \subseteq Nat /\ m \in T
  BY <1>1
<1>4. n <= b => b \in T
  <2>1. b + 0 * CHUNK = b /\ 0 \in 0 .. m
    BY <1>1
  <2> QED
    BY <1>1, <2>1
<1>5. \A k \in T : n <= k /\ b <= k
  OBVIOUS
<1> HIDE DEF T
<1>6. Least(T) \in T /\ \A k \in T : Least(T) <= k
  BY <1>3, LeastIs
<1>7. /\ Least(T) \in b .. m /\ n <= Least(T)
      /\ n <= b => Least(T) = b
  <2> DEFINE r == Least(T)
  <2> HIDE DEF r
  <2>1. r \in T /\ \A k \in T : r <= k
    BY <1>6 DEF r
  <2>2. r \in Nat /\ n <= r /\ b <= r /\ r <= m
    BY <1>3, <1>5, <2>1
  <2>3. n <= b => r <= b
    BY <1>4, <2>1
  <2> QED
    BY <1>1, <2>2, <2>3 DEF r
<1> QED
  BY <1>2, <1>7 DEF b, m

\* The piece at which the parser gives up
ErrorAt(f) == Least(ErrorsIn(Content(f)))

\* The pieces r may be read of the content when the parser gives up at e
KeptBehind(content, e) ==
  \E r \in Len(buffer) .. Len(content) :
    /\ e <= r
    /\ r = Len(buffer) \/ Len(buffer) <= e
    /\ buffer' = SubSeq(content, e + 1, r)

\* What a rejected file leaves: nothing, or what was read behind the error.
LEMMA RejectsKeeps ==
  ASSUME ScannerInv, NEW f \in Files, Rejects(f)
  PROVE  /\ Content(f) = buffer \o f /\ Content(f) \in Seq(Pieces)
         /\ ErrorAt(f) \in 1 .. Len(Content(f)) /\ ErrorAt(f) \in ErrorsIn(Content(f))
         /\ \/ buffer' = << >> /\ eof_pending' = TRUE
            \/ KeptBehind(Content(f), ErrorAt(f)) /\ eof_pending' = FALSE
<1> DEFINE content == Content(f)
           e == ErrorAt(f)
           b == Len(buffer)
           m == Len(content)
<1>1. buffer \in Seq(Pieces) /\ f \in Seq(Pieces) /\ ErrorsIn(content) # {}
  BY FilesAreSequences DEF ScannerInv, Rejects
<1>2. eof_pending = FALSE
  <2>1. eof_pending => ErrorsIn(content) = {}
    BY DEF ScannerInv, Content, ErrorsIn
  <2> QED
    BY <1>1, <2>1 DEF ScannerInv
<1>3. content = buffer \o f /\ content \in Seq(Pieces) /\ b \in Nat /\ m \in Nat /\ b <= m
  BY <1>1, <1>2 DEF Content
<1>4. ErrorsIn(content) \subseteq 1 .. m
  BY <1>3 DEF ErrorsIn
<1>5. e \in ErrorsIn(content)
  <2>1. ErrorsIn(content) \subseteq Nat
    BY <1>3, <1>4
  <2> QED
    BY <1>1, <2>1, LeastIs DEF ErrorAt
<1>6. /\ ReadFor(content, e) \in b .. m /\ e <= ReadFor(content, e)
      /\ e <= b => ReadFor(content, e) = b
  BY <1>1, <1>3, <1>4, <1>5, ReadForIs
<1>7. e + 1 <= m => ReadFor(content, e + 1) \in b .. m /\ e < ReadFor(content, e + 1)
  <2> SUFFICES ASSUME e + 1 <= m PROVE ReadFor(content, e + 1) \in b .. m /\ e < ReadFor(content, e + 1)
    OBVIOUS
  <2>1. PICK k \in 1 .. m : k = e + 1
    BY <1>4, <1>5
  <2>2. ReadFor(content, k) \in b .. m /\ k <= ReadFor(content, k)
    BY <1>1, <1>3, ReadForIs
  <2> QED
    BY <1>3, <1>4, <1>5, <2>1, <2>2
<1>8. \/ buffer' = SubSeq(content, e + 1, ReadFor(content, e)) /\ eof_pending' = FALSE
      \/ /\ e = ReadFor(content, e)
         /\ IF e = m THEN buffer' = << >>
            ELSE buffer' = SubSeq(content, e + 1, ReadFor(content, e + 1))
         /\ eof_pending' = (e = m)
  BY DEF Rejects, Leftover, ErrorAt
<1> HIDE DEF content, e
<1>9. e \in 1 .. m
  BY <1>4, <1>5
<1>10. CASE buffer' = SubSeq(content, e + 1, ReadFor(content, e)) /\ eof_pending' = FALSE
  <2>1. ReadFor(content, e) = b \/ b <= e
    BY <1>3, <1>6, <1>9
  <2> QED
    BY <1>3, <1>5, <1>6, <1>9, <1>10, <2>1 DEF content, e, KeptBehind
<1>11. CASE e = ReadFor(content, e) /\ e = m /\ buffer' = << >> /\ eof_pending' = (e = m)
  <2>1. eof_pending' = TRUE
    BY <1>11
  <2> QED
    BY <1>3, <1>5, <1>9, <1>11, <2>1 DEF content, e
<1>12. CASE /\ e = ReadFor(content, e) /\ e # m /\ eof_pending' = (e = m)
            /\ buffer' = SubSeq(content, e + 1, ReadFor(content, e + 1))
  <2>1. eof_pending' = FALSE
    BY <1>12
  <2>2. b <= e /\ e + 1 <= m
    <3>1. b <= ReadFor(content, e) /\ ReadFor(content, e) = e /\ e # m
      BY <1>3, <1>6, <1>12
    <3> QED
      BY <1>3, <1>9, <3>1
  <2>3. ReadFor(content, e + 1) \in b .. m /\ e <= ReadFor(content, e + 1)
    BY <1>3, <1>7, <1>9, <2>2
  <2> QED
    BY <1>3, <1>5, <1>9, <1>12, <2>1, <2>2, <2>3 DEF content, e, KeptBehind
<1> QED
  BY <1>8, <1>10, <1>11, <1>12

\* What is kept are pieces of the content.
LEMMA Kept ==
  ASSUME NEW content \in Seq(Pieces), NEW e \in 1 .. Len(content), NEW r \in Nat, r <= Len(content)
  PROVE  /\ SubSeq(content, e + 1, r) \in Seq(Pieces)
         /\ Len(SubSeq(content, e + 1, r)) = IF e < r THEN r - e ELSE 0
         /\ \A k \in 1 .. r - e : SubSeq(content, e + 1, r)[k] = content[e + k]
<1>1. PICK a \in Int : a = e + 1
  OBVIOUS
<1>2. \A k \in a .. r : content[k] \in Pieces
  BY <1>1
<1>3. /\ SubSeq(content, a, r) \in Seq(Pieces)
      /\ Len(SubSeq(content, a, r)) = IF a <= r THEN r - a + 1 ELSE 0
      /\ \A k \in 1 .. r - a + 1 : SubSeq(content, a, r)[k] = content[a + k - 1]
  BY <1>2, SubSeqProperties
<1>4. /\ SubSeq(content, e + 1, r) \in Seq(Pieces)
      /\ Len(SubSeq(content, e + 1, r)) = IF a <= r THEN r - a + 1 ELSE 0
      /\ \A k \in 1 .. r - a + 1 : SubSeq(content, e + 1, r)[k] = content[a + k - 1]
  BY ONLY <1>1, <1>3, Zenon
<1>5. e \in Int /\ r \in Int
  OBVIOUS
<1>6. r - a + 1 = r - e /\ (a <= r <=> e < r) /\ \A k \in 1 .. r - e : a + k - 1 = e + k
  BY ONLY <1>1, <1>5
<1>7. Len(SubSeq(content, e + 1, r)) = IF e < r THEN r - e ELSE 0
  BY ONLY <1>4, <1>6
<1>8. ASSUME NEW k \in 1 .. r - e PROVE SubSeq(content, e + 1, r)[k] = content[e + k]
  <2>1. k \in 1 .. r - a + 1 /\ a + k - 1 = e + k
    BY ONLY <1>6, k \in 1 .. r - e, Zenon
  <2> QED
    BY ONLY <1>4, <2>1, Zenon
<1> QED
  BY ONLY <1>4, <1>7, <1>8, Zenon

\* The scanner's invariant holds before the first file.
LEMMA ScannerStarts == ScannerInit => ScannerInv
<1> SUFFICES ASSUME ScannerInit PROVE ScannerInv
  OBVIOUS
<1>1. buffer \in Seq(Pieces) /\ compilations \in Nat
  BY DEF ScannerInit
<1>2. file \in Files /\ eof_pending \in BOOLEAN /\ (eof_pending => buffer = << >>)
  BY ScannerAssumption, Zenon DEF ScannerInit
<1> QED
  BY <1>1, <1>2 DEF ScannerInv

\* Every compilation keeps it.
LEMMA ScannerStep ==
  ScannerInv /\ [ScannerNext]_scanner => ScannerInv'
<1> SUFFICES ASSUME ScannerInv, [ScannerNext]_scanner PROVE ScannerInv'
  OBVIOUS
<1>1. CASE UNCHANGED scanner
  BY <1>1 DEF scanner, ScannerInv
<1>2. CASE NotOpened
  BY <1>2, ScannerAssumption DEF NotOpened, Compiled, ScannerInv
<1>3. ASSUME NEW f \in Files, Parses(f) PROVE ScannerInv'
  <2>1. file' \in Files /\ compilations' \in Nat
    BY <1>3 DEF Parses, Compiled, ScannerInv
  <2>2. CASE Accepts(f)
    <3>1. buffer' = << >> /\ eof_pending' = FALSE
      BY <2>2 DEF Accepts
    <3>2. buffer' \in Seq(Pieces)
      BY <3>1
    <3> QED
      BY <2>1, <3>1, <3>2, Zenon DEF ScannerInv
  <2>3. CASE Rejects(f)
    <3> DEFINE content == Content(f)
               e == ErrorAt(f)
    <3>1. content \in Seq(Pieces) /\ e \in 1 .. Len(content)
      BY <2>3, RejectsKeeps
    <3>2. \/ buffer' = << >> /\ eof_pending' = TRUE
          \/ KeptBehind(content, e) /\ eof_pending' = FALSE
      BY <2>3, RejectsKeeps
    <3> HIDE DEF content, e
    <3>3. buffer' \in Seq(Pieces)
      <4>1. CASE buffer' = << >>
        BY <4>1
      <4>2. CASE KeptBehind(content, e)
        <5>1. PICK r \in Len(buffer) .. Len(content) : buffer' = SubSeq(content, e + 1, r)
          BY <4>2 DEF KeptBehind
        <5>2. r \in Nat /\ r <= Len(content)
          BY <3>1, <5>1 DEF ScannerInv
        <5> QED
          BY <3>1, <5>1, <5>2, Kept
      <4> QED
        BY <3>2, <4>1, <4>2
    <3> QED
      BY <2>1, <3>2, <3>3 DEF ScannerInv
  <2> QED
    BY <1>3, <2>2, <2>3 DEF Parses
<1> QED
  BY <1>1, <1>2, <1>3 DEF ScannerNext

\* It holds always.
LEMMA ScannerInvariant ==
  ScannerSpec => []ScannerInv
BY ScannerStarts, ScannerStep, PTL DEF ScannerSpec

\* The errors of a text can be counted.
LEMMA ErrorsAreFinite ==
  ASSUME NEW s \in Seq(Pieces)
  PROVE  IsFiniteSet(ErrorsIn(s)) /\ Cardinality(ErrorsIn(s)) \in Nat
<1>1. ErrorsIn(s) \subseteq 1 .. Len(s) /\ Len(s) \in Int
  BY DEF ErrorsIn
<1>2. 1 \in Int /\ IsFiniteSet(1 .. Len(s))
  BY <1>1, FS_Interval
<1>3. IsFiniteSet(ErrorsIn(s))
  BY ONLY <1>1, <1>2, FS_Subset
<1> QED
  BY <1>3, FS_CardinalityType

\* Behind an error there is one error less.
LEMMA OneErrorLess ==
  ASSUME NEW s \in Seq(Pieces), NEW e \in ErrorsIn(s), NEW rest \in Seq(Pieces),
         Len(rest) = Len(s) - e, \A k \in 1 .. Len(s) - e : rest[k] = s[e + k]
  PROVE  Cardinality(ErrorsIn(rest)) < Cardinality(ErrorsIn(s))
<1> DEFINE S == ErrorsIn(rest)
           T == ErrorsIn(s) \ {e}
           shift == [k \in S |-> e + k]
<1>1. e \in 1 .. Len(s) /\ S \subseteq 1 .. Len(s) - e
  BY DEF ErrorsIn
<1>2. ASSUME NEW k \in S PROVE e + k \in T
  <2>1. k \in 1 .. Len(s) - e /\ rest[k] = s[e + k] /\ SyntaxError(rest[k])
    BY <1>1 DEF ErrorsIn
  <2>2. e + k \in 1 .. Len(s) /\ e + k # e
    BY <1>1, <2>1
  <2> QED
    BY <2>1, <2>2 DEF ErrorsIn
<1>3. shift \in Injection(S, T)
  <2>1. shift \in [S -> T]
    BY <1>2
  <2>2. \A k, l \in S : shift[k] = shift[l] => k = l
    BY <1>1
  <2> HIDE DEF shift, S, T
  <2> QED
    BY <2>1, <2>2 DEF Injection, IsInjective
<1>4. IsFiniteSet(T) /\ Cardinality(T) = Cardinality(ErrorsIn(s)) - 1 /\ Cardinality(ErrorsIn(s)) \in Nat
  BY ErrorsAreFinite, FS_RemoveElement
<1>5. Cardinality(S) <= Cardinality(T)
  <2> HIDE DEF shift, S, T
  <2> QED
    BY <1>3, <1>4, FS_Injection
<1>6. Cardinality(S) \in Nat
  BY ErrorsAreFinite
<1> QED
  BY <1>4, <1>5, <1>6

\* A rejected file without errors of its own takes one from the scanner.
LEMMA RejectedHeals ==
  ASSUME ScannerInv, NEW f \in Files, Rejects(f), ErrorsIn(f) = {}
  PROVE  Cardinality(ErrorsIn(buffer')) < Cardinality(ErrorsIn(buffer))
<1> DEFINE b == Len(buffer)
           m == Len(Content(f))
           e == ErrorAt(f)
<1>1. /\ Content(f) = buffer \o f /\ Content(f) \in Seq(Pieces) /\ e \in 1 .. m
      /\ e \in ErrorsIn(Content(f))
      /\ \/ buffer' = << >> /\ eof_pending' = TRUE
         \/ KeptBehind(Content(f), e) /\ eof_pending' = FALSE
  BY RejectsKeeps
<1>2. buffer \in Seq(Pieces) /\ f \in Seq(Pieces)
  BY FilesAreSequences DEF ScannerInv
<1>3. /\ b \in Nat /\ m = b + Len(f) /\ Len(f) \in Nat
      /\ \A k \in 1 .. b : Content(f)[k] = buffer[k]
      /\ \A k \in 1 .. Len(f) : Content(f)[b + k] = f[k]
  BY <1>1, <1>2
\* The file has no error: the one that was found is in the buffer.
<1>4. \A k \in 1 .. m : k > b => ~ SyntaxError(Content(f)[k])
  <2> SUFFICES ASSUME NEW k \in 1 .. m, k > b PROVE ~ SyntaxError(Content(f)[k])
    OBVIOUS
  <2>1. PICK l \in 1 .. Len(f) : b + l = k
    <3>1. k - b \in 1 .. Len(f) /\ b + (k - b) = k
      BY <1>3
    <3> QED
      BY <3>1
  <2>2. Content(f)[k] = f[l] /\ l \in DOMAIN f
    BY <1>2, <1>3, <2>1
  <2> QED
    BY <2>2 DEF ErrorsIn
<1>5. e \in 1 .. b /\ e \in ErrorsIn(buffer)
  <2>1. SyntaxError(Content(f)[e])
    BY <1>1 DEF ErrorsIn
  <2>2. e \in 1 .. b
    <3>1. ~ (e > b)
      BY <1>1, <1>4, <2>1
    <3> HIDE DEF e, b, m
    <3> QED
      BY <1>1, <1>3, <3>1
  <2>3. SyntaxError(buffer[e]) /\ e \in DOMAIN buffer
    BY <1>2, <1>3, <2>1, <2>2
  <2> QED
    BY <2>2, <2>3 DEF ErrorsIn
<1>6. Cardinality(ErrorsIn(buffer)) \in Nat \ {0}
  <2>1. IsFiniteSet(ErrorsIn(buffer)) /\ Cardinality(ErrorsIn(buffer)) \in Nat
    BY <1>2, ErrorsAreFinite
  <2> QED
    BY <1>5, <2>1, FS_EmptySet
<1>7. ASSUME NEW s, ErrorsIn(s) = {}, s = buffer' PROVE Cardinality(ErrorsIn(buffer')) < Cardinality(ErrorsIn(buffer))
  <2>1. ErrorsIn(buffer') = {}
    BY <1>7
  <2> QED
    BY <1>6, <2>1, FS_EmptySet
<1>8. CASE buffer' = << >>
  <2>1. ErrorsIn(<< >>) = {}
    BY DEF ErrorsIn
  <2> QED
    BY <1>7, <1>8, <2>1
<1>9. CASE KeptBehind(Content(f), e)
  <2>1. PICK r \in b .. m : /\ e <= r
                            /\ r = b \/ b <= e
                            /\ buffer' = SubSeq(Content(f), e + 1, r)
    BY <1>9 DEF KeptBehind
  <2> DEFINE rest == SubSeq(Content(f), e + 1, r)
  <2>2. r \in Nat /\ r <= m
    BY <1>3, <2>1
  <2>3. /\ rest \in Seq(Pieces) /\ Len(rest) = IF e < r THEN r - e ELSE 0
        /\ \A k \in 1 .. r - e : rest[k] = Content(f)[e + k]
    BY <1>1, <2>2, Kept
  <2>4. buffer' = rest
    BY <2>1
  <2> HIDE DEF rest
  <2>5. CASE r = b
    <3>1. Len(rest) = b - e /\ \A k \in 1 .. b - e : rest[k] = buffer[e + k]
      <4>1. Len(rest) = b - e
        BY <1>3, <1>5, <2>3, <2>5
      <4>2. ASSUME NEW k \in 1 .. b - e PROVE rest[k] = buffer[e + k]
        <5>1. e + k \in 1 .. b /\ k \in 1 .. r - e
          BY <1>3, <1>5, <2>5
        <5> QED
          BY <1>3, <2>3, <5>1
      <4> QED
        BY <4>1, <4>2
    <3> QED
      BY <1>2, <1>5, <2>3, <2>4, <3>1, OneErrorLess
  <2>6. CASE b <= e
    <3>1. ErrorsIn(rest) = {}
      <4> SUFFICES ASSUME NEW k \in ErrorsIn(rest) PROVE FALSE
        OBVIOUS
      <4>1. k \in 1 .. r - e /\ SyntaxError(rest[k])
        BY <1>1, <2>2, <2>3 DEF ErrorsIn
      <4>2. SyntaxError(Content(f)[e + k])
        BY <2>3, <4>1
      <4>3. PICK l \in 1 .. m : l = e + k /\ l > b
        <5> HIDE DEF e, b, m
        <5>1. e + k \in 1 .. m /\ e + k > b
          BY <1>1, <1>3, <2>2, <2>6, <4>1
        <5> QED
          BY <5>1
      <4> QED
        BY <1>4, <4>2, <4>3
    <3> QED
      BY <1>7, <2>4, <3>1
  <2> QED
    BY <2>1, <2>5, <2>6
<1> QED
  BY <1>1, <1>8, <1>9

\* A file without syntax errors cleans the scanner or takes an error out of it,
\* whatever was compiled before (yyparse, parse_source).
THEOREM FilesHeal == ScannerSpec => CorrectFilesHeal
<1>1. ASSUME ScannerInv, ScannerNext, Parses(file'), ErrorsIn(file') = {}
      PROVE  ScannerIsFresh' \/ Cardinality(ErrorsIn(buffer')) < Cardinality(ErrorsIn(buffer))
  <2>1. file' \in Files
    BY <1>1, ScannerAssumption DEF ScannerNext, NotOpened, Parses, Compiled
  <2>2. CASE Accepts(file')
    BY <2>2 DEF Accepts, ScannerIsFresh
  <2>3. CASE Rejects(file')
    BY <1>1, <2>1, <2>3, RejectedHeals
  <2> QED
    BY <1>1, <2>2, <2>3 DEF Parses
<1>2. ScannerSpec => []ScannerInv
  BY ScannerInvariant
<1> QED
  BY <1>1, <1>2, PTL DEF ScannerSpec, CorrectFilesHeal

(***************************************************************************)
(* The recursive functions are what their equations say.                   *)
(***************************************************************************)

ExpressionsAt(S, d) == IF d = 0 THEN {} ELSE Expression(S)
ExpressionsExist == INSTANCE Recursion WITH Rhs <- ExpressionsAt, N <- MAX_DEPTH

\* The sets of expressions and statements are what their equations say ...
LEMMA ExpressionsAre ==
  \A d \in Depths : Expressions[d] = IF d = 0 THEN {} ELSE Expression(Expressions[d - 1])
<1> DEFINE F == CHOOSE f : f = [d \in Depths |-> IF d = 0 THEN {} ELSE Expression(f[d - 1])]
<1>1. MAX_DEPTH \in Nat /\ \A x, y : ExpressionsAt(x, 0) = ExpressionsAt(y, 0)
  BY SourceAssumption DEF ExpressionsAt
<1>2. \E f : f = [d \in Depths |-> ExpressionsAt(f[d - 1], d)]
  BY <1>1, ExpressionsExist!Exists DEF Depths
<1>3. F = [d \in Depths |-> IF d = 0 THEN {} ELSE Expression(F[d - 1])]
  BY <1>2 DEF ExpressionsAt
<1>4. Expressions = [d \in Depths |-> F[d]]
  BY DEF Expressions
<1> HIDE DEF F
<1>5. ASSUME NEW d \in Depths, d # 0 PROVE Expressions[d - 1] = F[d - 1]
  <2>1. d - 1 \in Depths
    BY <1>5, SourceAssumption DEF Depths
  <2> QED
    BY <1>4, <2>1
<1> QED
  BY <1>3, <1>4, <1>5

StatementsAt(S, d) == IF d = 0 THEN {} ELSE Statement(Expressions[d - 1], S)
StatementsExist == INSTANCE Recursion WITH Rhs <- StatementsAt, N <- MAX_DEPTH

\* ... at every depth.
LEMMA StatementsAre ==
  \A d \in Depths : Statements[d] = IF d = 0 THEN {} ELSE Statement(Expressions[d - 1], Statements[d - 1])
<1> DEFINE F == CHOOSE f : f = [d \in Depths |-> IF d = 0 THEN {} ELSE Statement(Expressions[d - 1], f[d - 1])]
<1>1. MAX_DEPTH \in Nat /\ \A x, y : StatementsAt(x, 0) = StatementsAt(y, 0)
  BY SourceAssumption DEF StatementsAt
<1>2. \E f : f = [d \in Depths |-> StatementsAt(f[d - 1], d)]
  BY <1>1, StatementsExist!Exists DEF Depths
<1>3. F = [d \in Depths |-> IF d = 0 THEN {} ELSE Statement(Expressions[d - 1], F[d - 1])]
  BY <1>2 DEF StatementsAt
<1>4. Statements = [d \in Depths |-> F[d]]
  BY DEF Statements
<1> HIDE DEF F
<1>5. ASSUME NEW d \in Depths, d # 0 PROVE Statements[d - 1] = F[d - 1]
  <2>1. d - 1 \in Depths
    BY <1>5, SourceAssumption DEF Depths
  <2> QED
    BY <1>4, <2>1
<1> QED
  BY <1>3, <1>4, <1>5

ExprNodesAt(S, d) == IF d = 0 THEN {} ELSE ExprNode(S)
ExprNodesExist == INSTANCE Recursion WITH Rhs <- ExprNodesAt, N <- MAX_DEPTH

\* So are the sets of trees of expressions ...
LEMMA ExprNodesAre ==
  \A d \in Depths : ExprNodes[d] = IF d = 0 THEN {} ELSE ExprNode(ExprNodes[d - 1])
<1> DEFINE F == CHOOSE f : f = [d \in Depths |-> IF d = 0 THEN {} ELSE ExprNode(f[d - 1])]
<1>1. MAX_DEPTH \in Nat /\ \A x, y : ExprNodesAt(x, 0) = ExprNodesAt(y, 0)
  BY SourceAssumption DEF ExprNodesAt
<1>2. \E f : f = [d \in Depths |-> ExprNodesAt(f[d - 1], d)]
  BY <1>1, ExprNodesExist!Exists DEF Depths
<1>3. F = [d \in Depths |-> IF d = 0 THEN {} ELSE ExprNode(F[d - 1])]
  BY <1>2 DEF ExprNodesAt
<1>4. ExprNodes = [d \in Depths |-> F[d]]
  BY DEF ExprNodes
<1> HIDE DEF F
<1>5. ASSUME NEW d \in Depths, d # 0 PROVE ExprNodes[d - 1] = F[d - 1]
  <2>1. d - 1 \in Depths
    BY <1>5, SourceAssumption DEF Depths
  <2> QED
    BY <1>4, <2>1
<1> QED
  BY <1>3, <1>4, <1>5

StmtNodesAt(S, d) == IF d = 0 THEN {} ELSE StmtNode(ExprNodes[d - 1], S)
StmtNodesExist == INSTANCE Recursion WITH Rhs <- StmtNodesAt, N <- MAX_DEPTH

\* ... and of statements.
LEMMA StmtNodesAre ==
  \A d \in Depths : StmtNodes[d] = IF d = 0 THEN {} ELSE StmtNode(ExprNodes[d - 1], StmtNodes[d - 1])
<1> DEFINE F == CHOOSE f : f = [d \in Depths |-> IF d = 0 THEN {} ELSE StmtNode(ExprNodes[d - 1], f[d - 1])]
<1>1. MAX_DEPTH \in Nat /\ \A x, y : StmtNodesAt(x, 0) = StmtNodesAt(y, 0)
  BY SourceAssumption DEF StmtNodesAt
<1>2. \E f : f = [d \in Depths |-> StmtNodesAt(f[d - 1], d)]
  BY <1>1, StmtNodesExist!Exists DEF Depths
<1>3. F = [d \in Depths |-> IF d = 0 THEN {} ELSE StmtNode(ExprNodes[d - 1], F[d - 1])]
  BY <1>2 DEF StmtNodesAt
<1>4. StmtNodes = [d \in Depths |-> F[d]]
  BY DEF StmtNodes
<1> HIDE DEF F
<1>5. ASSUME NEW d \in Depths, d # 0 PROVE StmtNodes[d - 1] = F[d - 1]
  <2>1. d - 1 \in Depths
    BY <1>5, SourceAssumption DEF Depths
  <2> QED
    BY <1>4, <2>1
<1> QED
  BY <1>3, <1>4, <1>5

\* Nothing is of depth 0.
LEMMA NothingAtZero ==
  /\ 0 \in Depths
  /\ Expressions[0] = {} /\ Statements[0] = {} /\ ExprNodes[0] = {} /\ StmtNodes[0] = {}
<1>1. 0 \in Depths
  BY SourceAssumption DEF Depths
<1> QED
  BY <1>1, ExpressionsAre, StatementsAre, ExprNodesAre, StmtNodesAre

ExprAt(f, d) == [e \in Expressions[d] |-> [line \in Nat |-> Expr(f, e, line)]]
ExprExist == INSTANCE Recursion WITH Rhs <- ExprAt, N <- MAX_DEPTH

\* The grammar action for expressions is what its equation says.
LEMMA ExprIs ==
  \A d \in Depths : \A e \in Expressions[d], line \in Nat : expr[d][e][line] = Expr(expr[d - 1], e, line)
<1>1. MAX_DEPTH \in Nat /\ \A x, y : ExprAt(x, 0) = ExprAt(y, 0)
  BY SourceAssumption, NothingAtZero DEF ExprAt
<1>2. \E f : f = [d \in Depths |-> ExprAt(f[d - 1], d)]
  BY <1>1, ExprExist!Exists DEF Depths
<1>3. expr = [d \in Depths |-> ExprAt(expr[d - 1], d)]
  BY <1>2 DEF expr, ExprAt
<1>4. ASSUME NEW d \in Depths, NEW e \in Expressions[d], NEW line \in Nat PROVE expr[d][e][line] = Expr(expr[d - 1], e, line)
  <2>1. expr[d] = ExprAt(expr[d - 1], d)
    BY <1>3
  <2> QED
    BY <2>1 DEF ExprAt
<1> QED
  BY <1>4

LineAt(f, d) == [s \in Statements[d] |-> [next \in Nat |-> LineReached(f, s, next)]]
LineExist == INSTANCE Recursion WITH Rhs <- LineAt, N <- MAX_DEPTH

\* So is the line that is reached behind a statement ...
LEMMA LineIs ==
  \A d \in Depths : \A s \in Statements[d], next \in Nat : yylineno[d][s][next] = LineReached(yylineno[d - 1], s, next)
<1>1. MAX_DEPTH \in Nat /\ \A x, y : LineAt(x, 0) = LineAt(y, 0)
  BY SourceAssumption, NothingAtZero DEF LineAt
<1>2. \E f : f = [d \in Depths |-> LineAt(f[d - 1], d)]
  BY <1>1, LineExist!Exists DEF Depths
<1>3. yylineno = [d \in Depths |-> LineAt(yylineno[d - 1], d)]
  BY <1>2 DEF yylineno, LineAt
<1>4. ASSUME NEW d \in Depths, NEW s \in Statements[d], NEW next \in Nat PROVE yylineno[d][s][next] = LineReached(yylineno[d - 1], s, next)
  <2>1. yylineno[d] = LineAt(yylineno[d - 1], d)
    BY <1>3
  <2> QED
    BY <2>1 DEF LineAt
<1> QED
  BY <1>4

StmtAt(f, d) == [s \in Statements[d] |-> [next \in Nat |-> Stmt(d, f, s, next)]]
StmtExist == INSTANCE Recursion WITH Rhs <- StmtAt, N <- MAX_DEPTH

\* ... and the grammar action for statements,
LEMMA StmtIs ==
  \A d \in Depths : \A s \in Statements[d], next \in Nat : stmt[d][s][next] = Stmt(d, stmt[d - 1], s, next)
<1>1. MAX_DEPTH \in Nat /\ \A x, y : StmtAt(x, 0) = StmtAt(y, 0)
  BY SourceAssumption, NothingAtZero DEF StmtAt
<1>2. \E f : f = [d \in Depths |-> StmtAt(f[d - 1], d)]
  BY <1>1, StmtExist!Exists DEF Depths
<1>3. stmt = [d \in Depths |-> StmtAt(stmt[d - 1], d)]
  BY <1>2 DEF stmt, StmtAt
<1>4. ASSUME NEW d \in Depths, NEW s \in Statements[d], NEW next \in Nat PROVE stmt[d][s][next] = Stmt(d, stmt[d - 1], s, next)
  <2>1. stmt[d] = StmtAt(stmt[d - 1], d)
    BY <1>3
  <2> QED
    BY <2>1 DEF StmtAt
<1> QED
  BY <1>4

CheckAt(f, d) == [n \in ExprNodes[d] \cup StmtNodes[d] |-> [check \in Checks |-> semantic_check(f, n, check)]]
CheckExist == INSTANCE Recursion WITH Rhs <- CheckAt, N <- MAX_DEPTH

\* ... the semantic check,
LEMMA CheckIs ==
  \A d \in Depths : \A n \in ExprNodes[d] \cup StmtNodes[d], check \in Checks : check_node[d][n][check] = semantic_check(check_node[d - 1], n, check)
<1>1. MAX_DEPTH \in Nat /\ \A x, y : CheckAt(x, 0) = CheckAt(y, 0)
  BY SourceAssumption, NothingAtZero DEF CheckAt
<1>2. \E f : f = [d \in Depths |-> CheckAt(f[d - 1], d)]
  BY <1>1, CheckExist!Exists DEF Depths
<1>3. check_node = [d \in Depths |-> CheckAt(check_node[d - 1], d)]
  BY <1>2 DEF check_node, CheckAt
<1>4. ASSUME NEW d \in Depths, NEW n \in ExprNodes[d] \cup StmtNodes[d], NEW check \in Checks PROVE check_node[d][n][check] = semantic_check(check_node[d - 1], n, check)
  <2>1. check_node[d] = CheckAt(check_node[d - 1], d)
    BY <1>3
  <2> QED
    BY <2>1 DEF CheckAt
<1> QED
  BY <1>4

GenExprAt(f, d) == [n \in ExprNodes[d] |-> ExprCode(f, n)]
GenExprExist == INSTANCE Recursion WITH Rhs <- GenExprAt, N <- MAX_DEPTH

\* ... the code of an expression
LEMMA GenExprIs ==
  \A d \in Depths : \A n \in ExprNodes[d] : gen_expr[d][n] = ExprCode(gen_expr[d - 1], n)
<1>1. MAX_DEPTH \in Nat /\ \A x, y : GenExprAt(x, 0) = GenExprAt(y, 0)
  BY SourceAssumption, NothingAtZero DEF GenExprAt
<1>2. \E f : f = [d \in Depths |-> GenExprAt(f[d - 1], d)]
  BY <1>1, GenExprExist!Exists DEF Depths
<1>3. gen_expr = [d \in Depths |-> GenExprAt(gen_expr[d - 1], d)]
  BY <1>2 DEF gen_expr, GenExprAt
<1>4. ASSUME NEW d \in Depths, NEW n \in ExprNodes[d] PROVE gen_expr[d][n] = ExprCode(gen_expr[d - 1], n)
  <2>1. gen_expr[d] = GenExprAt(gen_expr[d - 1], d)
    BY <1>3
  <2> QED
    BY <2>1 DEF GenExprAt
<1> QED
  BY <1>4

GenNodeAt(f, d) == [n \in StmtNodes[d] |-> [l \in Nat |-> StmtCode(gen_expr[d - 1], f, n, l)]]
GenNodeExist == INSTANCE Recursion WITH Rhs <- GenNodeAt, N <- MAX_DEPTH

\* ... and that of a statement.
LEMMA GenNodeIs ==
  \A d \in Depths : \A n \in StmtNodes[d], l \in Nat : gen_node[d][n][l] = StmtCode(gen_expr[d - 1], gen_node[d - 1], n, l)
<1>1. MAX_DEPTH \in Nat /\ \A x, y : GenNodeAt(x, 0) = GenNodeAt(y, 0)
  BY SourceAssumption, NothingAtZero DEF GenNodeAt
<1>2. \E f : f = [d \in Depths |-> GenNodeAt(f[d - 1], d)]
  BY <1>1, GenNodeExist!Exists DEF Depths
<1>3. gen_node = [d \in Depths |-> GenNodeAt(gen_node[d - 1], d)]
  BY <1>2 DEF gen_node, GenNodeAt
<1>4. ASSUME NEW d \in Depths, NEW n \in StmtNodes[d], NEW l \in Nat PROVE gen_node[d][n][l] = StmtCode(gen_expr[d - 1], gen_node[d - 1], n, l)
  <2>1. gen_node[d] = GenNodeAt(gen_node[d - 1], d)
    BY <1>3
  <2> QED
    BY <2>1 DEF GenNodeAt
<1> QED
  BY <1>4

NamesAt(f, d) == [e \in Expressions[d] |-> ExprNames(f, e)]
NamesExist == INSTANCE Recursion WITH Rhs <- NamesAt, N <- MAX_DEPTH

\* The names in an expression are what their equation says.
LEMMA NamesIs ==
  \A d \in Depths : \A e \in Expressions[d] : Names[d][e] = ExprNames(Names[d - 1], e)
<1>1. MAX_DEPTH \in Nat /\ \A x, y : NamesAt(x, 0) = NamesAt(y, 0)
  BY SourceAssumption, NothingAtZero DEF NamesAt
<1>2. \E f : f = [d \in Depths |-> NamesAt(f[d - 1], d)]
  BY <1>1, NamesExist!Exists DEF Depths
<1>3. Names = [d \in Depths |-> NamesAt(Names[d - 1], d)]
  BY <1>2 DEF Names, NamesAt
<1>4. ASSUME NEW d \in Depths, NEW e \in Expressions[d] PROVE Names[d][e] = ExprNames(Names[d - 1], e)
  <2>1. Names[d] = NamesAt(Names[d - 1], d)
    BY <1>3
  <2> QED
    BY <2>1 DEF NamesAt
<1> QED
  BY <1>4

OccurrencesAt(f, d) == [s \in Statements[d] |-> StmtNames(Names[d - 1], f, s)]
OccurrencesExist == INSTANCE Recursion WITH Rhs <- OccurrencesAt, N <- MAX_DEPTH

\* So are those in a statement,
LEMMA OccurrencesIs ==
  \A d \in Depths : \A s \in Statements[d] : Occurrences[d][s] = StmtNames(Names[d - 1], Occurrences[d - 1], s)
<1>1. MAX_DEPTH \in Nat /\ \A x, y : OccurrencesAt(x, 0) = OccurrencesAt(y, 0)
  BY SourceAssumption, NothingAtZero DEF OccurrencesAt
<1>2. \E f : f = [d \in Depths |-> OccurrencesAt(f[d - 1], d)]
  BY <1>1, OccurrencesExist!Exists DEF Depths
<1>3. Occurrences = [d \in Depths |-> OccurrencesAt(Occurrences[d - 1], d)]
  BY <1>2 DEF Occurrences, OccurrencesAt
<1>4. ASSUME NEW d \in Depths, NEW s \in Statements[d] PROVE Occurrences[d][s] = StmtNames(Names[d - 1], Occurrences[d - 1], s)
  <2>1. Occurrences[d] = OccurrencesAt(Occurrences[d - 1], d)
    BY <1>3
  <2> QED
    BY <2>1 DEF OccurrencesAt
<1> QED
  BY <1>4

NeedAt(f, d) == [e \in Expressions[d] |-> ExprNeed(f, e)]
NeedExist == INSTANCE Recursion WITH Rhs <- NeedAt, N <- MAX_DEPTH

\* ... the operands an expression needs
LEMMA NeedIs ==
  \A d \in Depths : \A e \in Expressions[d] : Need[d][e] = ExprNeed(Need[d - 1], e)
<1>1. MAX_DEPTH \in Nat /\ \A x, y : NeedAt(x, 0) = NeedAt(y, 0)
  BY SourceAssumption, NothingAtZero DEF NeedAt
<1>2. \E f : f = [d \in Depths |-> NeedAt(f[d - 1], d)]
  BY <1>1, NeedExist!Exists DEF Depths
<1>3. Need = [d \in Depths |-> NeedAt(Need[d - 1], d)]
  BY <1>2 DEF Need, NeedAt
<1>4. ASSUME NEW d \in Depths, NEW e \in Expressions[d] PROVE Need[d][e] = ExprNeed(Need[d - 1], e)
  <2>1. Need[d] = NeedAt(Need[d - 1], d)
    BY <1>3
  <2> QED
    BY <2>1 DEF NeedAt
<1> QED
  BY <1>4

NeedsAt(f, d) == [s \in Statements[d] |-> StmtNeeds(Need[d - 1], f, s)]
NeedsExist == INSTANCE Recursion WITH Rhs <- NeedsAt, N <- MAX_DEPTH

\* ... and those of the expressions in a statement.
LEMMA NeedsIs ==
  \A d \in Depths : \A s \in Statements[d] : Needs[d][s] = StmtNeeds(Need[d - 1], Needs[d - 1], s)
<1>1. MAX_DEPTH \in Nat /\ \A x, y : NeedsAt(x, 0) = NeedsAt(y, 0)
  BY SourceAssumption, NothingAtZero DEF NeedsAt
<1>2. \E f : f = [d \in Depths |-> NeedsAt(f[d - 1], d)]
  BY <1>1, NeedsExist!Exists DEF Depths
<1>3. Needs = [d \in Depths |-> NeedsAt(Needs[d - 1], d)]
  BY <1>2 DEF Needs, NeedsAt
<1>4. ASSUME NEW d \in Depths, NEW s \in Statements[d] PROVE Needs[d][s] = StmtNeeds(Need[d - 1], Needs[d - 1], s)
  <2>1. Needs[d] = NeedsAt(Needs[d - 1], d)
    BY <1>3
  <2> QED
    BY <2>1 DEF NeedsAt
<1> QED
  BY <1>4

Fields == {"type", "line", "name", "value", "op", "left", "right", "third"}
HasFields(n) == n = [i \in Fields |-> n[i]] /\ DOMAIN n = Fields

IsBlank(n, type, line) ==
  /\ HasFields(n)
  /\ n.type = type /\ n.line = line /\ n.name = NoName /\ n.value = 0 /\ n.op = ""
  /\ n.left = NULL /\ n.right = NULL /\ n.third = NULL

node(type, line, name, value, op, left, right, third) ==
  [type |-> type, line |-> line, name |-> name, value |-> value, op |-> op,
   left |-> left, right |-> right, third |-> third]

\* A record with the fields of a node is the node made of them.
LEMMA NodeIs ==
  ASSUME NEW n, HasFields(n)
  PROVE  n = node(n.type, n.line, n.name, n.value, n.op, n.left, n.right, n.third)
<1> DEFINE m == node(n.type, n.line, n.name, n.value, n.op, n.left, n.right, n.third)
<1>1. m = [i \in Fields |-> m[i]]
  BY DEF node, Fields
<1>2. \A i \in Fields : m[i] = n[i]
  <2>1. /\ m.type = n.type /\ m.line = n.line /\ m.name = n.name /\ m.value = n.value
        /\ m.op = n.op /\ m.left = n.left /\ m.right = n.right /\ m.third = n.third
    BY DEF node
  <2> HIDE DEF m
  <2> QED
    BY <2>1 DEF Fields
<1> HIDE DEF m
<1>3. m = n
  BY <1>1, <1>2 DEF HasFields
<1> QED
  BY <1>3 DEF m

\* new_node leaves all fields but type and line blank.
LEMMA NewNode ==
  ASSUME NEW type, NEW line
  PROVE  IsBlank(new_node(type, line), type, line)
  BY DEF new_node, HasFields, Fields, IsBlank

\* What each of the constructors of ast.c makes, field by field: a number,
LEMMA IntNode ==
  ASSUME NEW v, NEW line
  PROVE  ast_make_int(v, line) = << node("INT", line, NoName, v, "", NULL, NULL, NULL) >>
<1> DEFINE m == new_node("INT", line)
           n == [m EXCEPT !.value = v]
<1>1. IsBlank(m, "INT", line)
  BY NewNode
<1> HIDE DEF m
<1>2. /\ HasFields(n)
      /\ n.type = m.type /\ n.line = m.line /\ n.name = m.name /\ n.value = v
      /\ n.op = m.op /\ n.left = m.left /\ n.right = m.right /\ n.third = m.third
  BY <1>1 DEF Fields, HasFields, IsBlank
<1> HIDE DEF n
<1>3. n = node(n.type, n.line, n.name, n.value, n.op, n.left, n.right, n.third)
  BY <1>2, NodeIs
<1>4. n = node("INT", line, NoName, v, "", NULL, NULL, NULL)
  BY <1>1, <1>2, <1>3 DEF IsBlank
<1> QED
  BY <1>4 DEF n, m, ast_make_int

\* ... a name,
LEMMA IdentNode ==
  ASSUME NEW name, NEW line
  PROVE  ast_make_ident(name, line) = << node("IDENT", line, name, 0, "", NULL, NULL, NULL) >>
<1> DEFINE m == new_node("IDENT", line)
           n == [m EXCEPT !.name = name]
<1>1. IsBlank(m, "IDENT", line)
  BY NewNode
<1> HIDE DEF m
<1>2. /\ HasFields(n)
      /\ n.type = m.type /\ n.line = m.line /\ n.name = name /\ n.value = m.value
      /\ n.op = m.op /\ n.left = m.left /\ n.right = m.right /\ n.third = m.third
  BY <1>1 DEF Fields, HasFields, IsBlank
<1> HIDE DEF n
<1>3. n = node(n.type, n.line, n.name, n.value, n.op, n.left, n.right, n.third)
  BY <1>2, NodeIs
<1>4. n = node("IDENT", line, name, 0, "", NULL, NULL, NULL)
  BY <1>1, <1>2, <1>3 DEF IsBlank
<1> QED
  BY <1>4 DEF n, m, ast_make_ident

\* ... an operation,
LEMMA BinopNode ==
  ASSUME NEW op, NEW lhs, NEW rhs, NEW line
  PROVE  ast_make_binop(op, lhs, rhs, line) = << node("BINOP", line, NoName, 0, op, lhs, rhs, NULL) >>
<1> DEFINE m == new_node("BINOP", line)
           n == [m EXCEPT !.op = op, !.left = lhs, !.right = rhs]
<1>1. IsBlank(m, "BINOP", line)
  BY NewNode
<1> HIDE DEF m
<1>2. /\ HasFields(n)
      /\ n.type = m.type /\ n.line = m.line /\ n.name = m.name /\ n.value = m.value
      /\ n.op = op /\ n.left = lhs /\ n.right = rhs /\ n.third = m.third
  BY <1>1 DEF Fields, HasFields, IsBlank
<1> HIDE DEF n
<1>3. n = node(n.type, n.line, n.name, n.value, n.op, n.left, n.right, n.third)
  BY <1>2, NodeIs
<1>4. n = node("BINOP", line, NoName, 0, op, lhs, rhs, NULL)
  BY <1>1, <1>2, <1>3 DEF IsBlank
<1> QED
  BY <1>4 DEF n, m, ast_make_binop

\* ... an assignment,
LEMMA AssignNode ==
  ASSUME NEW lhs, NEW rhs, NEW line
  PROVE  ast_make_assign(lhs, rhs, line) = << node("ASSIGN", line, NoName, 0, "", lhs, rhs, NULL) >>
<1> DEFINE m == new_node("ASSIGN", line)
           n == [m EXCEPT !.left = lhs, !.right = rhs]
<1>1. IsBlank(m, "ASSIGN", line)
  BY NewNode
<1> HIDE DEF m
<1>2. /\ HasFields(n)
      /\ n.type = m.type /\ n.line = m.line /\ n.name = m.name /\ n.value = m.value
      /\ n.op = m.op /\ n.left = lhs /\ n.right = rhs /\ n.third = m.third
  BY <1>1 DEF Fields, HasFields, IsBlank
<1> HIDE DEF n
<1>3. n = node(n.type, n.line, n.name, n.value, n.op, n.left, n.right, n.third)
  BY <1>2, NodeIs
<1>4. n = node("ASSIGN", line, NoName, 0, "", lhs, rhs, NULL)
  BY <1>1, <1>2, <1>3 DEF IsBlank
<1> QED
  BY <1>4 DEF n, m, ast_make_assign

\* ... a declaration,
LEMMA VarDeclNode ==
  ASSUME NEW name, NEW init, NEW line
  PROVE  ast_make_var_decl(name, init, line) = << node("VAR_DECL", line, name, 0, "", init, NULL, NULL) >>
<1> DEFINE m == new_node("VAR_DECL", line)
           n == [m EXCEPT !.name = name, !.left = init]
<1>1. IsBlank(m, "VAR_DECL", line)
  BY NewNode
<1> HIDE DEF m
<1>2. /\ HasFields(n)
      /\ n.type = m.type /\ n.line = m.line /\ n.name = name /\ n.value = m.value
      /\ n.op = m.op /\ n.left = init /\ n.right = m.right /\ n.third = m.third
  BY <1>1 DEF Fields, HasFields, IsBlank
<1> HIDE DEF n
<1>3. n = node(n.type, n.line, n.name, n.value, n.op, n.left, n.right, n.third)
  BY <1>2, NodeIs
<1>4. n = node("VAR_DECL", line, name, 0, "", init, NULL, NULL)
  BY <1>1, <1>2, <1>3 DEF IsBlank
<1> QED
  BY <1>4 DEF n, m, ast_make_var_decl

\* ... a block,
LEMMA BlockNode ==
  ASSUME NEW stmts
  PROVE  ast_make_block(stmts) = << node("BLOCK", 0, NoName, 0, "", stmts, NULL, NULL) >>
<1> DEFINE m == new_node("BLOCK", 0)
           n == [m EXCEPT !.left = stmts]
<1>1. IsBlank(m, "BLOCK", 0)
  BY NewNode
<1> HIDE DEF m
<1>2. /\ HasFields(n)
      /\ n.type = m.type /\ n.line = m.line /\ n.name = m.name /\ n.value = m.value
      /\ n.op = m.op /\ n.left = stmts /\ n.right = m.right /\ n.third = m.third
  BY <1>1 DEF Fields, HasFields, IsBlank
<1> HIDE DEF n
<1>3. n = node(n.type, n.line, n.name, n.value, n.op, n.left, n.right, n.third)
  BY <1>2, NodeIs
<1>4. n = node("BLOCK", 0, NoName, 0, "", stmts, NULL, NULL)
  BY <1>1, <1>2, <1>3 DEF IsBlank
<1> QED
  BY <1>4 DEF n, m, ast_make_block

\* ... an if,
LEMMA IfNode ==
  ASSUME NEW cond, NEW thenb, NEW elseb, NEW line
  PROVE  ast_make_if(cond, thenb, elseb, line) = << node("IF", line, NoName, 0, "", cond, thenb, elseb) >>
<1> DEFINE m == new_node("IF", line)
           n == [m EXCEPT !.left = cond, !.right = thenb, !.third = elseb]
<1>1. IsBlank(m, "IF", line)
  BY NewNode
<1> HIDE DEF m
<1>2. /\ HasFields(n)
      /\ n.type = m.type /\ n.line = m.line /\ n.name = m.name /\ n.value = m.value
      /\ n.op = m.op /\ n.left = cond /\ n.right = thenb /\ n.third = elseb
  BY <1>1 DEF Fields, HasFields, IsBlank
<1> HIDE DEF n
<1>3. n = node(n.type, n.line, n.name, n.value, n.op, n.left, n.right, n.third)
  BY <1>2, NodeIs
<1>4. n = node("IF", line, NoName, 0, "", cond, thenb, elseb)
  BY <1>1, <1>2, <1>3 DEF IsBlank
<1> QED
  BY <1>4 DEF n, m, ast_make_if

\* ... a while,
LEMMA WhileNode ==
  ASSUME NEW cond, NEW body, NEW line
  PROVE  ast_make_while(cond, body, line) = << node("WHILE", line, NoName, 0, "", cond, body, NULL) >>
<1> DEFINE m == new_node("WHILE", line)
           n == [m EXCEPT !.left = cond, !.right = body]
<1>1. IsBlank(m, "WHILE", line)
  BY NewNode
<1> HIDE DEF m
<1>2. /\ HasFields(n)
      /\ n.type = m.type /\ n.line = m.line /\ n.name = m.name /\ n.value = m.value
      /\ n.op = m.op /\ n.left = cond /\ n.right = body /\ n.third = m.third
  BY <1>1 DEF Fields, HasFields, IsBlank
<1> HIDE DEF n
<1>3. n = node(n.type, n.line, n.name, n.value, n.op, n.left, n.right, n.third)
  BY <1>2, NodeIs
<1>4. n = node("WHILE", line, NoName, 0, "", cond, body, NULL)
  BY <1>1, <1>2, <1>3 DEF IsBlank
<1> QED
  BY <1>4 DEF n, m, ast_make_while

\* ... and a for, whose step is behind its body.
LEMMA ForNode ==
  ASSUME NEW init, NEW cond, NEW step, NEW body, NEW line
  PROVE  ast_make_for(init, cond, step, body, line) = << node("FOR", line, NoName, 0, "", init, cond, body \o step) >>
<1> DEFINE m == new_node("FOR", line)
           n == [m EXCEPT !.left = init, !.right = cond, !.third = body \o step]
<1>1. IsBlank(m, "FOR", line)
  BY NewNode
<1> HIDE DEF m
<1>2. /\ HasFields(n)
      /\ n.type = m.type /\ n.line = m.line /\ n.name = m.name /\ n.value = m.value
      /\ n.op = m.op /\ n.left = init /\ n.right = cond /\ n.third = body \o step
  BY <1>1 DEF Fields, HasFields, IsBlank
<1> HIDE DEF n
<1>3. n = node(n.type, n.line, n.name, n.value, n.op, n.left, n.right, n.third)
  BY <1>2, NodeIs
<1>4. n = node("FOR", line, NoName, 0, "", init, cond, body \o step)
  BY <1>1, <1>2, <1>3 DEF IsBlank
<1> QED
  BY <1>4 DEF n, m, ast_make_for

\* What holds at 0 and at a depth when at the one before holds at every depth.
LEMMA DepthInduction ==
  ASSUME NEW S, 0 \in S, \A d \in Depths \ {0} : d - 1 \in Depths /\ d - 1 \in S => d \in S
  PROVE  Depths \subseteq S
<1> SUFFICES ASSUME ~ (Depths \subseteq S) PROVE FALSE
  OBVIOUS
<1>1. Depths \ S \subseteq Nat /\ Depths \ S # {}
  BY SourceAssumption DEF Depths
<1>2. PICK d \in Depths \ S : \A k \in Depths \ S : d <= k
  BY <1>1, LeastElement
<1>3. d # 0 /\ d - 1 \in Depths /\ ~ (d <= d - 1)
  BY SourceAssumption DEF Depths
<1> QED
  BY <1>2, <1>3

(***************************************************************************)
(* The forms of expressions, statements and trees.                         *)
(***************************************************************************)

\* An expression has one of three forms and parts of less depth.
LEMMA ExpressionForms ==
  ASSUME NEW d \in Depths, NEW e \in Expressions[d]
  PROVE  /\ d # 0 /\ d - 1 \in Depths
         /\ \/ e.kind = "INTEGER" /\ e.value \in Ints
            \/ e.kind = "IDENTIFIER" /\ e.name \in STRING
            \/ /\ e.kind \in BinaryOps /\ e.kind \notin {"INTEGER", "IDENTIFIER"}
               /\ e.left \in Expressions[d - 1] /\ e.right \in Expressions[d - 1]
<1>1. Expressions[d] = IF d = 0 THEN {} ELSE Expression(Expressions[d - 1])
  BY ExpressionsAre
<1>2. d # 0 /\ e \in Expression(Expressions[d - 1])
  BY <1>1
<1>3. d - 1 \in Depths
  BY <1>2, SourceAssumption DEF Depths
<1> QED
  BY <1>2, <1>3 DEF Expression, BinaryOps

\* An optional part
LEMMA OptionalIs ==
  ASSUME NEW S, NEW o \in Optional(S)
  PROVE  o = << >> \/ (o # << >> /\ o \in One(S))
<1>1. o \in Seq(S) /\ Len(o) \in Nat /\ Len(o) <= 1
  BY LenProperties DEF Optional
<1>2. CASE Len(o) = 0
  BY <1>1, <1>2
<1>3. CASE Len(o) = 1
  <2>1. o # << >>
    <3>1. Len(<< >>) = 0
      OBVIOUS
    <3> QED
      BY ONLY <1>3, <3>1
  <2> QED
    BY <1>1, <1>3, <2>1 DEF One
<1>4. \A n \in Nat : n <= 1 => n = 0 \/ n = 1
  OBVIOUS
<1> QED
  BY <1>1, <1>2, <1>3, <1>4

\* A sequence of one element is its element ...
LEMMA OneIs ==
  ASSUME NEW S, NEW o \in One(S)
  PROVE  o[1] \in S /\ o = << o[1] >> /\ o # << >> /\ o \in Seq(S)
<1>1. o \in Seq(S) /\ Len(o) = 1
  BY DEF One
<1> QED
  BY <1>1

\* ... and the other way round.
LEMMA OneIn ==
  ASSUME NEW S, NEW x \in S
  PROVE  << x >> \in One(S) /\ << x >> \in Optional(S) /\ << x >> \in Seq(S)
  BY DEF One, Optional

\* A statement has one of its forms and parts of less depth.
LEMMA StatementForms ==
  ASSUME NEW d \in Depths, NEW s \in Statements[d]
  PROVE  /\ d # 0 /\ d - 1 \in Depths /\ s.line \in Nat
         /\ \/ s.kind = "var" /\ s.name \in STRING /\ s.init = << >>
            \/ /\ s.kind = "var" /\ s.name \in STRING /\ s.init # << >>
               /\ s.init[1] \in Expressions[d - 1]
            \/ s.kind = "assign" /\ s.name \in STRING /\ s.expr \in Expressions[d - 1]
            \/ /\ s.kind = "if" /\ s.cond \in Expressions[d - 1]
               /\ s.then \in Statements[d - 1] /\ s.else = << >>
            \/ /\ s.kind = "if" /\ s.cond \in Expressions[d - 1]
               /\ s.then \in Statements[d - 1] /\ s.else # << >>
               /\ s.else[1] \in Statements[d - 1]
            \/ /\ s.kind = "while" /\ s.cond \in Expressions[d - 1]
               /\ s.body \in Statements[d - 1]
            \/ /\ s.kind = "for" /\ s.cond \in Expressions[d - 1]
               /\ s.init \in Statements[d - 1] /\ s.body \in Statements[d - 1]
               /\ s.step \in Statements[d - 1] /\ s.step.kind = "assign"
               /\ d - 2 \in Depths /\ (d - 1) - 1 = d - 2
               /\ s.step.name \in STRING /\ s.step.expr \in Expressions[d - 2]
            \/ s.kind = "block" /\ s.stmts \in Seq(Statements[d - 1]) /\ s.last \in Nat
            \/ s.kind = "empty"
<1>1. Statements[d] = IF d = 0 THEN {} ELSE Statement(Expressions[d - 1], Statements[d - 1])
  BY StatementsAre
<1>2. d # 0 /\ s \in Statement(Expressions[d - 1], Statements[d - 1])
  BY <1>1
<1>3. d - 1 \in Depths
  BY <1>2, SourceAssumption DEF Depths
<1>4. s.line \in Nat
  BY <1>2 DEF Statement
<1>5. \/ s.kind = "var" /\ s.name \in STRING /\ s.init \in Optional(Expressions[d - 1])
      \/ s.kind = "assign" /\ s.name \in STRING /\ s.expr \in Expressions[d - 1]
      \/ /\ s.kind = "if" /\ s.cond \in Expressions[d - 1]
         /\ s.then \in Statements[d - 1] /\ s.else \in Optional(Statements[d - 1])
      \/ /\ s.kind = "while" /\ s.cond \in Expressions[d - 1]
         /\ s.body \in Statements[d - 1]
      \/ /\ s.kind = "for" /\ s.cond \in Expressions[d - 1]
         /\ s.init \in Statements[d - 1] /\ s.body \in Statements[d - 1]
         /\ s.step \in Statements[d - 1] /\ s.step.kind = "assign"
      \/ s.kind = "block" /\ s.stmts \in Seq(Statements[d - 1]) /\ s.last \in Nat
      \/ s.kind = "empty"
  BY <1>2 DEF Statement
<1>6. ASSUME s.kind = "for", s.step \in Statements[d - 1], s.step.kind = "assign"
      PROVE  /\ d - 2 \in Depths /\ (d - 1) - 1 = d - 2
             /\ s.step.name \in STRING /\ s.step.expr \in Expressions[d - 2]
  <2>1. /\ d - 1 # 0
        /\ s.step \in Statement(Expressions[(d - 1) - 1], Statements[(d - 1) - 1])
    BY <1>3, <1>6, StatementsAre
  <2>2. d - 2 \in Depths /\ (d - 1) - 1 = d - 2
    BY <1>3, <2>1, SourceAssumption DEF Depths
  <2>3. s.step \in Statement(Expressions[d - 2], Statements[d - 2])
    BY <2>1, <2>2
  <2>4. s.step.name \in STRING /\ s.step.expr \in Expressions[d - 2]
    BY <1>6, <2>3 DEF Statement
  <2> QED
    BY <2>2, <2>4
<1>7. \A S : \A o \in Optional(S) : o = << >> \/ (o # << >> /\ o[1] \in S)
  BY OptionalIs, OneIs
<1> HIDE DEF Depths
<1> QED
  BY <1>2, <1>3, <1>4, <1>5, <1>6, <1>7

(***************************************************************************)
(* What the parser makes of them.                                          *)
(***************************************************************************)

\* 0 fits into an int, whatever its width.
LEMMA ZeroIsInt == 0 \in Ints
  BY SourceAssumption DEF Ints, INT_MIN

\* The trees of a depth above 0 are made of those one below.
LEMMA ExprNodesOf ==
  ASSUME NEW d \in Depths, d # 0
  PROVE  /\ d - 1 \in Depths
         /\ ExprNodes[d] = ExprNode(ExprNodes[d - 1])
         /\ StmtNodes[d] = StmtNode(ExprNodes[d - 1], StmtNodes[d - 1])
<1>1. d - 1 \in Depths
  BY SourceAssumption DEF Depths
<1> QED
  BY <1>1, ExprNodesAre, StmtNodesAre

\* An expression becomes one node.
LEMMA ExprMakesNode ==
  ASSUME NEW d \in Depths, NEW e \in Expressions[d], NEW line \in Nat
  PROVE  expr[d][e][line] \in One(ExprNodes[d])
<1> DEFINE Makes(k) == \A x \in Expressions[k], l \in Nat : expr[k][x][l] \in One(ExprNodes[k])
           S == {k \in Depths : Makes(k)}
<1>1. 0 \in S
  BY NothingAtZero
<1>2. ASSUME NEW k \in Depths \ {0}, k - 1 \in Depths, k - 1 \in S PROVE k \in S
  <2> SUFFICES ASSUME NEW x \in Expressions[k], NEW l \in Nat
               PROVE  expr[k][x][l] \in One(ExprNodes[k])
    OBVIOUS
  <2>1. expr[k][x][l] = Expr(expr[k - 1], x, l)
    BY ExprIs
  <2>2. ExprNodes[k] = ExprNode(ExprNodes[k - 1])
    BY ExprNodesOf
  <2>3. CASE x.kind = "INTEGER" /\ x.value \in Ints
    <3>1. expr[k][x][l] = << node("INT", l, NoName, x.value, "", NULL, NULL, NULL) >>
      BY <2>1, <2>3, IntNode DEF Expr
    <3>2. node("INT", l, NoName, x.value, "", NULL, NULL, NULL) \in Leaf("INT")
      BY <2>3 DEF Leaf, Shape, node
    <3>3. node("INT", l, NoName, x.value, "", NULL, NULL, NULL) \in ExprNodes[k]
      BY <2>2, <3>2 DEF ExprNode
    <3> QED
      BY <3>1, <3>3, OneIn
  <2>4. CASE x.kind = "IDENTIFIER" /\ x.name \in STRING
    <3>1. expr[k][x][l] = << node("IDENT", l, x.name, 0, "", NULL, NULL, NULL) >>
      BY <2>1, <2>4, IdentNode DEF Expr
    <3>2. node("IDENT", l, x.name, 0, "", NULL, NULL, NULL) \in Leaf("IDENT")
      BY <2>4, ZeroIsInt DEF Leaf, Shape, node
    <3>3. node("IDENT", l, x.name, 0, "", NULL, NULL, NULL) \in ExprNodes[k]
      BY <2>2, <3>2 DEF ExprNode
    <3> QED
      BY <3>1, <3>3, OneIn
  <2>5. CASE /\ x.kind \in BinaryOps /\ x.kind \notin {"INTEGER", "IDENTIFIER"}
             /\ x.left \in Expressions[k - 1] /\ x.right \in Expressions[k - 1]
    <3> DEFINE a == expr[k - 1][x.left][l]
               b == expr[k - 1][x.right][l]
               n == node("BINOP", l, NoName, 0, x.kind, a, b, NULL)
    <3>1. a \in One(ExprNodes[k - 1]) /\ b \in One(ExprNodes[k - 1])
      BY <1>2, <2>5
    <3>2. expr[k][x][l] = ast_make_binop(x.kind, a, b, l)
      BY <2>1, <2>5 DEF Expr
    <3> HIDE DEF a, b
    <3>3. expr[k][x][l] = << n >>
      BY <3>2, BinopNode
    <3>4. n \in Shape("BINOP", BinaryOps, One(ExprNodes[k - 1]), One(ExprNodes[k - 1]), {NULL})
      BY <2>5, <3>1, ZeroIsInt DEF Shape, node
    <3>5. n \in ExprNodes[k]
      BY <2>2, <3>4 DEF ExprNode
    <3> QED
      BY <3>3, <3>5, OneIn
  <2> QED
    BY <2>3, <2>4, <2>5, ExpressionForms
<1> HIDE DEF S
<1>3. Depths \subseteq S
  BY <1>1, <1>2, DepthInduction
<1> QED
  BY <1>3 DEF S

\* Behind every statement a line is reached.
LEMMA LineReachedIsNat ==
  ASSUME NEW d \in Depths, NEW s \in Statements[d], NEW next \in Nat
  PROVE  yylineno[d][s][next] \in Nat
<1> DEFINE Makes(k) == \A x \in Statements[k], l \in Nat : yylineno[k][x][l] \in Nat
           S == {k \in Depths : Makes(k)}
<1>1. 0 \in S
  BY NothingAtZero
<1>2. ASSUME NEW k \in Depths \ {0}, k - 1 \in Depths, k - 1 \in S PROVE k \in S
  <2> SUFFICES ASSUME NEW x \in Statements[k], NEW l \in Nat
               PROVE  yylineno[k][x][l] \in Nat
    OBVIOUS
  <2>1. yylineno[k][x][l] = LineReached(yylineno[k - 1], x, l)
    BY LineIs
  <2>2. \A y \in Statements[k - 1] : yylineno[k - 1][y][l] \in Nat
    BY <1>2
  <2>3. CASE x.kind = "if" /\ x.else = << >>
    BY <2>1, <2>3 DEF LineReached, NULL
  <2>4. CASE x.kind = "if" /\ x.else # << >> /\ x.else[1] \in Statements[k - 1]
    BY <2>1, <2>2, <2>4 DEF LineReached, NULL
  <2>5. CASE x.kind \in {"while", "for"} /\ x.body \in Statements[k - 1]
    BY <2>1, <2>2, <2>5 DEF LineReached
  <2>6. CASE x.kind = "block" /\ x.last \in Nat
    BY <2>1, <2>6 DEF LineReached
  <2>7. CASE x.kind \in {"var", "assign", "empty"} /\ x.line \in Nat
    BY <2>1, <2>7 DEF LineReached
  <2> QED
    BY <2>3, <2>4, <2>5, <2>6, <2>7, StatementForms
<1> HIDE DEF S
<1>3. Depths \subseteq S
  BY <1>1, <1>2, DepthInduction
<1> QED
  BY <1>3 DEF S

\* Induction over the numbers, for a set.
LEMMA Numbers ==
  ASSUME NEW S, 0 \in S, \A n \in Nat : n \in S => n + 1 \in S PROVE \A n \in Nat : n \in S
<1> SUFFICES ASSUME ~ (Nat \subseteq S) PROVE FALSE
  OBVIOUS
<1>1. PICK n \in Nat \ S : \A k \in Nat \ S : n <= k
  BY LeastElement
<1>2. n - 1 \in Nat /\ n - 1 + 1 = n /\ ~ (n <= n - 1)
  OBVIOUS
<1>3. n - 1 \in S
  BY <1>1, <1>2
<1> QED
  BY <1>2, <1>3

\* f is what FlattenSeq makes of the first n elements of ss, one after the other.
Flattens(ss, n, f) == f = [k \in 1 .. n |-> IF k = 1 THEN ss[k] ELSE f[k - 1] \o ss[k]]

\* FlattenSeq is defined by a recursive function, which exists,
LEMMA FlattenExists ==
  ASSUME NEW ss, NEW n \in Nat PROVE \E f : Flattens(ss, n, f)
<1> DEFINE S == {m \in Nat : \E f : Flattens(ss, m, f)}
<1>1. 0 \in S
  <2> DEFINE f == [k \in 1 .. 0 |-> 0]
  <2>1. f = [k \in 1 .. 0 |-> IF k = 1 THEN ss[k] ELSE f[k - 1] \o ss[k]]
    OBVIOUS
  <2> QED
    BY <2>1 DEF Flattens
<1>2. ASSUME NEW m \in Nat, m \in S PROVE m + 1 \in S
  <2>1. PICK f : Flattens(ss, m, f)
    BY <1>2
  <2>2. \A k \in 1 .. m : f[k] = IF k = 1 THEN ss[k] ELSE f[k - 1] \o ss[k]
    BY <2>1 DEF Flattens
  <2> DEFINE g == [k \in 1 .. m + 1 |->
                     IF k <= m THEN f[k] ELSE IF k = 1 THEN ss[k] ELSE f[k - 1] \o ss[k]]
  <2>3. ASSUME NEW k \in 1 .. m + 1 PROVE g[k] = IF k = 1 THEN ss[k] ELSE g[k - 1] \o ss[k]
    <3>1. k # 1 => k - 1 \in 1 .. m + 1 /\ k - 1 <= m
      OBVIOUS
    <3>2. k # 1 => g[k - 1] = f[k - 1]
      BY <3>1
    <3>3. g[k] = IF k = 1 THEN ss[k] ELSE f[k - 1] \o ss[k]
      BY <2>2
    <3> HIDE DEF g
    <3> QED
      BY <3>2, <3>3
  <2>4. g = [k \in 1 .. m + 1 |-> g[k]]
    OBVIOUS
  <2> HIDE DEF g
  <2>5. Flattens(ss, m + 1, g)
    BY <2>3, <2>4 DEF Flattens
  <2> QED
    BY <2>5
<1> HIDE DEF S
<1>3. n \in S
  BY <1>1, <1>2, Numbers
<1> QED
  BY <1>3 DEF S

\* ... has the value of FlattenSeq at the end
LEMMA FlattenIs ==
  ASSUME NEW ss, Len(ss) \in Nat \ {0}
  PROVE  \E f : Flattens(ss, Len(ss), f) /\ FlattenSeq(ss) = f[Len(ss)]
<1> DEFINE F == CHOOSE f : Flattens(ss, Len(ss), f)
<1>1. Flattens(ss, Len(ss), F)
  BY FlattenExists
<1>2. FlattenSeq(ss) = F[Len(ss)]
  BY DEF FlattenSeq, Flattens
<1> QED
  BY <1>1, <1>2

\* ... and takes the sequences one by one.
LEMMA FlattensSteps ==
  ASSUME NEW ss, NEW n \in Nat \ {0}, NEW f, Flattens(ss, n, f)
  PROVE  f[1] = ss[1] /\ \A k \in Nat \ {0} : k < n => f[k + 1] = f[k] \o ss[k + 1]
<1> DEFINE Rhs(k) == IF k = 1 THEN ss[k] ELSE f[k - 1] \o ss[k]
<1>1. ASSUME NEW k \in 1 .. n PROVE f[k] = Rhs(k)
  <2>1. f = [j \in 1 .. n |-> Rhs(j)]
    BY DEF Flattens
  <2> HIDE DEF Rhs
  <2> QED
    BY <2>1
<1>2. f[1] = ss[1]
  BY <1>1
<1>3. ASSUME NEW k \in Nat \ {0}, k < n PROVE f[k + 1] = f[k] \o ss[k + 1]
  <2>1. PICK m \in 1 .. n : m = k + 1 /\ m # 1 /\ m - 1 = k
    BY <1>3
  <2>2. f[m] = Rhs(m)
    BY <1>1
  <2>3. Rhs(m) = f[m - 1] \o ss[m]
    BY ONLY <2>1
  <2> HIDE DEF Rhs
  <2> QED
    BY ONLY <2>1, <2>2, <2>3, Zenon
<1> QED
  BY <1>2, <1>3

\* What is added at the end comes at the end.
LEMMA FlattenAppend ==
  ASSUME NEW S, NEW ss \in Seq(Seq(S)), NEW s \in Seq(S)
  PROVE  /\ FlattenSeq(ss) \in Seq(S)
         /\ FlattenSeq(Append(ss, s)) = FlattenSeq(ss) \o s
<1> DEFINE n == Len(ss)
           more == Append(ss, s)
<1>1. /\ n \in Nat /\ Len(more) = n + 1 /\ more[n + 1] = s
      /\ \A k \in 1 .. n : more[k] = ss[k] /\ ss[k] \in Seq(S)
  OBVIOUS
<1> HIDE DEF more
<1>2. PICK g : Flattens(more, n + 1, g) /\ FlattenSeq(more) = g[n + 1]
  BY <1>1, FlattenIs
<1>3. g[1] = more[1] /\ \A k \in Nat \ {0} : k < n + 1 => g[k + 1] = g[k] \o more[k + 1]
  <2>1. PICK l \in Nat \ {0} : l = n + 1
    BY <1>1
  <2>2. Flattens(more, l, g)
    BY <1>2, <2>1
  <2>3. g[1] = more[1] /\ \A k \in Nat \ {0} : k < l => g[k + 1] = g[k] \o more[k + 1]
    BY <2>2, FlattensSteps, Zenon
  <2> QED
    BY <2>1, <2>3
<1>4. CASE n = 0
  <2>1. ss = << >> /\ FlattenSeq(ss) = << >>
    BY <1>4 DEF FlattenSeq
  <2>2. FlattenSeq(more) = s
    BY <1>1, <1>2, <1>3, <1>4
  <2>3. << >> \in Seq(S) /\ << >> \o s = s
    OBVIOUS
  <2> QED
    BY <2>1, <2>2, <2>3 DEF more
<1>5. CASE n # 0
  <2>1. PICK f : Flattens(ss, n, f) /\ FlattenSeq(ss) = f[n]
    BY <1>1, <1>5, FlattenIs
  <2>2. f[1] = ss[1] /\ \A k \in Nat \ {0} : k < n => f[k + 1] = f[k] \o ss[k + 1]
    <3>1. n \in Nat \ {0} /\ Flattens(ss, n, f)
      BY <1>1, <1>5, <2>1
    <3>2. PICK m : m = n
      OBVIOUS
    <3>3. m \in Nat \ {0} /\ Flattens(ss, m, f)
      BY <3>1, <3>2
    <3>4. f[1] = ss[1] /\ \A k \in Nat \ {0} : k < m => f[k + 1] = f[k] \o ss[k + 1]
      BY ONLY <3>3, FlattensSteps, Zenon
    <3> QED
      BY <3>2, <3>4
  <2> DEFINE Same == {k \in Nat : k + 1 <= n => g[k + 1] = f[k + 1] /\ f[k + 1] \in Seq(S)}
  <2>3. 0 \in Same
    BY <1>1, <1>3, <2>2
  <2>4. ASSUME NEW k \in Nat, k \in Same PROVE k + 1 \in Same
    <3> SUFFICES ASSUME k + 1 + 1 <= n PROVE g[k + 1 + 1] = f[k + 1 + 1] /\ f[k + 1 + 1] \in Seq(S)
      OBVIOUS
    <3> DEFINE m == k + 1
    <3>1. m \in Nat \ {0} /\ m < n /\ m < n + 1 /\ m + 1 \in 1 .. n
      BY <1>1
    <3>2. g[m] = f[m] /\ f[m] \in Seq(S)
      BY <1>1, <2>4
    <3> HIDE DEF m
    <3>3. more[m + 1] = ss[m + 1] /\ ss[m + 1] \in Seq(S)
      BY <1>1, <3>1
    <3>4. g[m + 1] = g[m] \o more[m + 1] /\ f[m + 1] = f[m] \o ss[m + 1]
      BY <1>3, <2>2, <3>1
    <3>5. g[m + 1] = f[m + 1] /\ f[m + 1] \in Seq(S)
      BY <3>2, <3>3, <3>4
    <3> QED
      BY <3>5 DEF m
  <2> HIDE DEF Same
  <2>5. n - 1 \in Nat /\ n - 1 + 1 = n
    BY <1>1, <1>5
  <2>6. n - 1 \in Same
    BY <2>3, <2>4, <2>5, Numbers
  <2>7. g[n] = f[n] /\ f[n] \in Seq(S)
    BY <2>5, <2>6 DEF Same
  <2>8. g[n + 1] = g[n] \o s
    <3>1. n \in Nat \ {0} /\ n < n + 1 /\ more[n + 1] = s
      BY <1>1, <1>5
    <3> QED
      BY ONLY <1>3, <3>1, Zenon
  <2> QED
    BY <1>2, <2>1, <2>7, <2>8 DEF more
<1> QED
  BY <1>4, <1>5

(***************************************************************************)
(* The loops over a list of nodes.                                         *)
(***************************************************************************)

\* The code of one node more
Then(below, before, n) ==
  LET more == below[n][before.next_label]
  IN  Emitted(before.ir \o more.ir, more.next_label)

\* f is what gen_stmt makes of the first n nodes, one after the other.
Gens(below, l0, nodes, n, f) ==
  f = [i \in 0 .. n |-> IF i = 0 THEN Emitted(<< >>, l0) ELSE Then(below, f[i - 1], nodes[i])]

\* The function in gen_stmt exists,
LEMMA GenExists ==
  ASSUME NEW below, NEW l0, NEW nodes, NEW n \in Nat PROVE \E f : Gens(below, l0, nodes, n, f)
<1> DEFINE S == {m \in Nat : \E f : Gens(below, l0, nodes, m, f)}
<1>1. 0 \in S
  <2> DEFINE f == [i \in 0 .. 0 |-> Emitted(<< >>, l0)]
  <2>1. \A i \in 0 .. 0 : i = 0 /\ f[i] = Emitted(<< >>, l0)
    OBVIOUS
  <2>2. f = [i \in 0 .. 0 |-> f[i]]
    OBVIOUS
  <2> HIDE DEF f
  <2>3. f = [i \in 0 .. 0 |-> IF i = 0 THEN Emitted(<< >>, l0) ELSE Then(below, f[i - 1], nodes[i])]
    BY <2>1, <2>2
  <2> QED
    BY <2>3 DEF Gens
<1>2. ASSUME NEW m \in Nat, m \in S PROVE m + 1 \in S
  <2>1. PICK f : Gens(below, l0, nodes, m, f)
    BY <1>2
  <2>2. \A i \in 0 .. m : f[i] = IF i = 0 THEN Emitted(<< >>, l0) ELSE Then(below, f[i - 1], nodes[i])
    BY <2>1 DEF Gens
  <2> DEFINE g == [i \in 0 .. m + 1 |-> IF i <= m THEN f[i] ELSE Then(below, f[i - 1], nodes[i])]
  <2>3. ASSUME NEW i \in 0 .. m + 1
        PROVE  g[i] = IF i = 0 THEN Emitted(<< >>, l0) ELSE Then(below, g[i - 1], nodes[i])
    <3>1. i # 0 => i - 1 \in 0 .. m + 1 /\ i - 1 <= m
      OBVIOUS
    <3>2. i # 0 => g[i - 1] = f[i - 1]
      BY <3>1
    <3>3. g[i] = IF i = 0 THEN Emitted(<< >>, l0) ELSE Then(below, f[i - 1], nodes[i])
      BY <2>2
    <3> HIDE DEF g
    <3> QED
      BY <3>2, <3>3
  <2>4. g = [i \in 0 .. m + 1 |-> g[i]]
    OBVIOUS
  <2> HIDE DEF g
  <2>5. Gens(below, l0, nodes, m + 1, g)
    BY <2>3, <2>4 DEF Gens
  <2> QED
    BY <2>5
<1> HIDE DEF S
<1>3. n \in S
  BY <1>1, <1>2, Numbers
<1> QED
  BY <1>3 DEF S

GenStep(below, l0, nodes, n, f) ==
  f[0] = Emitted(<< >>, l0) /\ \A i \in Nat : i < n => f[i + 1] = Then(below, f[i], nodes[i + 1])

\* ... takes the nodes one by one
LEMMA GensSteps ==
  ASSUME NEW below, NEW l0, NEW nodes, NEW n \in Nat, NEW f, Gens(below, l0, nodes, n, f)
  PROVE  GenStep(below, l0, nodes, n, f)
<1> DEFINE Rhs(i) == IF i = 0 THEN Emitted(<< >>, l0) ELSE Then(below, f[i - 1], nodes[i])
<1>1. ASSUME NEW i \in 0 .. n PROVE f[i] = Rhs(i)
  <2>1. f = [j \in 0 .. n |-> Rhs(j)]
    BY DEF Gens
  <2> HIDE DEF Rhs
  <2> QED
    BY <2>1
<1>2. f[0] = Emitted(<< >>, l0)
  BY <1>1
<1>3. ASSUME NEW i \in Nat, i < n PROVE f[i + 1] = Then(below, f[i], nodes[i + 1])
  <2>1. PICK m \in 0 .. n : m = i + 1 /\ m # 0 /\ m - 1 = i
    BY <1>3
  <2>2. f[m] = Rhs(m)
    BY <1>1
  <2>3. Rhs(m) = Then(below, f[m - 1], nodes[m])
    BY ONLY <2>1
  <2> HIDE DEF Rhs
  <2> QED
    BY ONLY <2>1, <2>2, <2>3, Zenon
<1> QED
  BY <1>2, <1>3 DEF GenStep

\* ... and has the value of gen_stmt at the end.
LEMMA GenIs ==
  ASSUME NEW below, NEW l0, NEW nodes, Len(nodes) \in Nat
  PROVE  \E f : Gens(below, l0, nodes, Len(nodes), f) /\ gen_stmt(below, nodes, l0) = f[Len(nodes)]
<1> DEFINE F == CHOOSE f : Gens(below, l0, nodes, Len(nodes), f)
<1>1. Gens(below, l0, nodes, Len(nodes), F)
  BY GenExists
<1>2. gen_stmt(below, nodes, l0) = F[Len(nodes)]
  BY DEF gen_stmt, Then, Gens
<1> QED
  BY <1>1, <1>2

\* One node after the others
LEMMA GenAppend ==
  ASSUME NEW below, NEW l0, NEW N, NEW nodes \in Seq(N), NEW n \in N
  PROVE  gen_stmt(below, Append(nodes, n), l0) = Then(below, gen_stmt(below, nodes, l0), n)
<1> DEFINE l == Len(nodes)
           more == Append(nodes, n)
<1>1. /\ l \in Nat /\ Len(more) = l + 1 /\ more[l + 1] = n
      /\ \A i \in 1 .. l : more[i] = nodes[i]
  OBVIOUS
<1> HIDE DEF more
<1>2. PICK g : Gens(below, l0, more, l + 1, g) /\ gen_stmt(below, more, l0) = g[l + 1]
  BY <1>1, GenIs
<1>3. PICK f : Gens(below, l0, nodes, l, f) /\ gen_stmt(below, nodes, l0) = f[l]
  BY <1>1, GenIs
<1>4. g[0] = Emitted(<< >>, l0) /\ \A i \in Nat : i < l + 1 => g[i + 1] = Then(below, g[i], more[i + 1])
  <2>1. PICK m \in Nat : m = l + 1
    BY <1>1
  <2>2. Gens(below, l0, more, m, g)
    BY <1>2, <2>1
  <2>3. GenStep(below, l0, more, m, g)
    BY <2>2, GensSteps, Zenon
  <2> QED
    BY <2>1, <2>3 DEF GenStep
<1>5. f[0] = Emitted(<< >>, l0) /\ \A i \in Nat : i < l => f[i + 1] = Then(below, f[i], nodes[i + 1])
  <2>1. l \in Nat /\ Gens(below, l0, nodes, l, f)
    BY <1>1, <1>3
  <2>2. GenStep(below, l0, nodes, l, f)
    BY ONLY <2>1, GensSteps, Zenon
  <2> QED
    BY <2>2 DEF GenStep
<1> DEFINE Same == {i \in Nat : i <= l => g[i] = f[i]}
<1>6. 0 \in Same
  BY <1>4, <1>5
<1>7. ASSUME NEW i \in Nat, i \in Same PROVE i + 1 \in Same
  <2> SUFFICES ASSUME i + 1 <= l PROVE g[i + 1] = f[i + 1]
    OBVIOUS
  <2>1. i < l /\ i < l + 1 /\ i + 1 \in 1 .. l /\ g[i] = f[i]
    BY <1>1, <1>7
  <2>2. more[i + 1] = nodes[i + 1]
    BY <1>1, <2>1
  <2>3. g[i + 1] = Then(below, g[i], more[i + 1]) /\ f[i + 1] = Then(below, f[i], nodes[i + 1])
    BY <1>4, <1>5, <2>1
  <2> QED
    BY ONLY <2>1, <2>2, <2>3, Zenon
<1> HIDE DEF Same
<1>8. l \in Same
  BY <1>1, <1>6, <1>7, Numbers
<1>9. g[l] = f[l] /\ g[l + 1] = Then(below, g[l], more[l + 1])
  <2>1. l \in Nat /\ l <= l /\ l < l + 1
    BY <1>1
  <2>2. g[l] = f[l]
    BY <1>8, <2>1 DEF Same
  <2> QED
    BY <1>4, <2>1, <2>2
<1>10. gen_stmt(below, more, l0) = Then(below, gen_stmt(below, nodes, l0), n)
  BY ONLY <1>1, <1>2, <1>3, <1>9, Zenon
<1> QED
  BY <1>10 DEF more

\* No nodes, no code, and the counter stays.
LEMMA GenNone ==
  ASSUME NEW below, NEW l0 PROVE gen_stmt(below, << >>, l0) = Emitted(<< >>, l0)
<1>1. Len(<< >>) = 0
  OBVIOUS
<1>2. PICK f : Gens(below, l0, << >>, Len(<< >>), f) /\ gen_stmt(below, << >>, l0) = f[Len(<< >>)]
  BY <1>1, GenIs
<1>3. f[0] = Emitted(<< >>, l0)
  BY <1>1, <1>2 DEF Gens
<1> QED
  BY <1>1, <1>2, <1>3

\* f is what Each makes of the first n nodes, one after the other.
Eachs(at, check, nodes, n, f) ==
  f = [i \in 0 .. n |-> IF i = 0 THEN check ELSE at[nodes[i]][f[i - 1]]]

\* The function in Each exists,
LEMMA EachExists ==
  ASSUME NEW at, NEW check, NEW nodes, NEW n \in Nat PROVE \E f : Eachs(at, check, nodes, n, f)
<1> DEFINE S == {m \in Nat : \E f : Eachs(at, check, nodes, m, f)}
<1>1. 0 \in S
  <2> DEFINE f == [i \in 0 .. 0 |-> check]
  <2>1. \A i \in 0 .. 0 : i = 0 /\ f[i] = check
    OBVIOUS
  <2>2. f = [i \in 0 .. 0 |-> f[i]]
    OBVIOUS
  <2> HIDE DEF f
  <2>3. f = [i \in 0 .. 0 |-> IF i = 0 THEN check ELSE at[nodes[i]][f[i - 1]]]
    BY <2>1, <2>2
  <2> QED
    BY <2>3 DEF Eachs
<1>2. ASSUME NEW m \in Nat, m \in S PROVE m + 1 \in S
  <2>1. PICK f : Eachs(at, check, nodes, m, f)
    BY <1>2
  <2>2. \A i \in 0 .. m : f[i] = IF i = 0 THEN check ELSE at[nodes[i]][f[i - 1]]
    BY <2>1 DEF Eachs
  <2> DEFINE g == [i \in 0 .. m + 1 |-> IF i <= m THEN f[i] ELSE at[nodes[i]][f[i - 1]]]
  <2>3. ASSUME NEW i \in 0 .. m + 1
        PROVE  g[i] = IF i = 0 THEN check ELSE at[nodes[i]][g[i - 1]]
    <3>1. i # 0 => i - 1 \in 0 .. m + 1 /\ i - 1 <= m
      OBVIOUS
    <3>2. i # 0 => g[i - 1] = f[i - 1]
      BY <3>1
    <3>3. g[i] = IF i = 0 THEN check ELSE at[nodes[i]][f[i - 1]]
      BY <2>2
    <3> HIDE DEF g
    <3> QED
      BY <3>2, <3>3
  <2>4. g = [i \in 0 .. m + 1 |-> g[i]]
    OBVIOUS
  <2> HIDE DEF g
  <2>5. Eachs(at, check, nodes, m + 1, g)
    BY <2>3, <2>4 DEF Eachs
  <2> QED
    BY <2>5
<1> HIDE DEF S
<1>3. n \in S
  BY <1>1, <1>2, Numbers
<1> QED
  BY <1>3 DEF S

EachStep(at, check, nodes, n, f) ==
  f[0] = check /\ \A i \in Nat : i < n => f[i + 1] = at[nodes[i + 1]][f[i]]

\* ... takes the nodes one by one
LEMMA EachsSteps ==
  ASSUME NEW at, NEW check, NEW nodes, NEW n \in Nat, NEW f, Eachs(at, check, nodes, n, f)
  PROVE  EachStep(at, check, nodes, n, f)
<1> DEFINE Rhs(i) == IF i = 0 THEN check ELSE at[nodes[i]][f[i - 1]]
<1>1. ASSUME NEW i \in 0 .. n PROVE f[i] = Rhs(i)
  <2>1. f = [j \in 0 .. n |-> Rhs(j)]
    BY DEF Eachs
  <2> HIDE DEF Rhs
  <2> QED
    BY <2>1
<1>2. f[0] = check
  BY <1>1
<1>3. ASSUME NEW i \in Nat, i < n PROVE f[i + 1] = at[nodes[i + 1]][f[i]]
  <2>1. PICK m \in 0 .. n : m = i + 1 /\ m # 0 /\ m - 1 = i
    BY <1>3
  <2>2. f[m] = Rhs(m)
    BY <1>1
  <2>3. Rhs(m) = at[nodes[m]][f[m - 1]]
    BY ONLY <2>1
  <2> HIDE DEF Rhs
  <2> QED
    BY ONLY <2>1, <2>2, <2>3, Zenon
<1> QED
  BY <1>2, <1>3 DEF EachStep

\* ... and has the value of Each at the end.
LEMMA EachIs ==
  ASSUME NEW at, NEW check, NEW nodes, Len(nodes) \in Nat
  PROVE  \E f : Eachs(at, check, nodes, Len(nodes), f) /\ Each(at, check, nodes) = f[Len(nodes)]
<1> DEFINE F == CHOOSE f : Eachs(at, check, nodes, Len(nodes), f)
<1>1. Eachs(at, check, nodes, Len(nodes), F)
  BY EachExists
<1>2. Each(at, check, nodes) = F[Len(nodes)]
  BY DEF Each, Eachs
<1> QED
  BY <1>1, <1>2

\* One node after the others
LEMMA EachAppend ==
  ASSUME NEW at, NEW check, NEW N, NEW nodes \in Seq(N), NEW n \in N
  PROVE  Each(at, check, Append(nodes, n)) = at[n][Each(at, check, nodes)]
<1> DEFINE l == Len(nodes)
           more == Append(nodes, n)
<1>1. /\ l \in Nat /\ Len(more) = l + 1 /\ more[l + 1] = n
      /\ \A i \in 1 .. l : more[i] = nodes[i]
  OBVIOUS
<1> HIDE DEF more
<1>2. PICK g : Eachs(at, check, more, l + 1, g) /\ Each(at, check, more) = g[l + 1]
  BY <1>1, EachIs
<1>3. PICK f : Eachs(at, check, nodes, l, f) /\ Each(at, check, nodes) = f[l]
  BY <1>1, EachIs
<1>4. g[0] = check /\ \A i \in Nat : i < l + 1 => g[i + 1] = at[more[i + 1]][g[i]]
  <2>1. PICK m \in Nat : m = l + 1
    BY <1>1
  <2>2. Eachs(at, check, more, m, g)
    BY <1>2, <2>1
  <2>3. EachStep(at, check, more, m, g)
    BY <2>2, EachsSteps, Zenon
  <2> QED
    BY <2>1, <2>3 DEF EachStep
<1>5. f[0] = check /\ \A i \in Nat : i < l => f[i + 1] = at[nodes[i + 1]][f[i]]
  <2>1. l \in Nat /\ Eachs(at, check, nodes, l, f)
    BY <1>1, <1>3
  <2>2. EachStep(at, check, nodes, l, f)
    BY ONLY <2>1, EachsSteps, Zenon
  <2> QED
    BY <2>2 DEF EachStep
<1> DEFINE Same == {i \in Nat : i <= l => g[i] = f[i]}
<1>6. 0 \in Same
  BY <1>4, <1>5
<1>7. ASSUME NEW i \in Nat, i \in Same PROVE i + 1 \in Same
  <2> SUFFICES ASSUME i + 1 <= l PROVE g[i + 1] = f[i + 1]
    OBVIOUS
  <2>1. i < l /\ i < l + 1 /\ i + 1 \in 1 .. l /\ g[i] = f[i]
    BY <1>1, <1>7
  <2>2. more[i + 1] = nodes[i + 1]
    BY <1>1, <2>1
  <2>3. g[i + 1] = at[more[i + 1]][g[i]] /\ f[i + 1] = at[nodes[i + 1]][f[i]]
    BY <1>4, <1>5, <2>1
  <2> QED
    BY ONLY <2>1, <2>2, <2>3, Zenon
<1> HIDE DEF Same
<1>8. l \in Same
  BY <1>1, <1>6, <1>7, Numbers
<1>9. g[l] = f[l] /\ g[l + 1] = at[more[l + 1]][g[l]]
  <2>1. l \in Nat /\ l <= l /\ l < l + 1
    BY <1>1
  <2>2. g[l] = f[l]
    BY <1>8, <2>1 DEF Same
  <2> QED
    BY <1>4, <2>1, <2>2
<1>10. Each(at, check, more) = at[n][Each(at, check, nodes)]
  BY ONLY <1>1, <1>2, <1>3, <1>9, Zenon
<1> QED
  BY <1>10 DEF more

\* Without nodes the verdict stays.
LEMMA EachNone ==
  ASSUME NEW at, NEW check PROVE Each(at, check, << >>) = check
<1>1. Len(<< >>) = 0
  OBVIOUS
<1>2. PICK f : Eachs(at, check, << >>, Len(<< >>), f) /\ Each(at, check, << >>) = f[Len(<< >>)]
  BY <1>1, EachIs
<1>3. f[0] = check
  BY <1>1, <1>2 DEF Eachs
<1> QED
  BY <1>1, <1>2, <1>3

\* What holds of the empty sequence and is kept by one element more holds of all.
LEMMA SequenceInduction ==
  ASSUME NEW E, NEW P, << >> \in P, \A s \in Seq(E), e \in E : s \in P => Append(s, e) \in P
  PROVE  Seq(E) \subseteq P
<1> DEFINE S == {n \in Nat : \A s \in Seq(E) : Len(s) = n => s \in P}
<1>1. 0 \in S
  <2>1. \A s \in Seq(E) : Len(s) = 0 => s = << >>
    OBVIOUS
  <2> QED
    BY <2>1
<1>2. ASSUME NEW n \in Nat, n \in S PROVE n + 1 \in S
  <2> SUFFICES ASSUME NEW s \in Seq(E), Len(s) = n + 1 PROVE s \in P
    OBVIOUS
  <2> DEFINE front == [i \in 1 .. n |-> s[i]]
  <2>1. s[n + 1] \in E /\ \A i \in 1 .. n : s[i] \in E
    OBVIOUS
  <2>2. front \in Seq(E) /\ Len(front) = n
    BY <2>1
  <2>3. s = Append(front, s[n + 1])
    BY <2>2
  <2> QED
    BY <1>2, <2>1, <2>2, <2>3
<1> HIDE DEF S
<1>3. \A n \in Nat : n \in S
  BY <1>1, <1>2, Numbers
<1> QED
  BY <1>3 DEF S

(***************************************************************************)
(* What the parser makes of a statement: nothing, or one node.             *)
(***************************************************************************)

\* NULL is nothing where something may be.
LEMMA NoneIsOptional ==
  ASSUME NEW S PROVE NULL \in Optional(S) /\ NULL = << >>
  BY DEF Optional, NULL

\* One is at most one.
LEMMA OneIsOptional ==
  ASSUME NEW S, NEW o \in One(S) PROVE o \in Optional(S)
<1>1. Len(o) = 1 /\ 1 <= 1
  BY DEF One
<1> QED
  BY <1>1 DEF One, Optional

\* The nodes of the statements of depth k
Made(k) == \A s \in Statements[k], l \in Nat : stmt[k][s][l] \in Optional(StmtNodes[k])

ident(name, line) == node("IDENT", line, name, 0, "", NULL, NULL, NULL)
assignment(name, value, line) == node("ASSIGN", line, NoName, 0, "", << ident(name, line) >>, value, NULL)

\* The tree of a name is a node that can be assigned to.
LEMMA Idents ==
  ASSUME NEW k \in Depths, k # 0, NEW name \in STRING, NEW line \in Nat
  PROVE  << ident(name, line) >> \in One({n \in ExprNodes[k] : n.type = "IDENT"})
<1>1. ident(name, line) \in Leaf("IDENT") /\ ident(name, line).type = "IDENT"
  BY ZeroIsInt DEF Leaf, Shape, node, ident
<1>2. ExprNodes[k] = ExprNode(ExprNodes[k - 1])
  BY ExprNodesOf
<1>3. ident(name, line) \in ExprNodes[k]
  BY <1>1, <1>2 DEF ExprNode
<1>4. ident(name, line) \in {n \in ExprNodes[k] : n.type = "IDENT"}
  BY <1>1, <1>3
<1> QED
  BY <1>4, OneIn

\* An assignment, also the step of a for, becomes one node.
LEMMA AssignMakes ==
  ASSUME NEW k \in Depths, k # 0, NEW s, s.name \in STRING, s.expr \in Expressions[k - 1],
         NEW line \in Nat
  PROVE  /\ expr[k - 1][s.expr][line] \in One(ExprNodes[k - 1])
         /\ for_assign(expr[k - 1], s, line) = << assignment(s.name, expr[k - 1][s.expr][line], line) >>
         /\ assignment(s.name, expr[k - 1][s.expr][line], line) \in StmtNodes[k]
<1> DEFINE e == expr[k - 1][s.expr][line]
           i == << ident(s.name, line) >>
           n == node("ASSIGN", line, NoName, 0, "", i, e, NULL)
<1>1. /\ k - 1 \in Depths /\ k - 1 # 0
      /\ StmtNodes[k] = StmtNode(ExprNodes[k - 1], StmtNodes[k - 1])
  BY ExprNodesOf, NothingAtZero
<1>2. e \in One(ExprNodes[k - 1])
  BY <1>1, ExprMakesNode
<1>3. i \in One({x \in ExprNodes[k - 1] : x.type = "IDENT"})
  BY <1>1, Idents
<1>4. ast_make_ident(s.name, line) = i
  BY IdentNode DEF ident
<1>5. for_assign(expr[k - 1], s, line) = ast_make_assign(i, e, line)
  BY <1>4 DEF for_assign
<1> HIDE DEF e, i
<1>6. ast_make_assign(i, e, line) = << n >>
  BY AssignNode
<1>7. n \in Shape("ASSIGN", {""}, One({x \in ExprNodes[k - 1] : x.type = "IDENT"}),
                  One(ExprNodes[k - 1]), {NULL})
  BY <1>2, <1>3, ZeroIsInt DEF Shape, node
<1>8. n \in StmtNodes[k]
  BY <1>1, <1>7 DEF StmtNode
<1> QED
  BY <1>2, <1>5, <1>6, <1>8 DEF e, i, assignment

VarInit(d, s, next) ==
  IF s.init = << >> THEN NULL ELSE expr[d - 1][s.init[1]][yylineno[d][s][next]]
VarIs(d, s, next) ==
  node("VAR_DECL", yylineno[d][s][next], s.name, 0, "", VarInit(d, s, next), NULL, NULL)

\* A declaration becomes one node.
LEMMA VarMakes ==
  ASSUME NEW d \in Depths, NEW s \in Statements[d], NEW next \in Nat, s.kind = "var"
  PROVE  /\ stmt[d][s][next] = << VarIs(d, s, next) >> /\ VarIs(d, s, next) \in StmtNodes[d]
         /\ VarInit(d, s, next) \in Optional(ExprNodes[d - 1])
         /\ yylineno[d][s][next] \in Nat
<1> DEFINE line == yylineno[d][s][next]
           init == IF s.init = << >> THEN NULL ELSE expr[d - 1][s.init[1]][line]
           n == node("VAR_DECL", line, s.name, 0, "", init, NULL, NULL)
<1>1. /\ d # 0 /\ d - 1 \in Depths /\ s.name \in STRING
      /\ s.init # << >> => s.init[1] \in Expressions[d - 1]
  BY StatementForms
<1>2. line \in Nat
  BY LineReachedIsNat
<1>3. StmtNodes[d] = StmtNode(ExprNodes[d - 1], StmtNodes[d - 1])
  BY <1>1, ExprNodesOf
<1>4. stmt[d][s][next] = Stmt(d, stmt[d - 1], s, next)
  BY StmtIs
<1>5. stmt[d][s][next] = ast_make_var_decl(s.name, init, line)
  <2>1. CASE s.init = << >>
    BY <1>4, <2>1 DEF Stmt, NULL
  <2>2. CASE s.init # << >>
    BY <1>4, <2>2 DEF Stmt, NULL
  <2> QED
    BY <2>1, <2>2
<1>6. init \in Optional(ExprNodes[d - 1])
  <2>1. CASE s.init = << >>
    BY <2>1 DEF Optional, NULL
  <2>2. CASE s.init # << >>
    <3>1. expr[d - 1][s.init[1]][line] \in One(ExprNodes[d - 1])
      BY <1>1, <1>2, <2>2, ExprMakesNode
    <3> QED
      BY <2>2, <3>1, OneIsOptional
  <2> QED
    BY <2>1, <2>2
<1> HIDE DEF init, line
<1>7. stmt[d][s][next] = << n >>
  BY <1>5, VarDeclNode
<1>8. n \in Shape("VAR_DECL", {""}, Optional(ExprNodes[d - 1]), {NULL}, {NULL})
  BY <1>1, <1>2, <1>6, ZeroIsInt DEF Shape, node
<1>9. n \in StmtNodes[d]
  BY <1>3, <1>8 DEF StmtNode
<1> QED
  BY <1>2, <1>6, <1>7, <1>9 DEF init, line, VarInit, VarIs

\* The parts of a condition, and what is made of them
LEMMA OptionalSeq ==
  ASSUME NEW S, NEW o \in Optional(S) PROVE o \in Seq(S)
  BY DEF Optional

Condition(d, s) == expr[d - 1][s.cond][s.line]

\* A condition becomes the tree of an expression.
LEMMA Conditions ==
  ASSUME NEW d \in Depths, NEW s \in Statements[d], s.kind \in {"if", "while", "for"}
  PROVE  /\ d # 0 /\ d - 1 \in Depths /\ s.line \in Nat /\ s.cond \in Expressions[d - 1]
         /\ Condition(d, s) \in One(ExprNodes[d - 1])
<1>1. d # 0 /\ d - 1 \in Depths /\ s.line \in Nat /\ s.cond \in Expressions[d - 1]
  BY StatementForms
<1> QED
  BY <1>1, ExprMakesNode DEF Condition

\* The node of an if, and where its parts are
IfThen(d, s, next) ==
  IF s.else = << >> THEN stmt[d - 1][s.then][next] ELSE stmt[d - 1][s.then][s.else[1].line]
IfElse(d, s, next) == IF s.else = << >> THEN NULL ELSE stmt[d - 1][s.else[1]][next]
IfIs(d, s, next) ==
  node("IF", yylineno[d][s][next], NoName, 0, "", Condition(d, s), IfThen(d, s, next), IfElse(d, s, next))

\* An if becomes one node when its branches become at most one each.
LEMMA IfMakes ==
  ASSUME NEW d \in Depths, NEW s \in Statements[d], NEW next \in Nat, s.kind = "if", Made(d - 1)
  PROVE  /\ stmt[d][s][next] = << IfIs(d, s, next) >> /\ IfIs(d, s, next) \in StmtNodes[d]
         /\ IfThen(d, s, next) \in Optional(StmtNodes[d - 1])
         /\ IfElse(d, s, next) \in Optional(StmtNodes[d - 1])
         /\ yylineno[d][s][next] \in Nat
<1> DEFINE line == yylineno[d][s][next]
           c == Condition(d, s)
           a == IfThen(d, s, next)
           b == IfElse(d, s, next)
           n == node("IF", line, NoName, 0, "", c, a, b)
<1>1. /\ d # 0 /\ d - 1 \in Depths /\ s.line \in Nat /\ s.cond \in Expressions[d - 1]
      /\ c \in One(ExprNodes[d - 1])
  BY Conditions
<1>2. /\ s.then \in Statements[d - 1]
      /\ s.else # << >> => s.else[1] \in Statements[d - 1]
  BY StatementForms
<1>3. line \in Nat
  BY LineReachedIsNat
<1>4. StmtNodes[d] = StmtNode(ExprNodes[d - 1], StmtNodes[d - 1])
  BY <1>1, ExprNodesOf
<1>5. s.else # << >> => s.else[1].line \in Nat
  BY <1>1, <1>2, StatementForms
<1>6. a \in Optional(StmtNodes[d - 1]) /\ b \in Optional(StmtNodes[d - 1])
  <2>1. CASE s.else = << >>
    BY <1>2, <2>1, NoneIsOptional DEF IfThen, IfElse, Made
  <2>2. CASE s.else # << >>
    BY <1>2, <1>5, <2>2 DEF IfThen, IfElse, Made
  <2> QED
    BY <2>1, <2>2
<1>7. stmt[d][s][next] = Stmt(d, stmt[d - 1], s, next)
  BY StmtIs
<1>8. stmt[d][s][next] = ast_make_if(c, a, b, line)
  <2>1. CASE s.else = << >>
    BY <1>7, <2>1 DEF Stmt, NULL, IfThen, IfElse, Condition
  <2>2. CASE s.else # << >>
    BY <1>7, <2>2 DEF Stmt, NULL, IfThen, IfElse, Condition
  <2> QED
    BY <2>1, <2>2
<1> HIDE DEF line, c, a, b
<1>9. stmt[d][s][next] = << n >>
  BY <1>8, IfNode
<1>10. n \in Shape("IF", {""}, One(ExprNodes[d - 1]), Seq(StmtNodes[d - 1]), Seq(StmtNodes[d - 1]))
  BY <1>1, <1>3, <1>6, ZeroIsInt, OptionalSeq DEF Shape, node
<1>11. n \in StmtNodes[d]
  BY <1>4, <1>10 DEF StmtNode
<1> QED
  BY <1>3, <1>6, <1>9, <1>11 DEF line, c, a, b, IfIs

WhileIs(d, s, next) ==
  node("WHILE", yylineno[d][s][next], NoName, 0, "", Condition(d, s), stmt[d - 1][s.body][next], NULL)

\* So does a while, with its body,
LEMMA WhileMakes ==
  ASSUME NEW d \in Depths, NEW s \in Statements[d], NEW next \in Nat, s.kind = "while", Made(d - 1)
  PROVE  /\ stmt[d][s][next] = << WhileIs(d, s, next) >> /\ WhileIs(d, s, next) \in StmtNodes[d]
         /\ stmt[d - 1][s.body][next] \in Optional(StmtNodes[d - 1])
         /\ yylineno[d][s][next] \in Nat
<1> DEFINE line == yylineno[d][s][next]
           c == Condition(d, s)
           b == stmt[d - 1][s.body][next]
           n == node("WHILE", line, NoName, 0, "", c, b, NULL)
<1>1. /\ d # 0 /\ d - 1 \in Depths /\ s.line \in Nat /\ s.cond \in Expressions[d - 1]
      /\ c \in One(ExprNodes[d - 1])
  BY Conditions
<1>2. s.body \in Statements[d - 1]
  BY StatementForms
<1>3. line \in Nat
  BY LineReachedIsNat
<1>4. StmtNodes[d] = StmtNode(ExprNodes[d - 1], StmtNodes[d - 1])
  BY <1>1, ExprNodesOf
<1>5. b \in Optional(StmtNodes[d - 1])
  BY <1>2 DEF Made
<1>6. stmt[d][s][next] = ast_make_while(c, b, line)
  BY StmtIs DEF Stmt, Condition
<1> HIDE DEF line, c, b
<1>7. stmt[d][s][next] = << n >>
  BY <1>6, WhileNode
<1>8. n \in Shape("WHILE", {""}, One(ExprNodes[d - 1]), Seq(StmtNodes[d - 1]), {NULL})
  BY <1>1, <1>3, <1>5, ZeroIsInt, OptionalSeq DEF Shape, node
<1>9. n \in StmtNodes[d]
  BY <1>4, <1>8 DEF StmtNode
<1> QED
  BY <1>3, <1>5, <1>7, <1>9 DEF line, c, b, WhileIs

ForStep(d, s) == assignment(s.step.name, expr[d - 2][s.step.expr][s.line], s.line)
ForIs(d, s, next) ==
  node("FOR", yylineno[d][s][next], NoName, 0, "", stmt[d - 1][s.init][s.line], Condition(d, s),
       Append(stmt[d - 1][s.body][next], ForStep(d, s)))

\* ... and a for, with its initialisation and its body.
LEMMA ForMakes ==
  ASSUME NEW d \in Depths, NEW s \in Statements[d], NEW next \in Nat, s.kind = "for", Made(d - 1)
  PROVE  /\ stmt[d][s][next] = << ForIs(d, s, next) >> /\ ForIs(d, s, next) \in StmtNodes[d]
         /\ stmt[d - 1][s.init][s.line] \in Optional(StmtNodes[d - 1])
         /\ stmt[d - 1][s.body][next] \in Optional(StmtNodes[d - 1])
         /\ ForStep(d, s) \in StmtNodes[d - 1]
         /\ expr[d - 2][s.step.expr][s.line] \in One(ExprNodes[d - 2])
         /\ yylineno[d][s][next] \in Nat
<1> DEFINE line == yylineno[d][s][next]
           c == Condition(d, s)
           i == stmt[d - 1][s.init][s.line]
           b == stmt[d - 1][s.body][next]
           t == ForStep(d, s)
           n == node("FOR", line, NoName, 0, "", i, c, Append(b, t))
<1>1. /\ d # 0 /\ d - 1 \in Depths /\ s.line \in Nat /\ s.cond \in Expressions[d - 1]
      /\ c \in One(ExprNodes[d - 1])
  BY Conditions
<1>2. /\ s.body \in Statements[d - 1] /\ s.init \in Statements[d - 1]
      /\ d - 2 \in Depths /\ (d - 1) - 1 = d - 2
      /\ s.step.name \in STRING /\ s.step.expr \in Expressions[d - 2]
  BY StatementForms
<1>3. line \in Nat
  BY LineReachedIsNat
<1>4. StmtNodes[d] = StmtNode(ExprNodes[d - 1], StmtNodes[d - 1])
  BY <1>1, ExprNodesOf
<1>5. b \in Optional(StmtNodes[d - 1]) /\ i \in Optional(StmtNodes[d - 1])
  BY <1>1, <1>2 DEF Made
<1>6. /\ expr[d - 2][s.step.expr][s.line] \in One(ExprNodes[d - 2])
      /\ for_assign(expr[d - 2], s.step, s.line) = << t >>
      /\ t \in StmtNodes[d - 1]
  <2>1. PICK k \in Depths : k = d - 1 /\ k - 1 = d - 2 /\ k # 0
    BY <1>1, <1>2, NothingAtZero
  <2>2. s.step.expr \in Expressions[k - 1]
    BY <1>2, <2>1
  <2>3. /\ expr[k - 1][s.step.expr][s.line] \in One(ExprNodes[k - 1])
        /\ for_assign(expr[k - 1], s.step, s.line) =
             << assignment(s.step.name, expr[k - 1][s.step.expr][s.line], s.line) >>
        /\ assignment(s.step.name, expr[k - 1][s.step.expr][s.line], s.line) \in StmtNodes[k]
    BY <1>1, <1>2, <2>1, <2>2, AssignMakes
  <2> QED
    BY <2>1, <2>3 DEF ForStep
<1>7. stmt[d][s][next] = ast_make_for(i, c, << t >>, b, line)
  BY <1>6, StmtIs DEF Stmt, Condition
<1> HIDE DEF line, c, b, i, t
<1>8. b \o << t >> = Append(b, t) /\ Append(b, t) \in Seq(StmtNodes[d - 1])
  BY <1>5, <1>6, OptionalSeq
<1>9. stmt[d][s][next] = << n >>
  BY <1>7, <1>8, ForNode
<1>10. n \in Shape("FOR", {""}, Seq(StmtNodes[d - 1]), One(ExprNodes[d - 1]), Seq(StmtNodes[d - 1]))
  BY <1>1, <1>3, <1>5, <1>8, ZeroIsInt, OptionalSeq DEF Shape, node
<1>11. n \in StmtNodes[d]
  BY <1>4, <1>10 DEF StmtNode
<1> QED
  BY <1>3, <1>5, <1>6, <1>9, <1>11 DEF line, c, b, i, t, ForIs

\* A function on 1 .. n is a sequence of n elements.
LEMMA IsSequence ==
  ASSUME NEW T, NEW n \in Nat, NEW f, f = [i \in 1 .. n |-> f[i]], \A i \in 1 .. n : f[i] \in T
  PROVE  f \in Seq(T) /\ Len(f) = n
  OBVIOUS

\* Append, element by element.
LEMMA AppendIs ==
  ASSUME NEW S, NEW a \in Seq(S), NEW o \in S
  PROVE  Append(a, o) = [i \in 1 .. Len(a) + 1 |-> IF i <= Len(a) THEN a[i] ELSE o]
<1> DEFINE b == Append(a, o)
<1>1. /\ b \in Seq(S) /\ Len(b) = Len(a) + 1 /\ Len(a) \in Nat
      /\ \A i \in 1 .. Len(a) : b[i] = a[i]
      /\ b[Len(a) + 1] = o
  OBVIOUS
<1> HIDE DEF b
<1>2. b = [i \in 1 .. Len(a) + 1 |-> b[i]]
  BY <1>1
<1>3. \A i \in 1 .. Len(a) + 1 : b[i] = IF i <= Len(a) THEN a[i] ELSE o
  BY <1>1
<1> QED
  BY <1>2, <1>3 DEF b

\* A list of statements: the nodes of the last one come behind the others.
LEMMA ListAppend ==
  ASSUME NEW k \in Depths, Made(k), NEW ss \in Seq(Statements[k]), NEW s \in Statements[k],
         NEW last \in Nat
  PROVE  /\ stmt_list(stmt[k], ss, s.line) \in Seq(StmtNodes[k])
         /\ stmt_list(stmt[k], Append(ss, s), last) =
              stmt_list(stmt[k], ss, s.line) \o stmt[k][s][last]
<1> DEFINE more == Append(ss, s)
           a == [i \in DOMAIN ss |-> stmt[k][ss[i]][Follows(ss, i, s.line)]]
           b == [i \in DOMAIN more |-> stmt[k][more[i]][Follows(more, i, last)]]
           o == stmt[k][s][last]
<1>1. \A x \in Statements[k] : x.line \in Nat
  BY StatementForms
<1>2. /\ DOMAIN ss = 1 .. Len(ss) /\ Len(ss) \in Nat
      /\ DOMAIN more = 1 .. Len(ss) + 1 /\ Len(more) = Len(ss) + 1 /\ more[Len(ss) + 1] = s
      /\ \A i \in 1 .. Len(ss) : more[i] = ss[i] /\ ss[i] \in Statements[k]
  OBVIOUS
<1>3. ASSUME NEW i \in 1 .. Len(ss)
      PROVE  Follows(ss, i, s.line) \in Nat /\ Follows(more, i, last) = Follows(ss, i, s.line)
  <2> HIDE DEF more
  <2>1. CASE i < Len(ss)
    <3>1. /\ i + 1 \in 1 .. Len(ss) /\ i < Len(more)
          /\ more[i + 1] = ss[i + 1] /\ ss[i + 1] \in Statements[k]
      BY <1>2, <2>1
    <3> QED
      BY <1>1, <2>1, <3>1 DEF Follows
  <2>2. CASE i = Len(ss)
    BY <1>1, <1>2, <2>2 DEF Follows
  <2> QED
    BY <2>1, <2>2
<1>4. Follows(more, Len(ss) + 1, last) = last
  BY <1>2 DEF Follows
<1>5. o \in Seq(StmtNodes[k])
  BY OptionalSeq DEF Made
<1> HIDE DEF more
<1>6. ASSUME NEW i \in 1 .. Len(ss) PROVE a[i] \in Seq(StmtNodes[k])
  BY <1>2, <1>3, <1>6, OptionalSeq DEF Made
<1>7. a \in Seq(Seq(StmtNodes[k])) /\ Len(a) = Len(ss)
  <2>1. a = [i \in 1 .. Len(ss) |-> a[i]]
    BY <1>2
  <2> HIDE DEF a
  <2> QED
    BY <1>2, <1>6, <2>1, IsSequence
<1>8. b = Append(a, o)
  <2>1. \A i \in 1 .. Len(ss) : b[i] = a[i]
    BY <1>2, <1>3
  <2>2. b[Len(ss) + 1] = o
    BY <1>2, <1>4
  <2>3. b = [i \in 1 .. Len(ss) + 1 |-> b[i]]
    BY <1>2
  <2> HIDE DEF a, b
  <2>4. Append(a, o) = [i \in 1 .. Len(ss) + 1 |-> IF i <= Len(ss) THEN a[i] ELSE o]
    BY ONLY <1>5, <1>7, AppendIs
  <2>5. \A i \in 1 .. Len(ss) + 1 : i <= Len(ss) \/ i = Len(ss) + 1
    BY <1>2
  <2>6. \A i \in 1 .. Len(ss) + 1 : b[i] = IF i <= Len(ss) THEN a[i] ELSE o
    BY <1>2, <2>1, <2>2, <2>5
  <2> QED
    BY <2>3, <2>4, <2>6
<1>9. stmt_list(stmt[k], ss, s.line) = FlattenSeq(a) /\ stmt_list(stmt[k], more, last) = FlattenSeq(b)
  BY DEF stmt_list
<1> HIDE DEF a, b, o
<1>10. FlattenSeq(a) \in Seq(StmtNodes[k]) /\ FlattenSeq(b) = FlattenSeq(a) \o o
  BY <1>5, <1>7, <1>8, FlattenAppend
<1> QED
  BY <1>9, <1>10 DEF o, more

\* The empty list of statements becomes no node.
LEMMA ListNone ==
  ASSUME NEW k, NEW last PROVE stmt_list(stmt[k], << >>, last) = << >>
<1>1. [i \in DOMAIN << >> |-> stmt[k][<< >>[i]][Follows(<< >>, i, last)]] = << >>
  OBVIOUS
<1> QED
  BY <1>1 DEF stmt_list, FlattenSeq

\* The nodes of a list of statements are nodes.
LEMMA ListMakes ==
  ASSUME NEW k \in Depths, Made(k), NEW ss \in Seq(Statements[k]), NEW last \in Nat
  PROVE  stmt_list(stmt[k], ss, last) \in Seq(StmtNodes[k])
<1> DEFINE P == {x \in Seq(Statements[k]) :
                   \A l \in Nat : stmt_list(stmt[k], x, l) \in Seq(StmtNodes[k])}
<1>1. << >> \in P
  <2>1. << >> \in Seq(Statements[k]) /\ << >> \in Seq(StmtNodes[k])
    OBVIOUS
  <2> QED
    BY <2>1, ListNone
<1>2. ASSUME NEW x \in Seq(Statements[k]), NEW s \in Statements[k] PROVE Append(x, s) \in P
  <2> SUFFICES ASSUME NEW l \in Nat PROVE stmt_list(stmt[k], Append(x, s), l) \in Seq(StmtNodes[k])
    OBVIOUS
  <2>1. stmt[k][s][l] \in Seq(StmtNodes[k])
    BY OptionalSeq DEF Made
  <2>2. /\ stmt_list(stmt[k], x, s.line) \in Seq(StmtNodes[k])
        /\ stmt_list(stmt[k], Append(x, s), l) = stmt_list(stmt[k], x, s.line) \o stmt[k][s][l]
    BY ListAppend
  <2> QED
    BY ONLY <2>1, <2>2, ConcatProperties
<1> HIDE DEF P
<1>3. Seq(Statements[k]) \subseteq P
  BY <1>1, <1>2, SequenceInduction
<1> QED
  BY <1>3 DEF P

BlockIs(nodes) == node("BLOCK", 0, NoName, 0, "", nodes, NULL, NULL)

\* A block becomes one node.
LEMMA BlockMakes ==
  ASSUME NEW d \in Depths, NEW s \in Statements[d], NEW next \in Nat, s.kind = "block", Made(d - 1)
  PROVE  /\ stmt[d][s][next] = << BlockIs(stmt_list(stmt[d - 1], s.stmts, s.last)) >>
         /\ BlockIs(stmt_list(stmt[d - 1], s.stmts, s.last)) \in StmtNodes[d]
         /\ stmt_list(stmt[d - 1], s.stmts, s.last) \in Seq(StmtNodes[d - 1])
<1> DEFINE b == stmt_list(stmt[d - 1], s.stmts, s.last)
           n == node("BLOCK", 0, NoName, 0, "", b, NULL, NULL)
<1>1. d # 0 /\ d - 1 \in Depths /\ s.stmts \in Seq(Statements[d - 1]) /\ s.last \in Nat
  BY StatementForms
<1>2. StmtNodes[d] = StmtNode(ExprNodes[d - 1], StmtNodes[d - 1])
  BY <1>1, ExprNodesOf
<1>3. b \in Seq(StmtNodes[d - 1])
  BY <1>1, ListMakes
<1>4. stmt[d][s][next] = ast_make_block(b)
  BY StmtIs DEF Stmt
<1> HIDE DEF b
<1>5. stmt[d][s][next] = << n >>
  BY <1>4, BlockNode
<1>6. n \in Shape("BLOCK", {""}, Seq(StmtNodes[d - 1]), {NULL}, {NULL})
  BY <1>3, ZeroIsInt DEF Shape, node
<1>7. n \in StmtNodes[d]
  BY <1>2, <1>6 DEF StmtNode
<1> QED
  BY <1>3, <1>5, <1>7 DEF b, BlockIs

\* An assignment statement becomes one node.
LEMMA AssignIs ==
  ASSUME NEW d \in Depths, NEW s \in Statements[d], NEW next \in Nat, s.kind = "assign"
  PROVE  /\ stmt[d][s][next] = << assignment(s.name, expr[d - 1][s.expr][yylineno[d][s][next]], yylineno[d][s][next]) >>
         /\ assignment(s.name, expr[d - 1][s.expr][yylineno[d][s][next]], yylineno[d][s][next]) \in StmtNodes[d]
         /\ expr[d - 1][s.expr][yylineno[d][s][next]] \in One(ExprNodes[d - 1])
         /\ yylineno[d][s][next] \in Nat
<1>1. d # 0 /\ s.name \in STRING /\ s.expr \in Expressions[d - 1]
  BY StatementForms
<1>2. yylineno[d][s][next] \in Nat
  BY LineReachedIsNat
<1>3. stmt[d][s][next] = for_assign(expr[d - 1], s, yylineno[d][s][next])
  BY StmtIs DEF Stmt
<1> QED
  BY <1>1, <1>2, <1>3, AssignMakes

\* An empty statement becomes none.
LEMMA EmptyMakes ==
  ASSUME NEW d \in Depths, NEW s \in Statements[d], NEW next \in Nat, s.kind = "empty"
  PROVE  stmt[d][s][next] = NULL
  BY StmtIs DEF Stmt

\* There is no other kind of statement.
LEMMA Kinds ==
  ASSUME NEW d \in Depths, NEW s \in Statements[d]
  PROVE  s.kind \in {"var", "assign", "if", "while", "for", "block", "empty"}
  BY StatementForms

\* Every statement becomes at most one node of its depth.
LEMMA StatementsMake ==
  ASSUME NEW d \in Depths PROVE Made(d)
<1> DEFINE S == {k \in Depths : Made(k)}
<1>1. 0 \in S
  BY NothingAtZero DEF Made
<1>2. ASSUME NEW k \in Depths \ {0}, k - 1 \in Depths, k - 1 \in S PROVE k \in S
  <2> SUFFICES ASSUME NEW s \in Statements[k], NEW l \in Nat
               PROVE  stmt[k][s][l] \in Optional(StmtNodes[k])
    BY DEF Made
  <2>0. Made(k - 1)
    BY <1>2
  <2>1. CASE s.kind = "var"
    <3>1. \E n \in StmtNodes[k] : stmt[k][s][l] = << n >>
      BY <2>1, VarMakes
    <3> QED
      BY <3>1, OneIn
  <2>2. CASE s.kind = "assign"
    <3>1. \E n \in StmtNodes[k] : stmt[k][s][l] = << n >>
      BY <2>2, AssignIs
    <3> QED
      BY <3>1, OneIn
  <2>3. CASE s.kind = "if"
    <3>1. \E n \in StmtNodes[k] : stmt[k][s][l] = << n >>
      BY <2>0, <2>3, IfMakes
    <3> QED
      BY <3>1, OneIn
  <2>4. CASE s.kind = "while"
    <3>1. \E n \in StmtNodes[k] : stmt[k][s][l] = << n >>
      BY <2>0, <2>4, WhileMakes
    <3> QED
      BY <3>1, OneIn
  <2>5. CASE s.kind = "for"
    <3>1. \E n \in StmtNodes[k] : stmt[k][s][l] = << n >>
      BY <2>0, <2>5, ForMakes
    <3> QED
      BY <3>1, OneIn
  <2>6. CASE s.kind = "block"
    <3>1. \E n \in StmtNodes[k] : stmt[k][s][l] = << n >>
      BY <2>0, <2>6, BlockMakes
    <3> QED
      BY <3>1, OneIn
  <2>7. CASE s.kind = "empty"
    BY <2>7, EmptyMakes, NoneIsOptional
  <2> QED
    BY <2>1, <2>2, <2>3, <2>4, <2>5, <2>6, <2>7, Kinds
<1> HIDE DEF S
<1>3. Depths \subseteq S
  BY <1>1, <1>2, DepthInduction
<1> QED
  BY <1>3 DEF S

(***************************************************************************)
(* Pieces of code.                                                         *)
(***************************************************************************)

Targets(c) == {c[i].value : i \in {j \in DOMAIN c : IsJump(c[j])}}

\* Labels are distinct and constants are ints.
Clean(c) ==
  /\ \A i, j \in DOMAIN c :
       IsLabel(c[i]) /\ IsLabel(c[j]) /\ c[i].value = c[j].value => i = j
  /\ \A i \in DOMAIN c : c[i].op = "LOAD_CONST" => c[i].value \in Ints

\* An instruction finds its operands, a label and a jump nothing else.
Fits(op, k) ==
  /\ k >= Pops(op)
  /\ op \in {"LABEL", "JMP"} => k = 0
  /\ op \in {"STORE_VAR", "JZ"} => k = 1

\* p is how deep the stack is before each instruction and at the end, in B.
Along(c, p, B) ==
  /\ p \in [1 .. Len(c) + 1 -> B]
  /\ \A i \in 1 .. Len(c) : Fits(c[i].op, p[i]) /\ p[i + 1] = p[i] + Change(c[i].op)

\* c has the labels L, jumps to T, and takes the stack from depth a to depth b.
Piece(c, L, T, a, b, B) ==
  /\ c \in Seq(IRInstr) /\ Clean(c)
  /\ LabelIds(c) = L /\ Targets(c) = T
  /\ \E p : Along(c, p, B) /\ p[1] = a /\ p[Len(c) + 1] = b

\* One piece behind the other.
LEMMA Both ==
  ASSUME NEW c1 \in Seq(IRInstr), NEW c2 \in Seq(IRInstr)
  PROVE  /\ c1 \o c2 \in Seq(IRInstr) /\ Len(c1 \o c2) = Len(c1) + Len(c2)
         /\ Len(c1) \in Nat /\ Len(c2) \in Nat
         /\ \A i \in 1 .. Len(c1) : (c1 \o c2)[i] = c1[i]
         /\ \A i \in 1 .. Len(c2) : (c1 \o c2)[Len(c1) + i] = c2[i]
         /\ \A i \in 1 .. Len(c1) + Len(c2) :
              i \in 1 .. Len(c1) \/ \E j \in 1 .. Len(c2) : i = Len(c1) + j
         /\ DOMAIN c1 = 1 .. Len(c1) /\ DOMAIN c2 = 1 .. Len(c2)
         /\ DOMAIN (c1 \o c2) = 1 .. Len(c1) + Len(c2)
<1>1. /\ c1 \o c2 \in Seq(IRInstr) /\ Len(c1 \o c2) = Len(c1) + Len(c2)
      /\ Len(c1) \in Nat /\ Len(c2) \in Nat
      /\ DOMAIN c1 = 1 .. Len(c1) /\ DOMAIN c2 = 1 .. Len(c2)
      /\ DOMAIN (c1 \o c2) = 1 .. Len(c1) + Len(c2)
  OBVIOUS
<1>2. \A i \in 1 .. Len(c1) : (c1 \o c2)[i] = c1[i]
  OBVIOUS
<1>3. \A i \in 1 .. Len(c2) : (c1 \o c2)[Len(c1) + i] = c2[i]
  OBVIOUS
<1>4. ASSUME NEW i \in 1 .. Len(c1) + Len(c2), i \notin 1 .. Len(c1)
      PROVE  \E j \in 1 .. Len(c2) : i = Len(c1) + j
  <2>1. i - Len(c1) \in 1 .. Len(c2) /\ i = Len(c1) + (i - Len(c1))
    BY <1>1, <1>4
  <2> QED
    BY <2>1
<1> QED
  BY <1>1, <1>2, <1>3, <1>4

\* Two pieces together have the labels and the jumps of both.
LEMMA BothLabels ==
  ASSUME NEW c1 \in Seq(IRInstr), NEW c2 \in Seq(IRInstr)
  PROVE  /\ LabelIds(c1 \o c2) = LabelIds(c1) \cup LabelIds(c2)
         /\ Targets(c1 \o c2) = Targets(c1) \cup Targets(c2)
<1> DEFINE c == c1 \o c2
<1>1. /\ Len(c1) \in Nat /\ Len(c2) \in Nat
      /\ \A i \in 1 .. Len(c1) : c[i] = c1[i]
      /\ \A i \in 1 .. Len(c2) : c[Len(c1) + i] = c2[i]
      /\ \A i \in 1 .. Len(c1) + Len(c2) :
           i \in 1 .. Len(c1) \/ \E j \in 1 .. Len(c2) : i = Len(c1) + j
      /\ DOMAIN c1 = 1 .. Len(c1) /\ DOMAIN c2 = 1 .. Len(c2)
      /\ DOMAIN c = 1 .. Len(c1) + Len(c2)
  BY Both
<1> HIDE DEF c
<1>2. \A i \in 1 .. Len(c1) : i \in DOMAIN c
  BY <1>1
<1>3. \A i \in 1 .. Len(c2) : Len(c1) + i \in DOMAIN c
  BY <1>1
<1>4. LabelIds(c) = LabelIds(c1) \cup LabelIds(c2)
  <2>1. LabelIds(c) \subseteq LabelIds(c1) \cup LabelIds(c2)
    <3> SUFFICES ASSUME NEW i \in DOMAIN c, IsLabel(c[i])
                 PROVE  c[i].value \in LabelIds(c1) \cup LabelIds(c2)
      BY DEF LabelIds
    <3>1. CASE i \in 1 .. Len(c1)
      BY <1>1, <3>1 DEF LabelIds
    <3>2. ASSUME NEW j \in 1 .. Len(c2), i = Len(c1) + j
          PROVE  c[i].value \in LabelIds(c1) \cup LabelIds(c2)
      <4>1. c[i] = c2[j]
        BY <1>1, <3>2
      <4> QED
        BY <1>1, <4>1 DEF LabelIds
    <3> QED
      BY <1>1, <3>1, <3>2
  <2>2. LabelIds(c1) \subseteq LabelIds(c)
    BY <1>1, <1>2 DEF LabelIds
  <2>3. LabelIds(c2) \subseteq LabelIds(c)
    BY <1>1, <1>3 DEF LabelIds
  <2> QED
    BY <2>1, <2>2, <2>3
<1>5. Targets(c) = Targets(c1) \cup Targets(c2)
  <2>1. Targets(c) \subseteq Targets(c1) \cup Targets(c2)
    <3> SUFFICES ASSUME NEW i \in DOMAIN c, IsJump(c[i])
                 PROVE  c[i].value \in Targets(c1) \cup Targets(c2)
      BY DEF Targets
    <3>1. CASE i \in 1 .. Len(c1)
      BY <1>1, <3>1 DEF Targets
    <3>2. ASSUME NEW j \in 1 .. Len(c2), i = Len(c1) + j
          PROVE  c[i].value \in Targets(c1) \cup Targets(c2)
      <4>1. c[i] = c2[j]
        BY <1>1, <3>2
      <4> QED
        BY <1>1, <4>1 DEF Targets
    <3> QED
      BY <1>1, <3>1, <3>2
  <2>2. Targets(c1) \subseteq Targets(c)
    BY <1>1, <1>2 DEF Targets
  <2>3. Targets(c2) \subseteq Targets(c)
    BY <1>1, <1>3 DEF Targets
  <2> QED
    BY <2>1, <2>2, <2>3
<1> QED
  BY <1>4, <1>5 DEF c

\* Labels stay unique when the two pieces share none.
LEMMA BothClean ==
  ASSUME NEW c1 \in Seq(IRInstr), NEW c2 \in Seq(IRInstr), Clean(c1), Clean(c2),
         LabelIds(c1) \cap LabelIds(c2) = {}
  PROVE  Clean(c1 \o c2)
<1> DEFINE c == c1 \o c2
<1>1. /\ Len(c1) \in Nat /\ Len(c2) \in Nat
      /\ \A i \in 1 .. Len(c1) : c[i] = c1[i]
      /\ \A i \in 1 .. Len(c2) : c[Len(c1) + i] = c2[i]
      /\ \A i \in 1 .. Len(c1) + Len(c2) :
           i \in 1 .. Len(c1) \/ \E j \in 1 .. Len(c2) : i = Len(c1) + j
      /\ DOMAIN c1 = 1 .. Len(c1) /\ DOMAIN c2 = 1 .. Len(c2)
      /\ DOMAIN c = 1 .. Len(c1) + Len(c2)
  BY Both
<1> HIDE DEF c
<1>2. \A i \in 1 .. Len(c1) : IsLabel(c[i]) => c[i].value \in LabelIds(c1)
  BY <1>1 DEF LabelIds
<1>3. \A i \in 1 .. Len(c2) : IsLabel(c[Len(c1) + i]) => c[Len(c1) + i].value \in LabelIds(c2)
  BY <1>1 DEF LabelIds
<1>4. ASSUME NEW i \in DOMAIN c, NEW j \in DOMAIN c,
             IsLabel(c[i]), IsLabel(c[j]), c[i].value = c[j].value
      PROVE  i = j
  <2>1. CASE i \in 1 .. Len(c1) /\ j \in 1 .. Len(c1)
    BY <1>1, <1>4, <2>1 DEF Clean
  <2>2. ASSUME NEW a \in 1 .. Len(c2), NEW b \in 1 .. Len(c2), i = Len(c1) + a, j = Len(c1) + b
        PROVE  i = j
    <3>1. c[i] = c2[a] /\ c[j] = c2[b]
      BY <1>1, <2>2
    <3>2. a = b
      BY <1>1, <1>4, <3>1 DEF Clean
    <3> QED
      BY <2>2, <3>2
  <2>3. ASSUME NEW a \in 1 .. Len(c2), i \in 1 .. Len(c1), j = Len(c1) + a PROVE FALSE
    BY <1>2, <1>3, <1>4, <2>3
  <2>4. ASSUME NEW a \in 1 .. Len(c2), j \in 1 .. Len(c1), i = Len(c1) + a PROVE FALSE
    BY <1>2, <1>3, <1>4, <2>4
  <2> QED
    BY <1>1, <2>1, <2>2, <2>3, <2>4
<1>5. \A i \in DOMAIN c : c[i].op = "LOAD_CONST" => c[i].value \in Ints
  <2> SUFFICES ASSUME NEW i \in DOMAIN c, c[i].op = "LOAD_CONST" PROVE c[i].value \in Ints
    OBVIOUS
  <2>1. CASE i \in 1 .. Len(c1)
    BY <1>1, <2>1 DEF Clean
  <2>2. ASSUME NEW j \in 1 .. Len(c2), i = Len(c1) + j PROVE c[i].value \in Ints
    <3>1. c[i] = c2[j]
      BY <1>1, <2>2
    <3> QED
      BY <1>1, <3>1 DEF Clean
  <2> QED
    BY <1>1, <2>1, <2>2
<1>6. Clean(c)
  BY <1>4, <1>5 DEF Clean
<1> QED
  BY <1>6 DEF c

\* Depths along the first piece continue along the second.
LEMMA BothAlong ==
  ASSUME NEW c1 \in Seq(IRInstr), NEW c2 \in Seq(IRInstr), NEW B, NEW p1, NEW p2,
         Along(c1, p1, B), Along(c2, p2, B), p1[Len(c1) + 1] = p2[1]
  PROVE  \E p : Along(c1 \o c2, p, B) /\ p[1] = p1[1] /\ p[Len(c1 \o c2) + 1] = p2[Len(c2) + 1]
<1> DEFINE c == c1 \o c2
           m == Len(c1)
           n == Len(c2)
           p == [i \in 1 .. m + n + 1 |-> IF i <= m THEN p1[i] ELSE p2[i - m]]
<1>1. /\ m \in Nat /\ n \in Nat /\ Len(c) = m + n
      /\ \A i \in 1 .. m : c[i] = c1[i]
      /\ \A i \in 1 .. n : c[m + i] = c2[i]
      /\ \A i \in 1 .. m + n : i \in 1 .. m \/ \E j \in 1 .. n : i = m + j
  BY Both
<1>2. /\ p1 \in [1 .. m + 1 -> B] /\ p2 \in [1 .. n + 1 -> B]
      /\ \A i \in 1 .. m : Fits(c1[i].op, p1[i]) /\ p1[i + 1] = p1[i] + Change(c1[i].op)
      /\ \A i \in 1 .. n : Fits(c2[i].op, p2[i]) /\ p2[i + 1] = p2[i] + Change(c2[i].op)
      /\ p1[m + 1] = p2[1]
  BY DEF Along
<1> HIDE DEF c, m, n
<1>3. p = [i \in 1 .. m + n + 1 |-> p[i]]
  OBVIOUS
<1>4. \A i \in 1 .. m + 1 : p[i] = p1[i]
  <2>1. \A i \in 1 .. m : p[i] = p1[i]
    BY <1>1
  <2>2. p[m + 1] = p2[1]
    BY <1>1
  <2>3. \A i \in 1 .. m + 1 : i \in 1 .. m \/ i = m + 1
    BY <1>1
  <2> HIDE DEF p
  <2> QED
    BY <1>2, <2>1, <2>2, <2>3
<1>5. \A i \in 1 .. n + 1 : p[m + i] = p2[i]
  <2> SUFFICES ASSUME NEW i \in 1 .. n + 1 PROVE p[m + i] = p2[i]
    OBVIOUS
  <2>1. m + i \in 1 .. m + n + 1 /\ ~ (m + i <= m) /\ (m + i) - m = i
    BY <1>1
  <2> QED
    BY <2>1
<1> HIDE DEF p
<1>6. \A i \in 1 .. m + n + 1 : p[i] \in B
  <2> SUFFICES ASSUME NEW i \in 1 .. m + n + 1 PROVE p[i] \in B
    OBVIOUS
  <2>1. CASE i \in 1 .. m + 1
    BY <1>2, <1>4, <2>1
  <2>2. CASE i \notin 1 .. m + 1
    <3>1. PICK j \in 1 .. n + 1 : i = m + j
      <4>1. i - m \in 1 .. n + 1 /\ i = m + (i - m)
        BY <1>1, <2>2
      <4> QED
        BY <4>1
    <3> QED
      BY <1>2, <1>5, <3>1
  <2> QED
    BY <2>1, <2>2
<1>7. ASSUME NEW i \in 1 .. m + n
      PROVE  Fits(c[i].op, p[i]) /\ p[i + 1] = p[i] + Change(c[i].op)
  <2>1. CASE i \in 1 .. m
    <3>1. i \in 1 .. m + 1 /\ i + 1 \in 1 .. m + 1
      BY <1>1, <2>1
    <3>2. p[i] = p1[i] /\ p[i + 1] = p1[i + 1] /\ c[i] = c1[i]
      BY <1>1, <1>4, <2>1, <3>1
    <3> QED
      BY <1>2, <2>1, <3>2
  <2>2. ASSUME NEW j \in 1 .. n, i = m + j
        PROVE  Fits(c[i].op, p[i]) /\ p[i + 1] = p[i] + Change(c[i].op)
    <3>1. j \in 1 .. n + 1 /\ j + 1 \in 1 .. n + 1 /\ i + 1 = m + (j + 1)
      BY <1>1, <2>2
    <3>2. p[i] = p2[j] /\ p[i + 1] = p2[j + 1] /\ c[i] = c2[j]
      BY <1>1, <1>5, <2>2, <3>1
    <3> QED
      BY <1>2, <3>2
  <2> QED
    BY <1>1, <2>1, <2>2
<1>8. /\ 1 \in 1 .. m + 1 /\ n + 1 \in 1 .. n + 1
      /\ Len(c) + 1 = m + n + 1 /\ m + (n + 1) = m + n + 1
  BY <1>1
<1>9. p[1] = p1[1] /\ p[Len(c) + 1] = p2[n + 1]
  <2>1. p[m + (n + 1)] = p2[n + 1]
    BY <1>5, <1>8
  <2> QED
    BY <1>4, <1>8, <2>1
<1>10. Along(c, p, B)
  <2>1. p \in [1 .. Len(c) + 1 -> B]
    BY <1>3, <1>6, <1>8
  <2> QED
    BY <1>1, <1>7, <2>1 DEF Along
<1> QED
  BY <1>9, <1>10 DEF c, n

\* Two pieces are a piece when the second begins at the depth the first ends at.
LEMMA Compose ==
  ASSUME NEW c1, NEW L1, NEW T1, NEW c2, NEW L2, NEW T2, NEW a, NEW b, NEW e, NEW B,
         Piece(c1, L1, T1, a, b, B), Piece(c2, L2, T2, b, e, B), L1 \cap L2 = {}
  PROVE  Piece(c1 \o c2, L1 \cup L2, T1 \cup T2, a, e, B)
<1>1. /\ c1 \in Seq(IRInstr) /\ c2 \in Seq(IRInstr) /\ Clean(c1) /\ Clean(c2)
      /\ LabelIds(c1) = L1 /\ LabelIds(c2) = L2 /\ Targets(c1) = T1 /\ Targets(c2) = T2
  BY DEF Piece
<1>2. PICK p1 : Along(c1, p1, B) /\ p1[1] = a /\ p1[Len(c1) + 1] = b
  BY DEF Piece
<1>3. PICK p2 : Along(c2, p2, B) /\ p2[1] = b /\ p2[Len(c2) + 1] = e
  BY DEF Piece
<1>4. PICK p : Along(c1 \o c2, p, B) /\ p[1] = p1[1] /\ p[Len(c1 \o c2) + 1] = p2[Len(c2) + 1]
  BY <1>1, <1>2, <1>3, BothAlong
<1>5. c1 \o c2 \in Seq(IRInstr)
  BY <1>1, Both
<1>6. LabelIds(c1 \o c2) = L1 \cup L2 /\ Targets(c1 \o c2) = T1 \cup T2
  BY <1>1, BothLabels
<1>7. Clean(c1 \o c2)
  BY <1>1, BothClean
<1>8. \E q : Along(c1 \o c2, q, B) /\ q[1] = a /\ q[Len(c1 \o c2) + 1] = e
  BY <1>2, <1>3, <1>4
<1> QED
  BY <1>5, <1>6, <1>7, <1>8 DEF Piece

\* A piece of one instruction
LEMMA Single ==
  ASSUME NEW op \in IROp, NEW value \in Int, NEW name \in STRING \cup {NoName}, NEW line \in Nat,
         op = "LOAD_CONST" => value \in Ints,
         NEW B, B \subseteq Nat, NEW a \in B, a + Change(op) \in B, Fits(op, a)
  PROVE  Piece(<< make_instr(op, value, name, line) >>,
               IF op = "LABEL" THEN {value} ELSE {},
               IF op \in {"JMP", "JZ"} THEN {value} ELSE {}, a, a + Change(op), B)
<1> DEFINE i == make_instr(op, value, name, line)
           c == << i >>
           p == [k \in 1 .. 2 |-> IF k = 1 THEN a ELSE a + Change(op)]
<1>1. i \in IRInstr /\ i.op = op /\ i.value = value
  BY DEF make_instr, IRInstr
<1> HIDE DEF i
<1>2. c \in Seq(IRInstr) /\ Len(c) = 1 /\ DOMAIN c = {1} /\ c[1] = i
  BY <1>1
<1> HIDE DEF c
<1>3. LabelIds(c) = IF op = "LABEL" THEN {value} ELSE {}
  BY <1>1, <1>2 DEF LabelIds, IsLabel
<1>4. Targets(c) = IF op \in {"JMP", "JZ"} THEN {value} ELSE {}
  BY <1>1, <1>2 DEF Targets, IsJump
<1>5. Clean(c)
  BY <1>1, <1>2 DEF Clean
<1>6. p \in [1 .. 2 -> B] /\ p[1] = a /\ p[2] = a + Change(op)
  OBVIOUS
<1> HIDE DEF p
<1>7. Along(c, p, B)
  <2>1. Len(c) + 1 = 2 /\ \A k \in 1 .. Len(c) : k = 1 /\ k + 1 = 2
    BY <1>2
  <2> QED
    BY <1>1, <1>2, <1>6, <2>1 DEF Along
<1>8. Piece(c, LabelIds(c), Targets(c), a, a + Change(op), B)
  BY <1>2, <1>5, <1>6, <1>7 DEF Piece
<1> QED
  BY <1>3, <1>4, <1>8 DEF c, i

\* No code is a piece that leaves the stack as it is.
LEMMA NoCodePiece ==
  ASSUME NEW B, NEW a \in B
  PROVE  Piece(<< >>, {}, {}, a, a, B)
<1> DEFINE p == [k \in 1 .. 1 |-> a]
<1>1. << >> \in Seq(IRInstr) /\ Len(<< >>) = 0 /\ DOMAIN << >> = {}
  OBVIOUS
<1>2. LabelIds(<< >>) = {} /\ Targets(<< >>) = {} /\ Clean(<< >>)
  BY <1>1 DEF LabelIds, Targets, Clean
<1>3. p \in [1 .. 1 -> B] /\ p[1] = a
  OBVIOUS
<1> HIDE DEF p
<1>4. Along(<< >>, p, B)
  BY <1>1, <1>3 DEF Along
<1> QED
  BY <1>1, <1>2, <1>3, <1>4 DEF Piece

\* The pieces of one instruction that the generator emits
LEMMA Plain ==
  ASSUME NEW op \in IROp \ {"LABEL", "JMP", "JZ"}, NEW value \in Int,
         NEW name \in STRING \cup {NoName}, NEW line \in Nat,
         op = "LOAD_CONST" => value \in Ints,
         NEW B, B \subseteq Nat, NEW a \in B, a + Change(op) \in B, Fits(op, a)
  PROVE  Piece(<< make_instr(op, value, name, line) >>, {}, {}, a, a + Change(op), B)
<1>1. op \in IROp /\ op # "LABEL" /\ op \notin {"JMP", "JZ"}
  OBVIOUS
<1>2. Piece(<< make_instr(op, value, name, line) >>,
            IF op = "LABEL" THEN {value} ELSE {},
            IF op \in {"JMP", "JZ"} THEN {value} ELSE {}, a, a + Change(op), B)
  BY <1>1, Single
<1> QED
  BY <1>1, <1>2

\* The labels and jumps that are emitted are pieces.
LEMMA Emits ==
  ASSUME NEW B, B \subseteq Nat, 0 \in B, NEW l \in Nat, NEW line \in Nat
  PROVE  /\ Piece(emit_label(l, line), {l}, {}, 0, 0, B)
         /\ Piece(emit_jmp(l, line), {}, {l}, 0, 0, B)
         /\ 1 \in B => Piece(emit_jz(l, line), {}, {l}, 1, 0, B)
<1>1. l \in Int /\ NoName \in STRING \cup {NoName} /\ {"LABEL", "JMP", "JZ"} \subseteq IROp
  BY DEF IROp
<1>2. Piece(emit_label(l, line), {l}, {}, 0, 0, B)
  <2>1. 0 + Change("LABEL") = 0 /\ Fits("LABEL", 0)
    BY DEF Change, Pushes, Pops, BinaryOps, Fits
  <2>2. Piece(<< make_instr("LABEL", l, NoName, line) >>,
              IF "LABEL" = "LABEL" THEN {l} ELSE {},
              IF "LABEL" \in {"JMP", "JZ"} THEN {l} ELSE {}, 0, 0 + Change("LABEL"), B)
    BY <1>1, <2>1, Single
  <2> QED
    BY <2>1, <2>2 DEF emit_label
<1>3. Piece(emit_jmp(l, line), {}, {l}, 0, 0, B)
  <2>1. 0 + Change("JMP") = 0 /\ Fits("JMP", 0)
    BY DEF Change, Pushes, Pops, BinaryOps, Fits
  <2>2. Piece(<< make_instr("JMP", l, NoName, line) >>,
              IF "JMP" = "LABEL" THEN {l} ELSE {},
              IF "JMP" \in {"JMP", "JZ"} THEN {l} ELSE {}, 0, 0 + Change("JMP"), B)
    BY <1>1, <2>1, Single
  <2> QED
    BY <2>1, <2>2 DEF emit_jmp
<1>4. ASSUME 1 \in B PROVE Piece(emit_jz(l, line), {}, {l}, 1, 0, B)
  <2>1. Change("JZ") = -1 /\ Fits("JZ", 1) /\ 1 + Change("JZ") = 0
    BY DEF Change, Pushes, Pops, BinaryOps, Fits
  <2>2. Piece(<< make_instr("JZ", l, NoName, line) >>,
              IF "JZ" = "LABEL" THEN {l} ELSE {},
              IF "JZ" \in {"JMP", "JZ"} THEN {l} ELSE {}, 1, 1 + Change("JZ"), B)
    BY <1>1, <1>4, <2>1, Single
  <2> QED
    BY <2>1, <2>2 DEF emit_jz
<1> QED
  BY <1>2, <1>3, <1>4

(***************************************************************************)
(* The code of an expression leaves one value on the stack.                *)
(***************************************************************************)

\* Every expression needs an operand.
LEMMA NeedIsPositive ==
  ASSUME NEW d \in Depths, NEW e \in Expressions[d]
  PROVE  Need[d][e] \in Nat /\ Need[d][e] >= 1
<1> DEFINE Pos(k) == \A x \in Expressions[k] : Need[k][x] \in Nat /\ Need[k][x] >= 1
           S == {k \in Depths : Pos(k)}
<1>1. 0 \in S
  BY NothingAtZero
<1>2. ASSUME NEW k \in Depths \ {0}, k - 1 \in Depths, k - 1 \in S PROVE k \in S
  <2> SUFFICES ASSUME NEW x \in Expressions[k]
               PROVE  Need[k][x] \in Nat /\ Need[k][x] >= 1
    OBVIOUS
  <2>1. Need[k][x] = ExprNeed(Need[k - 1], x)
    BY NeedIs
  <2>2. CASE x.kind \in {"INTEGER", "IDENTIFIER"}
    BY <2>1, <2>2 DEF ExprNeed
  <2>3. CASE /\ x.kind \notin {"INTEGER", "IDENTIFIER"}
             /\ x.left \in Expressions[k - 1] /\ x.right \in Expressions[k - 1]
    <3>1. Need[k][x] = Larger(Need[k - 1][x.left], 1 + Need[k - 1][x.right])
      BY <2>1, <2>3 DEF ExprNeed
    <3> QED
      BY <1>2, <2>3, <3>1 DEF Larger
  <2> QED
    BY <2>2, <2>3, ExpressionForms
<1> HIDE DEF S
<1>3. Depths \subseteq S
  BY <1>1, <1>2, DepthInduction
<1> QED
  BY <1>3 DEF S

\* The code of the node that is made of e, behind a stack of depth a
Computes(k, e, l, a, B) == Piece(gen_expr[k][expr[k][e][l][1]], {}, {}, a, a + 1, B)

Computing(k) ==
  \A e \in Expressions[k], l \in Nat, a \in Nat, B \in SUBSET Nat :
    a .. a + Need[k][e] \subseteq B => Computes(k, e, l, a, B)

\* A constant or a variable leaves one value more,
LEMMA LoadComputes ==
  ASSUME NEW k \in Depths, NEW e \in Expressions[k], NEW l \in Nat, NEW a \in Nat, NEW B \in SUBSET Nat,
         a .. a + Need[k][e] \subseteq B, e.kind \in {"INTEGER", "IDENTIFIER"}
  PROVE  Computes(k, e, l, a, B)
<1>1. a \in B /\ a + 1 \in B
  BY NeedIsPositive
<1>2. expr[k][e][l] = Expr(expr[k - 1], e, l) /\ expr[k][e][l] \in One(ExprNodes[k])
  BY ExprIs, ExprMakesNode
<1>3. NoName \in STRING \cup {NoName} /\ 0 \in Int /\ Ints \subseteq Int
  BY DEF Ints
<1>4. CASE e.kind = "INTEGER"
  <2> DEFINE n == node("INT", l, NoName, e.value, "", NULL, NULL, NULL)
  <2>1. expr[k][e][l] = << n >>
    BY <1>2, <1>4, IntNode DEF Expr
  <2>2. n \in ExprNodes[k] /\ n.type = "INT" /\ n.value = e.value /\ n.line = l
    BY <1>2, <2>1, OneIs DEF node
  <2> HIDE DEF n
  <2>3. gen_expr[k][n] = << make_instr("LOAD_CONST", e.value, NoName, l) >>
    BY <2>2, GenExprIs DEF ExprCode
  <2>4. Change("LOAD_CONST") = 1 /\ Fits("LOAD_CONST", a) /\ "LOAD_CONST" \in IROp \ {"LABEL", "JMP", "JZ"}
    BY DEF Change, Pushes, Pops, BinaryOps, Fits, IROp
  <2>5. e.value \in Ints
    BY <1>4, ExpressionForms
  <2>6. Piece(<< make_instr("LOAD_CONST", e.value, NoName, l) >>, {}, {}, a, a + Change("LOAD_CONST"), B)
    BY <1>1, <1>3, <2>4, <2>5, Plain
  <2> QED
    BY <2>1, <2>3, <2>4, <2>6 DEF Computes
<1>5. CASE e.kind = "IDENTIFIER"
  <2> DEFINE n == node("IDENT", l, e.name, 0, "", NULL, NULL, NULL)
  <2>1. expr[k][e][l] = << n >>
    BY <1>2, <1>5, IdentNode DEF Expr
  <2>2. n \in ExprNodes[k] /\ n.type = "IDENT" /\ n.name = e.name /\ n.line = l
    BY <1>2, <2>1, OneIs DEF node
  <2> HIDE DEF n
  <2>3. gen_expr[k][n] = << make_instr("LOAD_VAR", 0, e.name, l) >>
    BY <2>2, GenExprIs DEF ExprCode
  <2>4. Change("LOAD_VAR") = 1 /\ Fits("LOAD_VAR", a) /\ "LOAD_VAR" \in IROp \ {"LABEL", "JMP", "JZ"}
    BY DEF Change, Pushes, Pops, BinaryOps, Fits, IROp
  <2>5. e.name \in STRING \cup {NoName}
    BY <1>5, ExpressionForms
  <2>6. Piece(<< make_instr("LOAD_VAR", 0, e.name, l) >>, {}, {}, a, a + Change("LOAD_VAR"), B)
    BY <1>1, <1>3, <2>4, <2>5, Plain
  <2> QED
    BY <2>1, <2>3, <2>4, <2>6 DEF Computes
<1> QED
  BY <1>4, <1>5

\* ... and so does an operation whose operands do.
LEMMA BinopComputes ==
  ASSUME NEW k \in Depths, NEW e \in Expressions[k], NEW l \in Nat, NEW a \in Nat, NEW B \in SUBSET Nat,
         a .. a + Need[k][e] \subseteq B, e.kind \in BinaryOps, e.kind \notin {"INTEGER", "IDENTIFIER"},
         k - 1 \in Depths, Computing(k - 1)
  PROVE  Computes(k, e, l, a, B)
<1> DEFINE x == expr[k - 1][e.left][l]
           y == expr[k - 1][e.right][l]
           n == node("BINOP", l, NoName, 0, e.kind, x, y, NULL)
           c1 == gen_expr[k - 1][x[1]]
           c2 == gen_expr[k - 1][y[1]]
           c3 == << make_instr(e.kind, 0, NoName, l) >>
<1>1. e.left \in Expressions[k - 1] /\ e.right \in Expressions[k - 1]
  BY ExpressionForms DEF BinaryOps
<1>2. expr[k][e][l] = ast_make_binop(e.kind, x, y, l) /\ expr[k][e][l] \in One(ExprNodes[k])
  BY ExprIs, ExprMakesNode DEF Expr
<1>3. Need[k][e] = Larger(Need[k - 1][e.left], 1 + Need[k - 1][e.right])
  BY NeedIs DEF ExprNeed
<1>4. /\ Need[k - 1][e.left] \in Nat /\ Need[k - 1][e.right] \in Nat /\ Need[k][e] \in Nat
      /\ Need[k - 1][e.right] >= 1
  BY <1>1, NeedIsPositive
<1>5. Need[k - 1][e.left] <= Need[k][e] /\ Need[k - 1][e.right] + 1 <= Need[k][e]
  BY <1>3, <1>4 DEF Larger
<1>6. /\ a .. a + Need[k - 1][e.left] \subseteq B
      /\ (a + 1) .. (a + 1) + Need[k - 1][e.right] \subseteq B
      /\ a + 1 \in B /\ a + 2 \in B
  BY <1>4, <1>5
<1>7. Piece(c1, {}, {}, a, a + 1, B)
  BY <1>1, <1>6 DEF Computing, Computes
<1>8. Piece(c2, {}, {}, a + 1, (a + 1) + 1, B)
  <2>1. PICK m \in Nat : m = a + 1
    OBVIOUS
  <2>2. m .. m + Need[k - 1][e.right] \subseteq B
    BY <1>6, <2>1
  <2>3. Computes(k - 1, e.right, l, m, B)
    BY <1>1, <2>2 DEF Computing
  <2> QED
    BY <2>1, <2>3 DEF Computes
<1> HIDE DEF x, y
<1>9. expr[k][e][l] = << n >>
  BY <1>2, BinopNode
<1>10. /\ n \in ExprNodes[k] /\ n.type = "BINOP" /\ n.op = e.kind /\ n.line = l
       /\ n.left = x /\ n.right = y
  BY <1>2, <1>9, OneIs DEF node
<1> HIDE DEF n
<1>11. gen_expr[k][n] = c1 \o c2 \o c3
  BY <1>10, GenExprIs DEF ExprCode
<1>12. /\ Change(e.kind) = -1 /\ Fits(e.kind, a + 2) /\ e.kind \in IROp \ {"LABEL", "JMP", "JZ"}
       /\ e.kind # "LOAD_CONST"
  BY DEF Change, Pushes, Pops, BinaryOps, Fits, IROp
<1>13. Piece(c3, {}, {}, a + 2, a + 1, B)
  <2>1. PICK m \in B : m = a + 2 /\ m + Change(e.kind) = a + 1
    BY <1>6, <1>12
  <2>2. NoName \in STRING \cup {NoName} /\ 0 \in Int /\ m + Change(e.kind) \in B /\ Fits(e.kind, m)
    BY <1>6, <1>12, <2>1
  <2>3. Piece(c3, {}, {}, m, m + Change(e.kind), B)
    BY <1>12, <2>2, Plain
  <2> QED
    BY <2>1, <2>3
<1> HIDE DEF c1, c2, c3
<1>14. (a + 1) + 1 = a + 2 /\ {} \cap {} = {} /\ {} \cup {} = {}
  OBVIOUS
<1>15. Piece(c1 \o c2, {} \cup {}, {} \cup {}, a, (a + 1) + 1, B)
  BY <1>7, <1>8, <1>14, Compose
<1>16. Piece(c1 \o c2, {}, {}, a, a + 2, B)
  BY <1>14, <1>15
<1>17. Piece((c1 \o c2) \o c3, {} \cup {}, {} \cup {}, a, a + 1, B)
  BY <1>13, <1>14, <1>16, Compose
<1>18. Piece((c1 \o c2) \o c3, {}, {}, a, a + 1, B)
  BY <1>14, <1>17
<1>19. expr[k][e][l][1] = n
  BY <1>9
<1> QED
  BY ONLY <1>11, <1>18, <1>19 DEF Computes

\* The code of every expression leaves one value more and needs no more than Need.
LEMMA ExpressionsCompute ==
  ASSUME NEW d \in Depths PROVE Computing(d)
<1> DEFINE S == {k \in Depths : Computing(k)}
<1>1. 0 \in S
  BY NothingAtZero DEF Computing
<1>2. ASSUME NEW k \in Depths \ {0}, k - 1 \in Depths, k - 1 \in S PROVE k \in S
  <2> SUFFICES ASSUME NEW e \in Expressions[k], NEW l \in Nat, NEW a \in Nat, NEW B \in SUBSET Nat,
                      a .. a + Need[k][e] \subseteq B
               PROVE  Computes(k, e, l, a, B)
    BY DEF Computing
  <2>1. Computing(k - 1)
    BY <1>2
  <2>2. CASE e.kind \in {"INTEGER", "IDENTIFIER"}
    BY <2>2, LoadComputes
  <2>3. CASE e.kind \in BinaryOps /\ e.kind \notin {"INTEGER", "IDENTIFIER"}
    BY <1>2, <2>1, <2>3, BinopComputes
  <2> QED
    BY <2>2, <2>3, ExpressionForms
<1> HIDE DEF S
<1>3. Depths \subseteq S
  BY <1>1, <1>2, DepthInduction
<1> QED
  BY <1>3 DEF S

(***************************************************************************)
(* The code of a statement.                                                *)
(***************************************************************************)

\* The depths the stack may have when expressions need as many operands as Q says
Reach(Q) == {k \in Nat : k = 0 \/ \E n \in Q : k <= n}

\* The code leaves the stack empty; its labels are those from l to before h.
Closed(c, l, h, B) ==
  /\ h \in Nat /\ l <= h
  /\ \E L \in SUBSET (l .. h - 1) : \E T \in SUBSET L : Piece(c, L, T, 0, 0, B)

GoodNode(d, n, B) ==
  /\ n \in StmtNodes[d]
  /\ \A l \in Nat : Closed(gen_node[d][n][l].ir, l, gen_node[d][n][l].next_label, B)

GoodList(d, nodes, B) ==
  /\ nodes \in Seq(StmtNodes[d])
  /\ \A l \in Nat : Closed(gen_stmt(gen_node[d], nodes, l).ir, l,
                           gen_stmt(gen_node[d], nodes, l).next_label, B)

GoodMade(d, o, B) == o = << >> \/ \E n : o = << n >> /\ GoodNode(d, n, B)

\* The parts of what was emitted.
LEMMA EmittedIs ==
  ASSUME NEW c, NEW l PROVE Emitted(c, l).ir = c /\ Emitted(c, l).next_label = l
  BY DEF Emitted

\* The depths up to what expressions need contain 0.
LEMMA ReachIs ==
  ASSUME NEW Q PROVE Reach(Q) \in SUBSET Nat /\ 0 \in Reach(Q)
  BY DEF Reach

\* The code of an expression is a piece within what it needs.
LEMMA ExprReach ==
  ASSUME NEW d \in Depths, NEW e \in Expressions[d], NEW l \in Nat, NEW Q, Need[d][e] \in Q
  PROVE  Piece(gen_expr[d][expr[d][e][l][1]], {}, {}, 0, 1, Reach(Q)) /\ 1 \in Reach(Q)
<1>1. Need[d][e] \in Nat /\ Need[d][e] >= 1
  BY NeedIsPositive
<1>2. 0 .. 0 + Need[d][e] \subseteq Reach(Q) /\ 1 \in Reach(Q)
  BY <1>1 DEF Reach
<1>3. Computing(d) /\ Reach(Q) \in SUBSET Nat /\ 0 \in Nat
  BY ExpressionsCompute, ReachIs
<1>4. Computes(d, e, l, 0, Reach(Q))
  BY <1>2, <1>3 DEF Computing
<1>5. Piece(gen_expr[d][expr[d][e][l][1]], {}, {}, 0, 0 + 1, Reach(Q))
  BY <1>4 DEF Computes
<1> QED
  BY <1>2, <1>5

\* No code needs no labels.
LEMMA ClosedNone ==
  ASSUME NEW l \in Nat, NEW Q PROVE Closed(<< >>, l, l, Reach(Q))
<1>1. Piece(<< >>, {}, {}, 0, 0, Reach(Q))
  BY NoCodePiece, ReachIs
<1> QED
  BY <1>1 DEF Closed

\* Code behind code: the labels of the second begin where the first ends.
LEMMA ClosedThen ==
  ASSUME NEW c1, NEW c2, NEW l \in Nat, NEW h, NEW m, NEW B, Closed(c1, l, h, B), Closed(c2, h, m, B)
  PROVE  Closed(c1 \o c2, l, m, B)
<1>1. PICK L1 \in SUBSET (l .. h - 1) : \E T1 \in SUBSET L1 : Piece(c1, L1, T1, 0, 0, B)
  BY DEF Closed
<1>2. PICK L2 \in SUBSET (h .. m - 1) : \E T2 \in SUBSET L2 : Piece(c2, L2, T2, 0, 0, B)
  BY DEF Closed
<1> PICK T1 \in SUBSET L1 : Piece(c1, L1, T1, 0, 0, B)
  BY <1>1
<1> PICK T2 \in SUBSET L2 : Piece(c2, L2, T2, 0, 0, B)
  BY <1>2
<1>3. h \in Nat /\ m \in Nat /\ l <= h /\ h <= m
  BY DEF Closed
<1>4. L1 \cap L2 = {} /\ L1 \cup L2 \in SUBSET (l .. m - 1) /\ T1 \cup T2 \in SUBSET (L1 \cup L2)
  BY <1>3
<1>5. Piece(c1 \o c2, L1 \cup L2, T1 \cup T2, 0, 0, B)
  BY <1>4, Compose
<1> QED
  BY <1>3, <1>4, <1>5 DEF Closed

\* The code of no nodes is good.
LEMMA GoodNone ==
  ASSUME NEW d, NEW Q PROVE GoodList(d, << >>, Reach(Q))
<1>1. << >> \in Seq(StmtNodes[d])
  OBVIOUS
<1>2. ASSUME NEW l \in Nat
      PROVE  Closed(gen_stmt(gen_node[d], << >>, l).ir, l, gen_stmt(gen_node[d], << >>, l).next_label, Reach(Q))
  <2>1. gen_stmt(gen_node[d], << >>, l) = Emitted(<< >>, l)
    BY GenNone
  <2>2. Closed(<< >>, l, l, Reach(Q))
    BY ClosedNone
  <2> QED
    BY <2>1, <2>2, EmittedIs
<1> QED
  BY <1>1, <1>2 DEF GoodList

\* So is that of good nodes with one more,
LEMMA GoodAppend ==
  ASSUME NEW d, NEW nodes, NEW n, NEW B, GoodList(d, nodes, B), GoodNode(d, n, B)
  PROVE  GoodList(d, Append(nodes, n), B)
<1>1. nodes \in Seq(StmtNodes[d]) /\ n \in StmtNodes[d] /\ Append(nodes, n) \in Seq(StmtNodes[d])
  BY DEF GoodList, GoodNode
<1>2. ASSUME NEW l \in Nat
      PROVE  Closed(gen_stmt(gen_node[d], Append(nodes, n), l).ir, l,
                    gen_stmt(gen_node[d], Append(nodes, n), l).next_label, B)
  <2> DEFINE g == gen_stmt(gen_node[d], nodes, l)
             piece == gen_node[d][n][g.next_label]
  <2>1. gen_stmt(gen_node[d], Append(nodes, n), l) = Then(gen_node[d], g, n)
    BY <1>1, GenAppend
  <2>2. Closed(g.ir, l, g.next_label, B)
    BY DEF GoodList
  <2> HIDE DEF g
  <2>3. Then(gen_node[d], g, n) = Emitted(g.ir \o piece.ir, piece.next_label)
    BY DEF Then
  <2>4. g.next_label \in Nat
    BY <2>2 DEF Closed
  <2>5. Closed(piece.ir, g.next_label, piece.next_label, B)
    BY <2>4 DEF GoodNode
  <2> HIDE DEF piece
  <2>6. Closed(g.ir \o piece.ir, l, piece.next_label, B)
    BY <2>2, <2>5, ClosedThen
  <2> QED
    BY <2>1, <2>3, <2>6, EmittedIs
<1> QED
  BY <1>1, <1>2 DEF GoodList

\* ... with at most one more
LEMMA GoodBoth ==
  ASSUME NEW d, NEW nodes, NEW o, NEW B, GoodList(d, nodes, B), GoodMade(d, o, B)
  PROVE  GoodList(d, nodes \o o, B)
<1>1. nodes \in Seq(StmtNodes[d])
  BY DEF GoodList
<1>2. CASE o = << >>
  <2>1. nodes \o << >> = nodes
    BY <1>1
  <2> QED
    BY <1>2, <2>1
<1>3. ASSUME NEW n, o = << n >>, GoodNode(d, n, B) PROVE GoodList(d, nodes \o o, B)
  <2>1. n \in StmtNodes[d]
    BY <1>3 DEF GoodNode
  <2>2. nodes \o << n >> = Append(nodes, n)
    BY <1>1, <2>1
  <2> QED
    BY <1>3, <2>2, GoodAppend
<1> QED
  BY <1>2, <1>3 DEF GoodMade

\* ... and of at most one.
LEMMA GoodOne ==
  ASSUME NEW d, NEW o, NEW Q, GoodMade(d, o, Reach(Q)) PROVE GoodList(d, o, Reach(Q))
<1>1. GoodList(d, << >> \o o, Reach(Q))
  BY GoodNone, GoodBoth
<1>2. CASE o = << >>
  BY <1>2, GoodNone
<1>3. ASSUME NEW n, o = << n >> PROVE << >> \o o = o
  BY <1>3
<1> QED
  BY <1>1, <1>2, <1>3 DEF GoodMade

\* The statements whose expressions need no more than Q
Within(k, Q) == {s \in Statements[k] : Needs[k][s] \subseteq Q}
GoodStatements(k, Q) ==
  \A s \in Within(k, Q), l \in Nat : GoodMade(k, stmt[k][s][l], Reach(Q))

\* The code of a list of statements is good when that of each is.
LEMMA GoodStmtList ==
  ASSUME NEW k \in Depths, NEW Q, GoodStatements(k, Q), NEW ss \in Seq(Within(k, Q)), NEW last \in Nat
  PROVE  GoodList(k, stmt_list(stmt[k], ss, last), Reach(Q))
<1> DEFINE P == {x \in Seq(Within(k, Q)) :
                   \A l \in Nat : GoodList(k, stmt_list(stmt[k], x, l), Reach(Q))}
<1>1. << >> \in P
  <2>1. << >> \in Seq(Within(k, Q))
    OBVIOUS
  <2> QED
    BY <2>1, ListNone, GoodNone
<1>2. ASSUME NEW x \in Seq(Within(k, Q)), NEW s \in Within(k, Q), x \in P PROVE Append(x, s) \in P
  <2> SUFFICES ASSUME NEW l \in Nat PROVE GoodList(k, stmt_list(stmt[k], Append(x, s), l), Reach(Q))
    OBVIOUS
  <2>1. Within(k, Q) \subseteq Statements[k]
    BY DEF Within
  <2>2. x \in Seq(Statements[k]) /\ s \in Statements[k]
    BY <2>1
  <2>3. s.line \in Nat
    BY <2>2, StatementForms
  <2>4. stmt_list(stmt[k], Append(x, s), l) = stmt_list(stmt[k], x, s.line) \o stmt[k][s][l]
    BY <2>2, ListAppend, StatementsMake
  <2>5. GoodList(k, stmt_list(stmt[k], x, s.line), Reach(Q))
    BY <1>2, <2>3
  <2>6. GoodMade(k, stmt[k][s][l], Reach(Q))
    BY DEF GoodStatements
  <2> QED
    BY <2>4, <2>5, <2>6, GoodBoth
<1> HIDE DEF P
<1>3. Seq(Within(k, Q)) \subseteq P
  BY <1>1, <1>2, SequenceInduction
<1> QED
  BY <1>3 DEF P

\* A value and its variable
LEMMA StoredPiece ==
  ASSUME NEW c, NEW Q, Piece(c, {}, {}, 0, 1, Reach(Q)), 1 \in Reach(Q),
         NEW name \in STRING, NEW line \in Nat, NEW l \in Nat
  PROVE  Closed(Stored(c, name, line), l, l, Reach(Q))
<1> DEFINE s == << make_instr("STORE_VAR", 0, name, line) >>
<1>1. Reach(Q) \subseteq Nat /\ 0 \in Reach(Q) /\ name \in STRING \cup {NoName} /\ 0 \in Int
  <2>1. Reach(Q) \subseteq Nat /\ 0 \in Reach(Q)
    BY DEF Reach
  <2>2. name \in STRING \cup {NoName}
    BY Zenon
  <2>3. 0 \in Int
    OBVIOUS
  <2> QED
    BY ONLY <2>1, <2>2, <2>3, Zenon
<1>2. /\ 1 + Change("STORE_VAR") = 0 /\ Fits("STORE_VAR", 1)
      /\ "STORE_VAR" \in IROp \ {"LABEL", "JMP", "JZ"}
  BY DEF Change, Pushes, Pops, BinaryOps, Fits, IROp
<1>3. Piece(s, {}, {}, 1, 1 + Change("STORE_VAR"), Reach(Q))
  BY <1>1, <1>2, Plain
<1>4. Piece(s, {}, {}, 1, 0, Reach(Q))
  BY <1>2, <1>3
<1> HIDE DEF s
<1>5. Piece(c \o s, {} \cup {}, {} \cup {}, 0, 0, Reach(Q))
  <2>1. {} \cap {} = {}
    OBVIOUS
  <2> QED
    BY <1>4, <2>1, Compose
<1>6. Piece(c \o s, {}, {}, 0, 0, Reach(Q))
  BY <1>5
<1> QED
  BY <1>6 DEF Closed, Stored, s

\* An assignment leaves the stack empty.
LEMMA AssignmentGood ==
  ASSUME NEW d \in Depths, d # 0, NEW e \in Expressions[d - 1], NEW line \in Nat,
         NEW name \in STRING, NEW Q, Need[d - 1][e] \in Q,
         assignment(name, expr[d - 1][e][line], line) \in StmtNodes[d]
  PROVE  GoodNode(d, assignment(name, expr[d - 1][e][line], line), Reach(Q))
<1> DEFINE x == expr[d - 1][e][line]
           n == assignment(name, x, line)
           c == gen_expr[d - 1][x[1]]
<1>1. d - 1 \in Depths
  BY ExprNodesOf
<1>2. Piece(c, {}, {}, 0, 1, Reach(Q)) /\ 1 \in Reach(Q)
  BY <1>1, ExprReach
<1>3. n.type = "ASSIGN" /\ n.right = x /\ n.left[1].name = name /\ n.line = line
  BY DEF assignment, ident, node
<1> HIDE DEF x, n
<1>4. ASSUME NEW l \in Nat
      PROVE  Closed(gen_node[d][n][l].ir, l, gen_node[d][n][l].next_label, Reach(Q))
  <2>1. gen_node[d][n][l] = Emitted(Stored(c, name, line), l)
    BY <1>3, GenNodeIs DEF StmtCode, x, n
  <2> HIDE DEF c
  <2>2. Closed(Stored(c, name, line), l, l, Reach(Q))
    BY <1>2, StoredPiece
  <2> QED
    BY <2>1, <2>2, EmittedIs
<1> QED
  BY <1>4 DEF GoodNode, n, x

\* So does a declaration, with or without a value.
LEMMA VarGood ==
  ASSUME NEW d \in Depths, NEW s \in Statements[d], NEW next \in Nat, s.kind = "var",
         NEW Q, Needs[d][s] \subseteq Q
  PROVE  GoodNode(d, VarIs(d, s, next), Reach(Q))
<1> DEFINE line == yylineno[d][s][next]
           init == VarInit(d, s, next)
           n == VarIs(d, s, next)
           c == Initial(gen_expr[d - 1], n)
<1>1. /\ d # 0 /\ d - 1 \in Depths /\ s.name \in STRING
      /\ s.init # << >> => s.init[1] \in Expressions[d - 1]
  BY StatementForms
<1>2. n \in StmtNodes[d] /\ init \in Optional(ExprNodes[d - 1]) /\ line \in Nat
  BY VarMakes
<1>3. n.type = "VAR_DECL" /\ n.left = init /\ n.name = s.name /\ n.line = line
  BY DEF VarIs, node
<1>4. Needs[d][s] = StmtNeeds(Need[d - 1], Needs[d - 1], s)
  BY NeedsIs
<1>5. Piece(c, {}, {}, 0, 1, Reach(Q)) /\ 1 \in Reach(Q)
  <2>1. CASE s.init = << >>
    <3>1. 1 \in Q
      BY <1>4, <2>1 DEF StmtNeeds
    <3>2. 1 \in Reach(Q) /\ 0 \in Reach(Q) /\ Reach(Q) \subseteq Nat
      BY <3>1 DEF Reach
    <3>3. c = << make_instr("LOAD_CONST", 0, NoName, line) >>
      BY <1>3, <2>1 DEF Initial, VarInit
    <3>4. /\ 0 + Change("LOAD_CONST") = 1 /\ Fits("LOAD_CONST", 0)
          /\ "LOAD_CONST" \in IROp \ {"LABEL", "JMP", "JZ"}
      BY DEF Change, Pushes, Pops, BinaryOps, Fits, IROp
    <3>5. NoName \in STRING \cup {NoName} /\ 0 \in Int /\ 0 \in Ints
      BY ZeroIsInt
    <3> HIDE DEF c, n, line, init
    <3>6. Piece(<< make_instr("LOAD_CONST", 0, NoName, line) >>, {}, {}, 0, 0 + Change("LOAD_CONST"), Reach(Q))
      BY <1>2, <3>2, <3>4, <3>5, Plain
    <3> QED
      BY <3>2, <3>3, <3>4, <3>6
  <2>2. CASE s.init # << >>
    <3>1. init = expr[d - 1][s.init[1]][line] /\ init \in One(ExprNodes[d - 1])
      BY <1>1, <1>2, <2>2, ExprMakesNode DEF VarInit
    <3>2. c = gen_expr[d - 1][init[1]]
      <4>1. init # NULL
        BY <3>1, OneIs DEF NULL
      <4> QED
        BY <1>3, <4>1 DEF Initial
    <3>3. Need[d - 1][s.init[1]] \in Q
      BY <1>4, <2>2 DEF StmtNeeds
    <3>4. /\ Piece(gen_expr[d - 1][expr[d - 1][s.init[1]][line][1]], {}, {}, 0, 1, Reach(Q))
          /\ 1 \in Reach(Q)
      BY <1>1, <1>2, <2>2, <3>3, ExprReach
    <3> QED
      BY <3>1, <3>2, <3>4
  <2> QED
    BY <2>1, <2>2
<1>6. ASSUME NEW l \in Nat PROVE gen_node[d][n][l] = Emitted(Stored(c, s.name, line), l)
  <2> HIDE DEF n, line
  <2> QED
    BY <1>2, <1>3, GenNodeIs DEF StmtCode
<1> HIDE DEF n, c, line, init
<1>7. ASSUME NEW l \in Nat
      PROVE  Closed(gen_node[d][n][l].ir, l, gen_node[d][n][l].next_label, Reach(Q))
  <2>1. Closed(Stored(c, s.name, line), l, l, Reach(Q))
    BY <1>1, <1>2, <1>5, StoredPiece
  <2> QED
    BY <1>6, <2>1, EmittedIs
<1>8. GoodNode(d, n, Reach(Q))
  BY <1>2, <1>7 DEF GoodNode
<1> QED
  BY <1>8 DEF n

\* A block is as good as its statements.
LEMMA BlockGood ==
  ASSUME NEW d \in Depths, d # 0, NEW nodes, NEW B, GoodList(d - 1, nodes, B), BlockIs(nodes) \in StmtNodes[d]
  PROVE  GoodNode(d, BlockIs(nodes), B)
<1> DEFINE n == BlockIs(nodes)
<1>1. n.type = "BLOCK" /\ n.left = nodes
  BY DEF BlockIs, node
<1> HIDE DEF n
<1>2. ASSUME NEW l \in Nat PROVE gen_node[d][n][l] = gen_stmt(gen_node[d - 1], nodes, l)
  BY <1>1, GenNodeIs DEF StmtCode, n
<1> QED
  BY <1>2 DEF GoodNode, GoodList, n

\* Compose, with names for the unions.
LEMMA ComposeAs ==
  ASSUME NEW c1, NEW L1, NEW T1, NEW c2, NEW L2, NEW T2, NEW a, NEW b, NEW e, NEW B,
         Piece(c1, L1, T1, a, b, B), Piece(c2, L2, T2, b, e, B), L1 \cap L2 = {},
         NEW L, L = L1 \cup L2, NEW T, T = T1 \cup T2
  PROVE  Piece(c1 \o c2, L, T, a, e, B)
  BY Compose

\* The loop of while and of for
LEMMA LoopPiece ==
  ASSUME NEW Q, NEW cond, Piece(cond, {}, {}, 0, 1, Reach(Q)), 1 \in Reach(Q),
         NEW body, NEW L, NEW T, Piece(body, L, T, 0, 0, Reach(Q)),
         NEW l \in Nat, l \notin L, l + 1 \notin L, NEW line \in Nat
  PROVE  Piece(gen_loop(cond, body, l, line), {l, l + 1} \cup L, {l, l + 1} \cup T, 0, 0, Reach(Q))
<1> DEFINE B == Reach(Q)
           c1 == emit_label(l, line)
           c2 == emit_jz(l + 1, line)
           c3 == emit_jmp(l, line)
           c4 == emit_label(l + 1, line)
<1>1. B \subseteq Nat /\ 0 \in B /\ 1 \in B /\ l + 1 \in Nat
  BY DEF Reach
<1> HIDE DEF B
<1>2. Piece(c1, {l}, {}, 0, 0, B) /\ Piece(c3, {}, {l}, 0, 0, B)
  BY <1>1, Emits
<1>3. Piece(c2, {}, {l + 1}, 1, 0, B) /\ Piece(c4, {l + 1}, {}, 0, 0, B)
  BY <1>1, Emits
<1>4. gen_loop(cond, body, l, line) = ((((c1 \o cond) \o c2) \o body) \o c3) \o c4
  BY DEF gen_loop
<1>5. Piece(cond, {}, {}, 0, 1, B) /\ Piece(body, L, T, 0, 0, B)
  BY DEF B
<1> HIDE DEF c1, c2, c3, c4
<1>6. Piece(c1 \o cond, {l}, {}, 0, 1, B)
  <2>1. {l} \cap {} = {} /\ {l} = {l} \cup {} /\ {} = {} \cup {}
    OBVIOUS
  <2> QED
    BY ONLY <1>2, <1>5, <2>1, ComposeAs
<1>7. Piece((c1 \o cond) \o c2, {l}, {l + 1}, 0, 0, B)
  <2>1. {l} \cap {} = {} /\ {l} = {l} \cup {} /\ {l + 1} = {} \cup {l + 1}
    OBVIOUS
  <2> QED
    BY ONLY <1>3, <1>6, <2>1, ComposeAs
<1>8. Piece(((c1 \o cond) \o c2) \o body, {l} \cup L, {l + 1} \cup T, 0, 0, B)
  <2>1. {l} \cap L = {}
    OBVIOUS
  <2> QED
    BY ONLY <1>5, <1>7, <2>1, ComposeAs
<1>9. Piece((((c1 \o cond) \o c2) \o body) \o c3, {l} \cup L, {l, l + 1} \cup T, 0, 0, B)
  <2>1. ({l} \cup L) \cap {} = {} /\ {l} \cup L = ({l} \cup L) \cup {} /\ {l, l + 1} \cup T = ({l + 1} \cup T) \cup {l}
    OBVIOUS
  <2> QED
    BY ONLY <1>2, <1>8, <2>1, ComposeAs
<1>10. Piece(((((c1 \o cond) \o c2) \o body) \o c3) \o c4, {l, l + 1} \cup L, {l, l + 1} \cup T, 0, 0, B)
  <2>1. ({l} \cup L) \cap {l + 1} = {} /\ {l, l + 1} \cup L = ({l} \cup L) \cup {l + 1}
        /\ {l, l + 1} \cup T = ({l, l + 1} \cup T) \cup {}
    OBVIOUS
  <2> QED
    BY ONLY <1>3, <1>9, <2>1, ComposeAs
<1> QED
  BY <1>4, <1>10 DEF B

\* A while takes its condition from the stack and jumps to its own labels.
LEMMA WhileGood ==
  ASSUME NEW d \in Depths, NEW s \in Statements[d], NEW next \in Nat, s.kind = "while",
         NEW Q, Need[d - 1][s.cond] \in Q, GoodMade(d - 1, stmt[d - 1][s.body][next], Reach(Q))
  PROVE  GoodNode(d, WhileIs(d, s, next), Reach(Q))
<1> DEFINE n == WhileIs(d, s, next)
           line == yylineno[d][s][next]
           b == stmt[d - 1][s.body][next]
           c == gen_expr[d - 1][Condition(d, s)[1]]
<1>1. d \in Depths /\ d - 1 \in Depths /\ Made(d - 1)
  BY Conditions, StatementsMake
<1>2. n \in StmtNodes[d] /\ line \in Nat
  BY <1>1, WhileMakes
<1>3. n.type = "WHILE" /\ n.left = Condition(d, s) /\ n.right = b /\ n.line = line
  BY DEF WhileIs, node
<1>4. Piece(c, {}, {}, 0, 1, Reach(Q)) /\ 1 \in Reach(Q)
  <2>1. s.line \in Nat /\ s.cond \in Expressions[d - 1]
    BY Conditions
  <2> QED
    BY <1>1, <2>1, ExprReach DEF Condition
<1>5. GoodList(d - 1, b, Reach(Q))
  BY GoodOne
<1> HIDE DEF n, line, b
<1>6. ASSUME NEW l \in Nat
      PROVE  Closed(gen_node[d][n][l].ir, l, gen_node[d][n][l].next_label, Reach(Q))
  <2> DEFINE g == gen_stmt(gen_node[d - 1], b, l + 2)
  <2>1. gen_node[d][n][l] = gen_while(gen_expr[d - 1], gen_node[d - 1], n, l)
    BY <1>2, <1>3, GenNodeIs DEF StmtCode
  <2>2. gen_node[d][n][l] = Emitted(gen_loop(c, g.ir, l, line), g.next_label)
    BY <1>3, <2>1 DEF gen_while
  <2>3. Closed(g.ir, l + 2, g.next_label, Reach(Q))
    BY <1>5 DEF GoodList
  <2> HIDE DEF g, c
  <2>4. g.next_label \in Nat /\ l + 2 <= g.next_label
    BY <2>3 DEF Closed
  <2>5. PICK L \in SUBSET (l + 2 .. g.next_label - 1) :
          \E T \in SUBSET L : Piece(g.ir, L, T, 0, 0, Reach(Q))
    BY <2>3 DEF Closed
  <2>6. PICK T \in SUBSET L : Piece(g.ir, L, T, 0, 0, Reach(Q))
    BY <2>5
  <2>7. l \notin L /\ l + 1 \notin L
    OBVIOUS
  <2>8. Piece(gen_loop(c, g.ir, l, line), {l, l + 1} \cup L, {l, l + 1} \cup T, 0, 0, Reach(Q))
    BY <1>2, <1>4, <2>6, <2>7, LoopPiece
  <2>9. /\ {l, l + 1} \cup L \in SUBSET (l .. g.next_label - 1)
        /\ {l, l + 1} \cup T \in SUBSET ({l, l + 1} \cup L) /\ l <= g.next_label
    <3>1. l \in l .. g.next_label - 1 /\ l + 1 \in l .. g.next_label - 1 /\ l <= g.next_label
      BY <2>4
    <3>2. \A k \in L : k \in l .. g.next_label - 1
      BY <2>4
    <3> QED
      BY <3>1, <3>2
  <2>10. Closed(gen_loop(c, g.ir, l, line), l, g.next_label, Reach(Q))
    BY <2>4, <2>8, <2>9 DEF Closed
  <2> QED
    BY <2>2, <2>10, EmittedIs
<1>7. GoodNode(d, n, Reach(Q))
  BY <1>2, <1>6 DEF GoodNode
<1> QED
  BY <1>7 DEF n

\* A for does the same, behind its initialisation.
LEMMA ForGood ==
  ASSUME NEW d \in Depths, NEW s \in Statements[d], NEW next \in Nat, s.kind = "for",
         NEW Q, Need[d - 1][s.cond] \in Q, Need[d - 2][s.step.expr] \in Q,
         GoodMade(d - 1, stmt[d - 1][s.init][s.line], Reach(Q)),
         GoodMade(d - 1, stmt[d - 1][s.body][next], Reach(Q))
  PROVE  GoodNode(d, ForIs(d, s, next), Reach(Q))
<1> DEFINE n == ForIs(d, s, next)
           line == yylineno[d][s][next]
           i == stmt[d - 1][s.init][s.line]
           b == Append(stmt[d - 1][s.body][next], ForStep(d, s))
           c == gen_expr[d - 1][Condition(d, s)[1]]
<1>1. d \in Depths /\ d - 1 \in Depths /\ Made(d - 1)
  BY Conditions, StatementsMake
<1>2. /\ n \in StmtNodes[d] /\ line \in Nat
      /\ ForStep(d, s) \in StmtNodes[d - 1]
  BY <1>1, ForMakes
<1>3. n.type = "FOR" /\ n.left = i /\ n.right = Condition(d, s) /\ n.third = b /\ n.line = line
  BY DEF ForIs, node
<1>4. Piece(c, {}, {}, 0, 1, Reach(Q)) /\ 1 \in Reach(Q)
  <2>1. s.line \in Nat /\ s.cond \in Expressions[d - 1]
    BY Conditions
  <2> QED
    BY <1>1, <2>1, ExprReach DEF Condition
<1>5. GoodNode(d - 1, ForStep(d, s), Reach(Q))
  <2>1. /\ d - 2 \in Depths /\ (d - 1) - 1 = d - 2 /\ s.line \in Nat
        /\ s.step.name \in STRING /\ s.step.expr \in Expressions[d - 2]
    BY StatementForms
  <2>2. PICK k \in Depths : k = d - 1 /\ k # 0 /\ k - 1 = d - 2
    BY <1>1, <1>2, <2>1, NothingAtZero
  <2>3. s.step.expr \in Expressions[k - 1] /\ Need[k - 1][s.step.expr] \in Q
    BY <2>1, <2>2
  <2>4. ForStep(d, s) = assignment(s.step.name, expr[k - 1][s.step.expr][s.line], s.line)
    BY <2>2 DEF ForStep
  <2> QED
    BY <1>2, <2>1, <2>2, <2>3, <2>4, AssignmentGood
<1>6. GoodList(d - 1, i, Reach(Q)) /\ GoodList(d - 1, b, Reach(Q))
  BY <1>5, GoodOne, GoodAppend
<1> HIDE DEF n, line, b, i
<1>7. ASSUME NEW l \in Nat
      PROVE  Closed(gen_node[d][n][l].ir, l, gen_node[d][n][l].next_label, Reach(Q))
  <2> DEFINE f == gen_stmt(gen_node[d - 1], i, l + 2)
             g == gen_stmt(gen_node[d - 1], b, f.next_label)
             loop == gen_loop(c, g.ir, l, line)
  <2>1. gen_node[d][n][l] = gen_for(gen_expr[d - 1], gen_node[d - 1], n, l)
    BY <1>2, <1>3, GenNodeIs DEF StmtCode
  <2>2. gen_node[d][n][l] = Emitted(f.ir \o loop, g.next_label)
    BY <1>3, <2>1 DEF gen_for
  <2>3. Closed(f.ir, l + 2, f.next_label, Reach(Q))
    BY <1>6 DEF GoodList
  <2>4. f.next_label \in Nat /\ l + 2 <= f.next_label
    BY <2>3 DEF Closed
  <2>5. Closed(g.ir, f.next_label, g.next_label, Reach(Q))
    BY <1>6, <2>4 DEF GoodList
  <2> HIDE DEF f, g, c
  <2>6. g.next_label \in Nat /\ f.next_label <= g.next_label
    BY <2>5 DEF Closed
  <2>7. PICK K \in SUBSET (l + 2 .. f.next_label - 1) :
          \E U \in SUBSET K : Piece(f.ir, K, U, 0, 0, Reach(Q))
    BY <2>3 DEF Closed
  <2>8. PICK U \in SUBSET K : Piece(f.ir, K, U, 0, 0, Reach(Q))
    BY <2>7
  <2>9. PICK L \in SUBSET (f.next_label .. g.next_label - 1) :
          \E T \in SUBSET L : Piece(g.ir, L, T, 0, 0, Reach(Q))
    BY <2>5 DEF Closed
  <2>10. PICK T \in SUBSET L : Piece(g.ir, L, T, 0, 0, Reach(Q))
    BY <2>9
  <2>11. l \notin L /\ l + 1 \notin L /\ K \cap ({l, l + 1} \cup L) = {}
    BY <2>4
  <2>12. Piece(loop, {l, l + 1} \cup L, {l, l + 1} \cup T, 0, 0, Reach(Q))
    BY <1>2, <1>4, <2>10, <2>11, LoopPiece
  <2> HIDE DEF loop
  <2>13. Piece(f.ir \o loop, K \cup ({l, l + 1} \cup L), U \cup ({l, l + 1} \cup T), 0, 0, Reach(Q))
    BY <2>8, <2>11, <2>12, Compose
  <2>14. /\ K \cup ({l, l + 1} \cup L) \in SUBSET (l .. g.next_label - 1)
         /\ U \cup ({l, l + 1} \cup T) \in SUBSET (K \cup ({l, l + 1} \cup L)) /\ l <= g.next_label
    <3>1. l \in l .. g.next_label - 1 /\ l + 1 \in l .. g.next_label - 1 /\ l <= g.next_label
      BY <2>4, <2>6
    <3>2. \A k \in L : k \in l .. g.next_label - 1
      BY <2>4, <2>6
    <3>3. \A k \in K : k \in l .. g.next_label - 1
      BY <2>4, <2>6
    <3> QED
      BY <3>1, <3>2, <3>3
  <2>15. Closed(f.ir \o loop, l, g.next_label, Reach(Q))
    BY <2>6, <2>13, <2>14 DEF Closed
  <2> QED
    BY <2>2, <2>15, EmittedIs
<1>8. GoodNode(d, n, Reach(Q))
  BY <1>2, <1>7 DEF GoodNode
<1> QED
  BY <1>8 DEF n

\* The code of an if, with the labels l and l + 1
Branches(cond, then, else, l, line) ==
  cond \o emit_jz(l, line) \o then \o emit_jmp(l + 1, line) \o emit_label(l, line)
    \o else \o emit_label(l + 1, line)

\* The code of the two branches of an if is a piece.
LEMMA BranchesPiece ==
  ASSUME NEW Q, NEW cond, Piece(cond, {}, {}, 0, 1, Reach(Q)), 1 \in Reach(Q),
         NEW then, NEW K, NEW U, Piece(then, K, U, 0, 0, Reach(Q)),
         NEW else, NEW L, NEW T, Piece(else, L, T, 0, 0, Reach(Q)),
         NEW l \in Nat, l \notin K, l + 1 \notin K, l \notin L, l + 1 \notin L, K \cap L = {},
         NEW line \in Nat
  PROVE  Piece(Branches(cond, then, else, l, line),
               {l, l + 1} \cup K \cup L, {l, l + 1} \cup U \cup T, 0, 0, Reach(Q))
<1> DEFINE B == Reach(Q)
           c1 == emit_jz(l, line)
           c2 == emit_jmp(l + 1, line)
           c3 == emit_label(l, line)
           c4 == emit_label(l + 1, line)
<1>1. B \subseteq Nat /\ 0 \in B /\ 1 \in B /\ l + 1 \in Nat
  BY DEF Reach
<1> HIDE DEF B
<1>2. Piece(c1, {}, {l}, 1, 0, B) /\ Piece(c3, {l}, {}, 0, 0, B)
  BY <1>1, Emits
<1>3. Piece(c2, {}, {l + 1}, 0, 0, B) /\ Piece(c4, {l + 1}, {}, 0, 0, B)
  BY <1>1, Emits
<1>4. Branches(cond, then, else, l, line) = (((((cond \o c1) \o then) \o c2) \o c3) \o else) \o c4
  BY DEF Branches
<1>5. Piece(cond, {}, {}, 0, 1, B) /\ Piece(then, K, U, 0, 0, B) /\ Piece(else, L, T, 0, 0, B)
  BY DEF B
<1> HIDE DEF c1, c2, c3, c4
<1>6. Piece(cond \o c1, {}, {l}, 0, 0, B)
  <2>1. {} \cap {} = {} /\ {} = {} \cup {} /\ {l} = {} \cup {l}
    OBVIOUS
  <2> QED
    BY ONLY <1>2, <1>5, <2>1, ComposeAs
<1>7. Piece((cond \o c1) \o then, K, {l} \cup U, 0, 0, B)
  <2>1. {} \cap K = {} /\ K = {} \cup K
    OBVIOUS
  <2> QED
    BY ONLY <1>5, <1>6, <2>1, ComposeAs
<1>8. Piece(((cond \o c1) \o then) \o c2, K, {l, l + 1} \cup U, 0, 0, B)
  <2>1. K \cap {} = {} /\ K = K \cup {} /\ {l, l + 1} \cup U = ({l} \cup U) \cup {l + 1}
    OBVIOUS
  <2> QED
    BY ONLY <1>3, <1>7, <2>1, ComposeAs
<1>9. Piece((((cond \o c1) \o then) \o c2) \o c3, {l} \cup K, {l, l + 1} \cup U, 0, 0, B)
  <2>1. K \cap {l} = {} /\ {l} \cup K = K \cup {l} /\ {l, l + 1} \cup U = ({l, l + 1} \cup U) \cup {}
    OBVIOUS
  <2> QED
    BY ONLY <1>2, <1>8, <2>1, ComposeAs
<1>10. Piece(((((cond \o c1) \o then) \o c2) \o c3) \o else, ({l} \cup K) \cup L,
             ({l, l + 1} \cup U) \cup T, 0, 0, B)
  <2>1. ({l} \cup K) \cap L = {}
    OBVIOUS
  <2> QED
    BY ONLY <1>5, <1>9, <2>1, ComposeAs
<1>11. Piece((((((cond \o c1) \o then) \o c2) \o c3) \o else) \o c4,
             {l, l + 1} \cup K \cup L, {l, l + 1} \cup U \cup T, 0, 0, B)
  <2>1. /\ (({l} \cup K) \cup L) \cap {l + 1} = {}
        /\ {l, l + 1} \cup K \cup L = (({l} \cup K) \cup L) \cup {l + 1}
        /\ {l, l + 1} \cup U \cup T = (({l, l + 1} \cup U) \cup T) \cup {}
    OBVIOUS
  <2> QED
    BY ONLY <1>3, <1>10, <2>1, ComposeAs
<1> QED
  BY <1>4, <1>11 DEF B

\* An if takes its condition from the stack and jumps to its own labels.
LEMMA IfGood ==
  ASSUME NEW d \in Depths, NEW s \in Statements[d], NEW next \in Nat, s.kind = "if",
         NEW Q, Need[d - 1][s.cond] \in Q,
         GoodMade(d - 1, IfThen(d, s, next), Reach(Q)), GoodMade(d - 1, IfElse(d, s, next), Reach(Q))
  PROVE  GoodNode(d, IfIs(d, s, next), Reach(Q))
<1> DEFINE n == IfIs(d, s, next)
           line == yylineno[d][s][next]
           a == IfThen(d, s, next)
           b == IfElse(d, s, next)
           c == gen_expr[d - 1][Condition(d, s)[1]]
<1>1. d \in Depths /\ d - 1 \in Depths /\ Made(d - 1)
  BY Conditions, StatementsMake
<1>2. n \in StmtNodes[d] /\ line \in Nat
  BY <1>1, IfMakes
<1>3. n.type = "IF" /\ n.left = Condition(d, s) /\ n.right = a /\ n.third = b /\ n.line = line
  BY DEF IfIs, node
<1>4. Piece(c, {}, {}, 0, 1, Reach(Q)) /\ 1 \in Reach(Q)
  <2>1. s.line \in Nat /\ s.cond \in Expressions[d - 1]
    BY Conditions
  <2> QED
    BY <1>1, <2>1, ExprReach DEF Condition
<1>5. GoodList(d - 1, a, Reach(Q)) /\ GoodList(d - 1, b, Reach(Q))
  BY GoodOne
<1> HIDE DEF n, line, a, b
<1>6. ASSUME NEW l \in Nat
      PROVE  Closed(gen_node[d][n][l].ir, l, gen_node[d][n][l].next_label, Reach(Q))
  <2> DEFINE f == gen_stmt(gen_node[d - 1], a, l + 2)
             g == gen_stmt(gen_node[d - 1], b, f.next_label)
             piece == Branches(c, f.ir, g.ir, l, line)
  <2>1. gen_node[d][n][l] = gen_if(gen_expr[d - 1], gen_node[d - 1], n, l)
    BY <1>2, <1>3, GenNodeIs DEF StmtCode
  <2>2. gen_node[d][n][l] = Emitted(piece, g.next_label)
    BY <1>3, <2>1 DEF gen_if, Branches
  <2>3. Closed(f.ir, l + 2, f.next_label, Reach(Q))
    BY <1>5 DEF GoodList
  <2>4. f.next_label \in Nat /\ l + 2 <= f.next_label
    BY <2>3 DEF Closed
  <2>5. Closed(g.ir, f.next_label, g.next_label, Reach(Q))
    BY <1>5, <2>4 DEF GoodList
  <2> HIDE DEF f, g, c
  <2>6. g.next_label \in Nat /\ f.next_label <= g.next_label
    BY <2>5 DEF Closed
  <2>7. PICK K \in SUBSET (l + 2 .. f.next_label - 1) :
          \E U \in SUBSET K : Piece(f.ir, K, U, 0, 0, Reach(Q))
    BY <2>3 DEF Closed
  <2>8. PICK U \in SUBSET K : Piece(f.ir, K, U, 0, 0, Reach(Q))
    BY <2>7
  <2>9. PICK L \in SUBSET (f.next_label .. g.next_label - 1) :
          \E T \in SUBSET L : Piece(g.ir, L, T, 0, 0, Reach(Q))
    BY <2>5 DEF Closed
  <2>10. PICK T \in SUBSET L : Piece(g.ir, L, T, 0, 0, Reach(Q))
    BY <2>9
  <2>11. l \notin L /\ l + 1 \notin L /\ l \notin K /\ l + 1 \notin K /\ K \cap L = {}
    BY <2>4
  <2>12. Piece(piece, {l, l + 1} \cup K \cup L, {l, l + 1} \cup U \cup T, 0, 0, Reach(Q))
    BY <1>2, <1>4, <2>8, <2>10, <2>11, BranchesPiece
  <2> HIDE DEF piece
  <2>13. /\ {l, l + 1} \cup K \cup L \in SUBSET (l .. g.next_label - 1)
         /\ {l, l + 1} \cup U \cup T \in SUBSET ({l, l + 1} \cup K \cup L) /\ l <= g.next_label
    <3>1. l \in l .. g.next_label - 1 /\ l + 1 \in l .. g.next_label - 1 /\ l <= g.next_label
      BY <2>4, <2>6
    <3>2. \A k \in L : k \in l .. g.next_label - 1
      BY <2>4, <2>6
    <3>3. \A k \in K : k \in l .. g.next_label - 1
      BY <2>4, <2>6
    <3> QED
      BY <3>1, <3>2, <3>3
  <2>14. Closed(piece, l, g.next_label, Reach(Q))
    BY <2>6, <2>12, <2>13 DEF Closed
  <2> QED
    BY <2>2, <2>14, EmittedIs
<1>7. GoodNode(d, n, Reach(Q))
  BY <1>2, <1>6 DEF GoodNode
<1> QED
  BY <1>7 DEF n

\* The code of every statement is good, at every depth.
LEMMA StatementsAreGood ==
  ASSUME NEW d \in Depths, NEW Q PROVE GoodStatements(d, Q)
<1> DEFINE S == {k \in Depths : GoodStatements(k, Q)}
<1>1. 0 \in S
  BY NothingAtZero DEF GoodStatements, Within
<1>2. ASSUME NEW k \in Depths \ {0}, k - 1 \in Depths, k - 1 \in S PROVE k \in S
  <2> SUFFICES ASSUME NEW s \in Within(k, Q), NEW l \in Nat
               PROVE  GoodMade(k, stmt[k][s][l], Reach(Q))
    BY DEF GoodStatements
  <2>0. /\ GoodStatements(k - 1, Q) /\ Made(k - 1) /\ k \in Depths /\ k # 0
        /\ s \in Statements[k] /\ Needs[k][s] \subseteq Q
    BY <1>2, StatementsMake DEF Within
  <2>1. Needs[k][s] = StmtNeeds(Need[k - 1], Needs[k - 1], s)
    BY <2>0, NeedsIs
  <2>2. CASE s.kind = "var"
    <3>1. stmt[k][s][l] = << VarIs(k, s, l) >> /\ GoodNode(k, VarIs(k, s, l), Reach(Q))
      BY <2>0, <2>2, VarMakes, VarGood
    <3> QED
      BY <3>1 DEF GoodMade
  <2>3. CASE s.kind = "assign"
    <3> DEFINE line == yylineno[k][s][l]
               n == assignment(s.name, expr[k - 1][s.expr][line], line)
    <3>1. stmt[k][s][l] = << n >> /\ n \in StmtNodes[k] /\ line \in Nat
      BY <2>0, <2>3, AssignIs
    <3>2. s.expr \in Expressions[k - 1] /\ s.name \in STRING
      BY <2>0, <2>3, StatementForms
    <3>3. Need[k - 1][s.expr] \in Q
      BY <2>0, <2>1, <2>3 DEF StmtNeeds
    <3> HIDE DEF line
    <3>4. GoodNode(k, n, Reach(Q))
      BY <2>0, <3>1, <3>2, <3>3, AssignmentGood
    <3> QED
      BY <3>1, <3>4 DEF GoodMade
  <2>4. CASE s.kind = "if"
    <3>1. /\ Need[k - 1][s.cond] \in Q
          /\ s.then \in Within(k - 1, Q)
          /\ s.else # << >> => s.else[1] \in Within(k - 1, Q) /\ s.else[1].line \in Nat
      <4>1. CASE s.else = << >>
        BY <2>0, <2>1, <2>4, <4>1, StatementForms DEF StmtNeeds, Within
      <4>2. CASE s.else # << >>
        <5>1. s.then \in Statements[k - 1] /\ s.else[1] \in Statements[k - 1]
          BY <2>0, <2>4, <4>2, StatementForms
        <5>2. s.else[1].line \in Nat
          BY <1>2, <5>1, StatementForms
        <5> QED
          BY <2>0, <2>1, <2>4, <4>2, <5>1, <5>2 DEF StmtNeeds, Within
      <4> QED
        BY <4>1, <4>2
    <3>2. GoodMade(k - 1, IfThen(k, s, l), Reach(Q))
      BY <2>0, <3>1 DEF GoodStatements, IfThen
    <3>3. GoodMade(k - 1, IfElse(k, s, l), Reach(Q))
      BY <2>0, <3>1 DEF GoodStatements, GoodMade, IfElse, NULL
    <3>4. stmt[k][s][l] = << IfIs(k, s, l) >> /\ GoodNode(k, IfIs(k, s, l), Reach(Q))
      BY <2>0, <2>4, <3>1, <3>2, <3>3, IfMakes, IfGood
    <3> QED
      BY <3>4 DEF GoodMade
  <2>5. CASE s.kind = "while"
    <3>1. Need[k - 1][s.cond] \in Q /\ s.body \in Within(k - 1, Q)
      BY <2>0, <2>1, <2>5, StatementForms DEF StmtNeeds, Within
    <3>2. GoodMade(k - 1, stmt[k - 1][s.body][l], Reach(Q))
      BY <2>0, <3>1 DEF GoodStatements
    <3>3. stmt[k][s][l] = << WhileIs(k, s, l) >> /\ GoodNode(k, WhileIs(k, s, l), Reach(Q))
      BY <2>0, <2>5, <3>1, <3>2, WhileMakes, WhileGood
    <3> QED
      BY <3>3 DEF GoodMade
  <2>6. CASE s.kind = "for"
    <3>1. /\ Need[k - 1][s.cond] \in Q /\ s.body \in Within(k - 1, Q)
          /\ s.init \in Within(k - 1, Q) /\ s.step \in Within(k - 1, Q) /\ s.line \in Nat
          /\ s.step.kind = "assign" /\ (k - 1) - 1 = k - 2
      BY <2>0, <2>1, <2>6, StatementForms DEF StmtNeeds, Within
    <3>2. /\ GoodMade(k - 1, stmt[k - 1][s.body][l], Reach(Q))
          /\ GoodMade(k - 1, stmt[k - 1][s.init][s.line], Reach(Q))
      BY <2>0, <3>1 DEF GoodStatements
    <3>3. Need[k - 2][s.step.expr] \in Q
      <4>1. /\ s.step \in Statements[k - 1] /\ Needs[k - 1][s.step] \subseteq Q
        BY <3>1 DEF Within
      <4>2. Needs[k - 1][s.step] = StmtNeeds(Need[(k - 1) - 1], Needs[(k - 1) - 1], s.step)
        BY <1>2, <4>1, NeedsIs
      <4>3. Needs[k - 1][s.step] = {Need[k - 2][s.step.expr]}
        BY <3>1, <4>2 DEF StmtNeeds
      <4> QED
        BY <4>1, <4>3
    <3>4. stmt[k][s][l] = << ForIs(k, s, l) >> /\ GoodNode(k, ForIs(k, s, l), Reach(Q))
      BY <2>0, <2>6, <3>1, <3>2, <3>3, ForMakes, ForGood
    <3> QED
      BY <3>4 DEF GoodMade
  <2>7. CASE s.kind = "block"
    <3> DEFINE nodes == stmt_list(stmt[k - 1], s.stmts, s.last)
    <3>1. s.stmts \in Seq(Statements[k - 1]) /\ s.last \in Nat
      BY <2>0, <2>7, StatementForms
    <3>2. \A i \in DOMAIN s.stmts : s.stmts[i] \in Within(k - 1, Q)
      BY <2>0, <2>1, <2>7, <3>1 DEF StmtNeeds, Within
    <3>3. s.stmts \in Seq(Within(k - 1, Q))
      BY <3>1, <3>2
    <3>4. GoodList(k - 1, nodes, Reach(Q))
      BY <1>2, <2>0, <3>1, <3>3, GoodStmtList
    <3>5. stmt[k][s][l] = << BlockIs(nodes) >> /\ BlockIs(nodes) \in StmtNodes[k]
      BY <2>0, <2>7, BlockMakes
    <3> HIDE DEF nodes
    <3>6. GoodNode(k, BlockIs(nodes), Reach(Q))
      BY <2>0, <3>4, <3>5, BlockGood
    <3> QED
      BY <3>5, <3>6 DEF GoodMade
  <2>8. CASE s.kind = "empty"
    BY <2>0, <2>8, EmptyMakes DEF GoodMade, NULL
  <2> QED
    BY <2>0, <2>2, <2>3, <2>4, <2>5, <2>6, <2>7, <2>8, Kinds
<1> HIDE DEF S
<1>3. Depths \subseteq S
  BY <1>1, <1>2, DepthInduction
<1> QED
  BY <1>3 DEF S

(***************************************************************************)
(* The code of a file.                                                     *)
(***************************************************************************)

\* The tree of a file is one block.
FileNodes(stmts) == stmt_list(stmt[MAX_DEPTH - 1], stmts, LastLine)

\* A file is a list of statements one depth below the bound.
LEMMA FileDepth ==
  MAX_DEPTH \in Depths /\ MAX_DEPTH - 1 \in Depths /\ MAX_DEPTH # 0 /\ LastLine \in Nat
BY SourceAssumption DEF Depths, LastLine

\* The tree of a file is the block of its statements' nodes.
LEMMA ProgramIs ==
  ASSUME NEW stmts, stmts # << >>
  PROVE  program(stmts, LastLine) = << BlockIs(FileNodes(stmts)) >>
<1>1. program(stmts, LastLine) = ast_make_block(FileNodes(stmts))
  BY DEF program, FileNodes
<1> QED
  BY <1>1, BlockNode DEF BlockIs

\* The code of a file for the counter l
FileIr(stmts, l) == generate_ir(program(stmts, LastLine), l)

\* The code of a file is that of its statements one behind the other.
LEMMA FileIrIs ==
  ASSUME NEW stmts, stmts # << >>, NEW l
  PROVE  FileIr(stmts, l) = gen_stmt(gen_node[MAX_DEPTH - 1], FileNodes(stmts), l)
<1> DEFINE root == BlockIs(FileNodes(stmts))
<1>1. program(stmts, LastLine) = << root >>
  BY ProgramIs
<1>2. root.left = FileNodes(stmts)
  BY DEF BlockIs, node
<1> HIDE DEF root
<1>3. << root >>[1] = root
  OBVIOUS
<1> QED
  BY <1>1, <1>2, <1>3 DEF FileIr, generate_ir

\* It is good within what the file's expressions need ...
LEMMA FileIsGood ==
  ASSUME NEW stmts \in Seq(FileStatements)
  PROVE  GoodList(MAX_DEPTH - 1, FileNodes(stmts), Reach(NeedsOf(stmts)))
<1> DEFINE Q == NeedsOf(stmts)
           k == MAX_DEPTH - 1
<1>1. k \in Depths /\ LastLine \in Nat
  BY FileDepth
<1>2. stmts \in Seq(Within(k, Q))
  <2>1. \A i \in DOMAIN stmts : stmts[i] \in Statements[k] /\ Needs[k][stmts[i]] \subseteq Q
    BY DEF NeedsOf, FileStatements
  <2> HIDE DEF Q
  <2>2. \A i \in DOMAIN stmts : stmts[i] \in Within(k, Q)
    BY <2>1 DEF Within
  <2> QED
    BY <2>2
<1> HIDE DEF Q, k
<1>3. GoodStatements(k, Q)
  BY <1>1, StatementsAreGood
<1>4. GoodList(k, stmt_list(stmt[k], stmts, LastLine), Reach(Q))
  BY <1>1, <1>2, <1>3, GoodStmtList
<1> QED
  BY <1>4 DEF FileNodes, Q, k

\* ... and uses the labels from the counter on, all its own.
LEMMA FileIrIsClosed ==
  ASSUME NEW stmts \in Seq(FileStatements), stmts # << >>, NEW l \in Nat
  PROVE  Closed(FileIr(stmts, l).ir, l, FileIr(stmts, l).next_label, Reach(NeedsOf(stmts)))
<1>1. GoodList(MAX_DEPTH - 1, FileNodes(stmts), Reach(NeedsOf(stmts)))
  BY FileIsGood
<1>2. FileIr(stmts, l) = gen_stmt(gen_node[MAX_DEPTH - 1], FileNodes(stmts), l)
  BY FileIrIs
<1> QED
  BY <1>1, <1>2 DEF GoodList

(***************************************************************************)
(* The code that has been linked.                                          *)
(***************************************************************************)

\* The depths along the code are the only ones with these steps.
LEMMA DepthsAlong ==
  ASSUME NEW c \in Seq(IRInstr), NEW p, NEW B, Along(c, p, B), p[1] = 0
  PROVE  DepthsOf(c) = p
<1> DEFINE R(d) == d = [i \in 1 .. Len(c) + 1 |-> IF i = 1 THEN 0 ELSE d[i - 1] + Change(c[i - 1].op)]
           D == CHOOSE d : R(d)
<1>1. Len(c) \in Nat /\ p \in [1 .. Len(c) + 1 -> B]
  BY DEF Along
<1>2. \A i \in 1 .. Len(c) + 1 : i # 1 => i - 1 \in 1 .. Len(c) /\ (i - 1) + 1 = i
  BY <1>1
<1>3. \A i \in 1 .. Len(c) + 1 : p[i] = IF i = 1 THEN 0 ELSE p[i - 1] + Change(c[i - 1].op)
  BY <1>2 DEF Along
<1>4. R(p)
  BY <1>1, <1>3
<1>5. R(D)
  BY <1>4
<1>6. DepthsOf(c) = D
  BY DEF DepthsOf
<1>7. D = [i \in 1 .. Len(c) + 1 |-> D[i]]
  BY <1>5
<1>8. \A i \in 1 .. Len(c) + 1 : D[i] = IF i = 1 THEN 0 ELSE D[i - 1] + Change(c[i - 1].op)
  BY <1>5
<1> HIDE DEF D
<1>9. \A i \in 1 .. Len(c) + 1 : D[i] = p[i]
  <2> SUFFICES ASSUME NEW i \in 1 .. Len(c) + 1, D[i] # p[i] PROVE FALSE
    OBVIOUS
  <2> DEFINE T == {j \in 1 .. Len(c) + 1 : D[j] # p[j]}
  <2>1. T \subseteq Nat /\ T # {}
    BY <1>1
  <2>2. PICK n \in T : \A j \in T : n <= j
    BY <2>1, LeastElement
  <2>3. CASE n = 1
    BY <1>3, <1>8, <2>2, <2>3
  <2>4. CASE n # 1
    <3>1. n - 1 \in 1 .. Len(c) + 1 /\ n - 1 < n
      BY <1>1, <2>2, <2>4
    <3>2. D[n - 1] = p[n - 1]
      BY <2>2, <3>1
    <3> QED
      BY <1>3, <1>8, <2>2, <2>4, <3>2
  <2> QED
    BY <2>3, <2>4
<1> QED
  BY <1>1, <1>6, <1>7, <1>9

\* What a compilation delivers: jumps go to labels, of which no two have the
\* same id; instructions find their operands, labels and the end nothing.
GoodCode(c, B) ==
  /\ Linked(c)
  /\ \A i, j \in DOMAIN c :
       IsLabel(c[i]) /\ IsLabel(c[j]) /\ c[i].value = c[j].value => i = j
  /\ \A i \in DOMAIN c : IsJump(c[i]) => IsLabel(c[c[i].value + 1])
  /\ Along(c, DepthsOf(c), B)
  /\ DepthsOf(c)[1] = 0 /\ DepthsOf(c)[Len(c) + 1] = 0

\* A piece whose jumps go to its own labels can be linked.
LEMMA PieceIsLinkable ==
  ASSUME NEW c, NEW L, NEW T \in SUBSET L, NEW B, Piece(c, L, T, 0, 0, B)
  PROVE  Linkable(c)
<1>1. c \in Seq(IRInstr) /\ Clean(c) /\ Targets(c) \subseteq LabelIds(c)
  BY DEF Piece
<1>2. \A i \in DOMAIN c : IsJump(c[i]) => c[i].value \in Targets(c)
  BY DEF Targets
<1> QED
  BY <1>1, <1>2 DEF Linkable, Clean

\* Linked, it has depths along all its ways, and its jumps reach labels.
LEMMA ResolvedIsGood ==
  ASSUME NEW ir, NEW L, NEW T \in SUBSET L, NEW B, Piece(ir, L, T, 0, 0, B)
  PROVE  GoodCode(ir_resolve_labels(ir), B)
<1> DEFINE c == ir_resolve_labels(ir)
<1>1. Linkable(ir)
  BY PieceIsLinkable
<1>2. Linked(c)
  BY <1>1, ResolvedCodeIsLinked
<1>3. /\ DOMAIN c = DOMAIN ir
      /\ \A i \in DOMAIN ir :
           /\ c[i].op = ir[i].op
           /\ ~ IsJump(ir[i]) => c[i] = ir[i]
           /\ IsJump(ir[i]) => IsLabel(c[c[i].value + 1])
  BY <1>1, JumpsReachTheirLabels
<1> HIDE DEF c
<1>4. ir \in Seq(IRInstr) /\ Clean(ir)
  BY DEF Piece
<1>5. c \in Seq(IRInstr)
  BY <1>2 DEF Linked
<1>6. /\ Len(c) \in Nat /\ Len(ir) \in Nat
      /\ DOMAIN c = 1 .. Len(c) /\ DOMAIN ir = 1 .. Len(ir)
  BY <1>4, <1>5
<1>7. Len(c) = Len(ir)
  <2>1. 1 .. Len(c) = 1 .. Len(ir)
    BY <1>3, <1>6
  <2>2. CASE Len(c) < Len(ir)
    <3>1. Len(ir) \in 1 .. Len(ir) /\ Len(ir) \notin 1 .. Len(c)
      BY <1>6, <2>2
    <3> QED
      BY <2>1, <3>1
  <2>3. CASE Len(ir) < Len(c)
    <3>1. Len(c) \in 1 .. Len(c) /\ Len(c) \notin 1 .. Len(ir)
      BY <1>6, <2>3
    <3> QED
      BY <2>1, <3>1
  <2>4. Len(c) \in Nat /\ Len(ir) \in Nat
    BY <1>6
  <2> QED
    BY ONLY <2>2, <2>3, <2>4
<1>8. \A i \in DOMAIN c : IsLabel(c[i]) => IsLabel(ir[i]) /\ c[i] = ir[i]
  BY <1>3 DEF IsLabel, IsJump
<1>9. \A i \in DOMAIN c : IsJump(c[i]) => IsJump(ir[i])
  BY <1>3 DEF IsJump
<1>10. \A i, j \in DOMAIN c : IsLabel(c[i]) /\ IsLabel(c[j]) /\ c[i].value = c[j].value => i = j
  BY <1>3, <1>4, <1>8 DEF Clean
<1>11. \A i \in DOMAIN c : IsJump(c[i]) => IsLabel(c[c[i].value + 1])
  BY <1>3, <1>9
<1>12. PICK p : Along(ir, p, B) /\ p[1] = 0 /\ p[Len(ir) + 1] = 0
  BY DEF Piece
<1>13. Along(c, p, B)
  <2>1. p \in [1 .. Len(c) + 1 -> B]
    BY <1>7, <1>12 DEF Along
  <2>2. \A i \in 1 .. Len(c) : Fits(c[i].op, p[i]) /\ p[i + 1] = p[i] + Change(c[i].op)
    BY <1>3, <1>6, <1>7, <1>12 DEF Along
  <2> QED
    BY <2>1, <2>2 DEF Along
<1>14. DepthsOf(c) = p
  BY <1>5, <1>12, <1>13, DepthsAlong
<1> QED
  BY <1>2, <1>7, <1>10, <1>11, <1>12, <1>13, <1>14 DEF GoodCode, c

\* The code of every file is good, whatever the counter of labels was
\* (generate_ir, ir_resolve_labels).
LEMMA CompiledIsGood ==
  ASSUME NEW stmts \in Seq(FileStatements), stmts # << >>, NEW l \in Nat
  PROVE  /\ FileIr(stmts, l).next_label \in Nat /\ l <= FileIr(stmts, l).next_label
         /\ GoodCode(ir_resolve_labels(FileIr(stmts, l).ir), Reach(NeedsOf(stmts)))
<1> DEFINE g == FileIr(stmts, l)
           B == Reach(NeedsOf(stmts))
<1>1. Closed(g.ir, l, g.next_label, B)
  BY FileIrIsClosed
<1> HIDE DEF g, B
<1>2. PICK L \in SUBSET (l .. g.next_label - 1) : \E T \in SUBSET L : Piece(g.ir, L, T, 0, 0, B)
  BY <1>1 DEF Closed
<1> PICK T \in SUBSET L : Piece(g.ir, L, T, 0, 0, B)
  BY <1>2
<1>3. GoodCode(ir_resolve_labels(g.ir), B)
  BY ResolvedIsGood
<1> QED
  BY <1>1, <1>3 DEF g, B, Closed

\* In good code the depth of the stack is the same whatever way the jumps take.
LEMMA GoodIsBalanced ==
  ASSUME NEW c, NEW B \in SUBSET Nat, GoodCode(c, B) PROVE Balanced(c)
<1> DEFINE d == DepthsOf(c)
<1>1. Linked(c) /\ Along(c, d, B) /\ d[1] = 0 /\ d[Len(c) + 1] = 0
  BY DEF GoodCode
<1>2. \A i \in DOMAIN c : IsJump(c[i]) => IsLabel(c[c[i].value + 1]) /\ c[i].value \in 0 .. Len(c) - 1
  BY DEF GoodCode, Linked
<1> HIDE DEF d
<1>3. c \in Seq(IRInstr)
  BY <1>1 DEF Linked
<1>4. Len(c) \in Nat /\ DOMAIN c = 1 .. Len(c)
  BY <1>3
<1>5. d \in [1 .. Len(c) + 1 -> Nat]
  BY <1>1 DEF Along
<1>6. \A i \in DOMAIN c : Fits(c[i].op, d[i]) /\ d[i + 1] = d[i] + Change(c[i].op)
  BY <1>1, <1>4 DEF Along
<1>7. ASSUME NEW i \in DOMAIN c, c[i].op \in {"JMP", "JZ"}
      PROVE  d[c[i].value + 1] = d[i] + Change(c[i].op)
  <2>1. c[i].value + 1 \in DOMAIN c /\ IsLabel(c[c[i].value + 1])
    BY <1>2, <1>4, <1>7 DEF IsJump
  <2>2. d[c[i].value + 1] = 0
    BY <1>6, <2>1 DEF Fits, IsLabel
  <2>3. d[i] + Change(c[i].op) = 0
    BY <1>6, <1>7 DEF Fits, Change, Pops, Pushes, BinaryOps
  <2> QED
    BY <2>2, <2>3
<1>8. \A i \in DOMAIN c : d[i] >= Pops(c[i].op)
  BY <1>6 DEF Fits
<1> QED
  BY <1>1, <1>5, <1>6, <1>7, <1>8 DEF d, Balanced, AreDepths

(***************************************************************************)
(* Sessions.                                                               *)
(***************************************************************************)

\* Of numbers or of anything else
IsStack(s) == Len(s) \in Nat /\ s = [k \in 1 .. Len(s) |-> s[k]]

\* The machine executes the code of the last source; how deep its stack is
\* depends on where it stands and on nothing else.
MachineInv ==
  /\ result.ok => GoodCode(result.ir, Reach(NeedsOf(source)))
  /\ who = 0 => pc = 0 /\ stack = << >>
  /\ who # 0 =>
       /\ result.ok /\ code = result.ir
       /\ pc \in 0 .. Len(code)
       /\ IsStack(stack) /\ Len(stack) = DepthsOf(code)[pc + 1]

SessionInv ==
  /\ ScannerInv
  /\ next_label \in Nat
  /\ MachineInv

\* What the grammar accepts is a list of statements.
LEMMA AcceptedStatements ==
  ASSUME ScannerInv, NEW f \in Files, Accepts(f) PROVE Content(f) \in Seq(FileStatements)
<1>1. buffer \in Seq(Pieces) /\ f \in Seq(Pieces)
  BY FilesAreSequences DEF ScannerInv
<1>2. Content(f) \in Seq(Pieces)
  BY <1>1 DEF Content
<1>3. \A n \in DOMAIN Content(f) : ~ SyntaxError(Content(f)[n])
  BY DEF Accepts, ErrorsIn
<1>4. \A x \in Pieces : SyntaxError(x) \/ x \in FileStatements
  <2> SUFFICES ASSUME NEW g \in Files, NEW n \in DOMAIN g
               PROVE  SyntaxError(g[n]) \/ g[n] \in FileStatements
    BY DEF Pieces
  <2> QED
    BY FilesAssumption
<1> HIDE DEF Content
<1>5. \A n \in DOMAIN Content(f) : Content(f)[n] \in FileStatements
  BY <1>2, <1>3, <1>4
<1> QED
  BY <1>2, <1>5

\* compile_program is a step of the scanner.
LEMMA CompileParses ==
  ASSUME ScannerInv, NEW f \in FilesAfter(file), compile_program(f)
  PROVE  f \in Files /\ Parses(f)
<1>1. f \in Files
  BY FilesAssumption DEF ScannerInv
<1>2. Compiled(f) /\ (Rejects(f) \/ Accepts(f))
  BY DEF compile_program, SyntaxFails, Parsed
<1> QED
  BY <1>1, <1>2 DEF Parses

\* The code a compilation gives is good for the source it was made of.
LEMMA CompilesGood ==
  ASSUME ScannerInv, next_label \in Nat, NEW f \in FilesAfter(file), compile_program(f),
         source' = Content(f)
  PROVE  /\ next_label' \in Nat
         /\ result'.ok => GoodCode(result'.ir, Reach(NeedsOf(source')))
<1>1. f \in Files
  BY CompileParses
<1>2. CASE SyntaxFails(f)
  BY <1>2 DEF SyntaxFails, NoCode
<1>3. CASE Parsed(f)
  <2> DEFINE root == program(Content(f), LastLine)
             g == FileIr(Content(f), next_label)
  <2>1. Accepts(f) /\ (EmptyFails(root) \/ SemanticFails(root) \/ Succeeds(root))
    BY <1>3 DEF Parsed
  <2>2. CASE EmptyFails(root)
    BY <2>2 DEF EmptyFails, NoCode
  <2>3. CASE SemanticFails(root)
    BY <2>3 DEF SemanticFails, NoCode
  <2>4. CASE Succeeds(root)
    <3>1. Content(f) \in Seq(FileStatements)
      BY <1>1, <2>1, AcceptedStatements
    <3>2. Content(f) # << >>
      BY <2>4 DEF Succeeds, program
    <3>3. g.next_label \in Nat /\ GoodCode(ir_resolve_labels(g.ir), Reach(NeedsOf(Content(f))))
      BY <3>1, <3>2, CompiledIsGood
    <3>4. next_label' = g.next_label /\ result' = [ok |-> TRUE, ir |-> ir_resolve_labels(g.ir)]
      BY <2>4 DEF Succeeds, FileIr
    <3> HIDE DEF g
    <3>5. result'.ir = ir_resolve_labels(g.ir)
      BY <3>4
    <3> QED
      BY <3>3, <3>4, <3>5
  <2> QED
    BY <2>1, <2>2, <2>3, <2>4
<1> QED
  BY <1>2, <1>3 DEF compile_program

\* The invariant holds when the shell starts.
LEMMA SessionStarts ==
  SessionInit => SessionInv
<1> SUFFICES ASSUME SessionInit PROVE SessionInv
  OBVIOUS
<1>1. ScannerInv /\ next_label \in Nat /\ ~ result.ok
  BY ScannerStarts DEF SessionInit, Init, NoCode
<1>2. who = 0 /\ pc = 0 /\ stack = << >>
  BY DEF SessionInit, Machine!Nobody
<1> QED
  BY <1>1, <1>2 DEF SessionInv, MachineInv

\* A compilation, also of a missing file, keeps it.
LEMMA CompileKeeps ==
  ASSUME SessionInv, Compile PROVE SessionInv'
<1>1. ScannerInv /\ next_label \in Nat
  BY DEF SessionInv
<1>2. who' = 0 /\ pc' = 0 /\ stack' = << >>
  BY DEF Compile, NoProgram
<1>3. CASE NoFile
  <2>1. ScannerInv'
    BY <1>1, <1>3, ScannerStep DEF NoFile, ScannerNext
  <2>2. next_label' \in Nat /\ ~ result'.ok
    BY <1>1, <1>3 DEF NoFile, NoCode
  <2> QED
    BY <1>2, <2>1, <2>2 DEF SessionInv, MachineInv
<1>4. ASSUME NEW f \in FilesAfter(file), compile_program(f), source' = Content(f)
      PROVE  SessionInv'
  <2>1. ScannerInv'
    <3>1. f \in Files /\ Parses(f)
      BY <1>1, <1>4, CompileParses
    <3> QED
      BY <1>1, <3>1, ScannerStep DEF ScannerNext
  <2>2. next_label' \in Nat /\ (result'.ok => GoodCode(result'.ir, Reach(NeedsOf(source'))))
    BY <1>1, <1>4, CompilesGood
  <2> QED
    BY <1>2, <2>1, <2>2 DEF SessionInv, MachineInv
<1> QED
  BY <1>3, <1>4 DEF Compile

(***************************************************************************)
(* The machine.                                                            *)
(***************************************************************************)

\* The machine's stacks are sequences of some length.
LEMMA StackIs ==
  ASSUME NEW S, NEW s \in Seq(S) PROVE IsStack(s)
BY DEF IsStack

\* A value pushed behind the lowest n makes n + 1.
LEMMA PushIs ==
  ASSUME NEW s, IsStack(s), NEW v, NEW n \in 0 .. Len(s)
  PROVE  LET t == Append(SubSeq(s, 1, n), v) IN IsStack(t) /\ Len(t) = n + 1
<1> DEFINE S == {s[k] : k \in 1 .. Len(s)} \cup {v}
<1>1. s \in Seq(S) /\ v \in S /\ Len(s) \in Nat
  BY DEF IsStack
<1> HIDE DEF S
<1>2. SubSeq(s, 1, n) \in Seq(S) /\ Len(SubSeq(s, 1, n)) = n
  BY <1>1
<1>3. Append(SubSeq(s, 1, n), v) \in Seq(S) /\ Len(Append(SubSeq(s, 1, n), v)) = n + 1
  BY <1>1, <1>2
<1> QED
  BY <1>3, StackIs

\* The lowest n are n.
LEMMA PopIs ==
  ASSUME NEW s, IsStack(s), NEW n \in 0 .. Len(s)
  PROVE  IsStack(SubSeq(s, 1, n)) /\ Len(SubSeq(s, 1, n)) = n
<1> DEFINE S == {s[k] : k \in 1 .. Len(s)}
<1>1. s \in Seq(S) /\ Len(s) \in Nat
  BY DEF IsStack
<1> HIDE DEF S
<1>2. SubSeq(s, 1, n) \in Seq(S) /\ Len(SubSeq(s, 1, n)) = n
  BY <1>1
<1> QED
  BY <1>2, StackIs

\* What the invariant says of the next instruction
LEMMA NextInstruction ==
  ASSUME SessionInv, who # 0, pc < Len(code)
  PROVE  /\ IsStack(stack) /\ Len(stack) \in Nat /\ pc \in Nat /\ Len(code) \in Nat
         /\ code[pc + 1] \in IRInstr
         /\ Fits(code[pc + 1].op, Len(stack))
         /\ pc + 1 \in 0 .. Len(code)
         /\ DepthsOf(code)[(pc + 1) + 1] = Len(stack) + Change(code[pc + 1].op)
         /\ IsJump(code[pc + 1]) =>
              /\ code[pc + 1].value \in 0 .. Len(code)
              /\ DepthsOf(code)[code[pc + 1].value + 1] = 0
<1> DEFINE d == DepthsOf(code)
           i == pc + 1
<1>1. /\ GoodCode(code, Reach(NeedsOf(source)))
      /\ pc \in 0 .. Len(code) /\ IsStack(stack) /\ Len(stack) = d[i]
  BY DEF SessionInv, MachineInv
<1>2. Along(code, d, Reach(NeedsOf(source))) /\ code \in Seq(IRInstr)
  BY <1>1 DEF GoodCode, Linked
<1>3. Len(code) \in Nat /\ DOMAIN code = 1 .. Len(code) /\ pc \in Nat
  BY <1>1, <1>2
<1>4. i \in 1 .. Len(code)
  BY <1>3
<1>5. \A j \in 1 .. Len(code) : Fits(code[j].op, d[j]) /\ d[j + 1] = d[j] + Change(code[j].op)
  BY <1>2 DEF Along
<1>6. ASSUME IsJump(code[i])
      PROVE  code[i].value \in 0 .. Len(code) /\ d[code[i].value + 1] = 0
  <2>1. code[i].value \in 0 .. Len(code) - 1 /\ IsLabel(code[code[i].value + 1])
    BY <1>1, <1>3, <1>4, <1>6 DEF GoodCode, Linked
  <2>2. code[i].value + 1 \in 1 .. Len(code)
    BY <1>3, <2>1
  <2>3. d[code[i].value + 1] = 0
    BY <1>5, <2>1, <2>2 DEF Fits, IsLabel
  <2> QED
    BY <1>3, <2>1, <2>3
<1>7. code[i] \in IRInstr
  BY <1>2, <1>3, <1>4
<1> QED
  BY <1>1, <1>3, <1>4, <1>5, <1>6, <1>7 DEF IsStack

\* An instruction keeps the invariant: the depth follows the one along the code.
LEMMA ExecuteKeeps ==
  ASSUME SessionInv, Execute PROVE SessionInv'
<1> DEFINE op == code[pc + 1].op
           m == Len(stack)
<1>1. who # 0 /\ pc < Len(code) /\ who' = who /\ code' = code /\ result' = result /\ source' = source
  BY DEF Execute, Machine!Step, vars
<1>2. ScannerInv' /\ next_label' \in Nat
  <2>1. UNCHANGED scanner
    BY DEF Execute, vars
  <2> QED
    BY <2>1, ScannerStep DEF Execute, vars, SessionInv
<1>3. /\ IsStack(stack) /\ m \in Nat /\ pc \in Nat /\ Len(code) \in Nat
      /\ code[pc + 1] \in IRInstr
      /\ Fits(op, m)
      /\ pc + 1 \in 0 .. Len(code)
      /\ DepthsOf(code)[(pc + 1) + 1] = m + Change(op)
      /\ IsJump(code[pc + 1]) =>
           /\ code[pc + 1].value \in 0 .. Len(code)
           /\ DepthsOf(code)[code[pc + 1].value + 1] = 0
  BY <1>1, NextInstruction
<1>4. m >= Pops(op) /\ Pops(op) \in Nat
  BY <1>3 DEF Fits, Pops
<1>5. SUFFICES /\ pc' \in 0 .. Len(code) /\ IsStack(stack')
               /\ Len(stack') = DepthsOf(code)[pc' + 1]
  BY <1>1, <1>2 DEF SessionInv, MachineInv
<1>6. ASSUME NEW v, Machine!Push(v), Pushes(op)
      PROVE  pc' \in 0 .. Len(code) /\ IsStack(stack') /\ Len(stack') = DepthsOf(code)[pc' + 1]
  <2>1. stack' = Append(SubSeq(stack, 1, m - Pops(op)), v) /\ pc' = pc + 1
    BY <1>6 DEF Machine!Push, Machine!Instr, Machine!Depth, Machine!Pops, Pops, Machine!BinaryOps, BinaryOps
  <2>2. PICK n \in 0 .. m : n = m - Pops(op)
    BY <1>3, <1>4
  <2>3. IsStack(stack') /\ Len(stack') = n + 1
    BY <1>3, <2>1, <2>2, PushIs
  <2>4. m + Change(op) = n + 1
    BY <1>3, <1>4, <1>6, <2>2 DEF Change
  <2> QED
    BY <1>3, <2>1, <2>3, <2>4
<1>7. ASSUME stack' = SubSeq(stack, 1, m - 1), m = 1 PROVE IsStack(stack') /\ Len(stack') = 0
  <2>1. PICK n \in 0 .. m : n = 0 /\ n = m - 1
    BY <1>3, <1>7
  <2> QED
    BY <1>3, <1>7, <2>1, PopIs
<1>8. CASE Machine!Constant
  BY <1>6, <1>8 DEF Machine!Constant, Machine!Instr, Pushes
<1>9. CASE Machine!Operation
  <2>1. Pushes(op)
    BY <1>9 DEF Machine!Operation, Machine!Instr, Machine!BinaryOps, Pushes, BinaryOps
  <2> QED
    BY <1>6, <1>9, <2>1 DEF Machine!Operation
<1>10. CASE Machine!Load
  <2>1. Pushes(op)
    BY <1>10 DEF Machine!Load, Machine!Instr, Pushes
  <2> QED
    BY <1>6, <1>10, <2>1 DEF Machine!Load
<1>11. CASE Machine!Store
  <2>1. op = "STORE_VAR" /\ stack' = SubSeq(stack, 1, m - 1) /\ pc' = pc + 1
    BY <1>11 DEF Machine!Store, Machine!Instr, Machine!Depth
  <2>2. m = 1 /\ m + Change(op) = 0
    BY <1>3, <2>1 DEF Fits, Change, Pops, Pushes, BinaryOps
  <2> QED
    BY <1>3, <1>7, <2>1, <2>2
<1>12. CASE Machine!Jump
  <2>1. /\ op \in {"JMP", "LABEL"} /\ stack' = stack
        /\ pc' = IF op = "JMP" THEN code[pc + 1].value ELSE pc + 1
    BY <1>12 DEF Machine!Jump, Machine!Instr
  <2>2. m = 0 /\ m + Change(op) = 0
    BY <1>3, <2>1 DEF Fits, Change, Pops, Pushes, BinaryOps
  <2> QED
    BY <1>3, <2>1, <2>2 DEF IsJump
<1>13. CASE Machine!Branch
  <2>1. /\ op = "JZ" /\ stack' = SubSeq(stack, 1, m - 1)
        /\ pc' = code[pc + 1].value \/ pc' = pc + 1
    BY <1>13 DEF Machine!Branch, Machine!Instr, Machine!Depth
  <2>2. m = 1 /\ m + Change(op) = 0
    BY <1>3, <2>1 DEF Fits, Change, Pops, Pushes, BinaryOps
  <2> QED
    BY <1>3, <1>7, <2>1, <2>2 DEF IsJump
<1> QED
  BY <1>8, <1>9, <1>10, <1>11, <1>12, <1>13 DEF Execute, Machine!Step

\* run starts with an empty stack and good code.
LEMMA RunKeeps ==
  ASSUME SessionInv, Run PROVE SessionInv'
<1>1. ScannerInv' /\ next_label' \in Nat
  <2>1. UNCHANGED scanner
    BY DEF Run, vars
  <2> QED
    BY <2>1, ScannerStep DEF Run, vars, SessionInv
<1>2. /\ result.ok /\ result' = result /\ source' = source
      /\ code' = result.ir /\ pc' = 0 /\ stack' = << >>
  BY DEF Run, vars, SessionInv, MachineInv
<1>3. GoodCode(result.ir, Reach(NeedsOf(source)))
  BY <1>2 DEF SessionInv, MachineInv
<1>4. DepthsOf(result.ir)[0 + 1] = 0 /\ Len(result.ir) \in Nat
  BY <1>3 DEF GoodCode, Linked
<1>5. IsStack(<< >>) /\ Len(<< >>) = 0
  BY DEF IsStack
<1>6. who = 0
  BY DEF Run
<1>7. MachineInv'
  <2>1. result'.ok => GoodCode(result'.ir, Reach(NeedsOf(source')))
    BY <1>2, <1>3
  <2>2. pc' = 0 /\ stack' = << >>
    BY <1>2
  <2>3. /\ result'.ok /\ code' = result'.ir
        /\ pc' \in 0 .. Len(code')
        /\ IsStack(stack') /\ Len(stack') = DepthsOf(code')[pc' + 1]
    BY <1>2, <1>4, <1>5
  <2> QED
    BY <2>1, <2>2, <2>3 DEF MachineInv
<1> QED
  BY <1>1, <1>7 DEF SessionInv

\* Every session keeps the scanner's rules and the machine's.
THEOREM SessionsAreSafe == SessionSpec => []SessionInv
<1>1. SessionInv /\ [SessionNext]_sessionVars => SessionInv'
  <2> SUFFICES ASSUME SessionInv, [SessionNext]_sessionVars PROVE SessionInv'
    OBVIOUS
  <2>1. CASE UNCHANGED sessionVars
    BY <2>1 DEF sessionVars, vars, machine, scanner, SessionInv, ScannerInv, MachineInv, Machine!vars
  <2> QED
    BY <2>1, CompileKeeps, RunKeeps, ExecuteKeeps DEF SessionNext
<1> QED
  BY <1>1, SessionStarts, PTL DEF SessionSpec

\* JumpsAreLinked, for every source of any depth, every counter of labels and
\* every file before it (new_label, gen_stmt, ir_resolve_labels).
THEOREM SessionsLinkJumps == SessionSpec => []JumpsAreLinked
<1>1. SessionInv => JumpsAreLinked
  BY DEF SessionInv, MachineInv, GoodCode, JumpsAreLinked
<1> QED
  BY <1>1, SessionsAreSafe, PTL

\* StackDiscipline, for every source of any depth (gen_stmt, gen_expr, vm_step).
THEOREM SessionsKeepStackDiscipline == SessionSpec => []StackDiscipline
<1>1. SessionInv => StackDiscipline
  <2> SUFFICES ASSUME SessionInv, who # 0
               PROVE  /\ Balanced(code)
                      /\ pc \in 0 .. Len(code)
                      /\ stack # << >> => \E n \in NeedsOf(source) : Len(stack) <= n
                      /\ pc = Len(code) => stack = << >>
                      /\ pc < Len(code) =>
                           /\ Len(stack) >= Pops(code[pc + 1].op)
                           /\ code[pc + 1].op = "LABEL" => stack = << >>
                           /\ code[pc + 1].op \in {"STORE_VAR", "JZ"} => Len(stack) = 1
    BY DEF StackDiscipline, Machine!Depth, Machine!Instr
  <2> DEFINE d == DepthsOf(code)
             B == Reach(NeedsOf(source))
  <2>1. /\ GoodCode(code, B)
        /\ pc \in 0 .. Len(code) /\ IsStack(stack) /\ Len(stack) = d[pc + 1]
    BY DEF SessionInv, MachineInv
  <2>2. Balanced(code)
    BY <2>1, GoodIsBalanced, ReachIs
  <2>3. Len(stack) = 0 => stack = << >>
    BY <2>1 DEF IsStack
  <2>4. Len(stack) \in B
    <3>1. d \in [1 .. Len(code) + 1 -> B] /\ Len(code) \in Nat
      BY <2>1 DEF GoodCode, Along, Linked
    <3> QED
      BY <2>1, <3>1
  <2>5. stack # << >> => \E n \in NeedsOf(source) : Len(stack) <= n
    BY <2>3, <2>4 DEF Reach
  <2>6. pc = Len(code) => stack = << >>
    BY <2>1, <2>3 DEF GoodCode
  <2>7. pc < Len(code) => Fits(code[pc + 1].op, Len(stack))
    BY NextInstruction
  <2> QED
    BY <2>1, <2>2, <2>3, <2>5, <2>6, <2>7 DEF Fits
<1> QED
  BY <1>1, SessionsAreSafe, PTL

(***************************************************************************)
(* The semantic check goes through the names in the order of SourceScope.  *)
(***************************************************************************)

Occurs == {"use", "declaration"} \X STRING

\* What the check makes of one occurrence of a name ...
Meet(check, o) ==
  IF check.error THEN check
  ELSE IF o[1] = "use"
       THEN IF symbol_exists(check, o[2]) THEN check ELSE Rejected(check)
       ELSE IF symbol_exists(check, o[2]) THEN Rejected(check) ELSE symbol_add(check, o[2])

\* ... and of one after the other
Met == [o \in Occurs |-> [check \in Checks |-> Meet(check, o)]]
Scan(check, os) == Each(Met, check, os)

\* A list of one node is checked as the node.
LEMMA EachOne ==
  ASSUME NEW at, NEW check, NEW n PROVE Each(at, check, << n >>) = at[n][check]
<1>1. << >> \in Seq({n}) /\ n \in {n} /\ Append(<< >>, n) = << n >>
  OBVIOUS
<1>2. Each(at, check, Append(<< >>, n)) = at[n][Each(at, check, << >>)]
  BY <1>1, EachAppend
<1> QED
  BY <1>1, <1>2, EachNone

\* A list behind another goes on with its verdict.
LEMMA EachBoth ==
  ASSUME NEW at, NEW check, NEW N, NEW a \in Seq(N), NEW b \in Seq(N)
  PROVE  Each(at, check, a \o b) = Each(at, Each(at, check, a), b)
<1> DEFINE c == Each(at, check, a)
           P == {x \in Seq(N) : Each(at, check, a \o x) = Each(at, c, x)}
<1>1. << >> \in P
  <2>1. a \o << >> = a /\ << >> \in Seq(N)
    OBVIOUS
  <2> QED
    BY <2>1, EachNone
<1>2. ASSUME NEW x \in Seq(N), NEW n \in N, x \in P PROVE Append(x, n) \in P
  <2>1. a \o Append(x, n) = Append(a \o x, n) /\ a \o x \in Seq(N) /\ Append(x, n) \in Seq(N)
    OBVIOUS
  <2>2. ASSUME NEW y \in Seq(N)
        PROVE  Each(at, check, Append(y, n)) = at[n][Each(at, check, y)]
    BY EachAppend
  <2> HIDE DEF c
  <2>3. Each(at, c, Append(x, n)) = at[n][Each(at, c, x)]
    BY EachAppend
  <2> QED
    BY <1>2, <2>1, <2>2, <2>3
<1> HIDE DEF P
<1>3. Seq(N) \subseteq P
  BY <1>1, <1>2, SequenceInduction
<1> QED
  BY <1>3 DEF P

\* Only the verdict is changed.
LEMMA ChangedError ==
  ASSUME NEW s, NEW e, NEW f
  PROVE  [[symtab |-> s, error |-> e] EXCEPT !.error = f] = [symtab |-> s, error |-> f]
  OBVIOUS

\* A table and a verdict make a check.
LEMMA CheckOf ==
  ASSUME NEW S, NEW B, NEW s \in S, NEW f \in B
  PROVE  /\ [symtab |-> s, error |-> f] \in [symtab : S, error : B]
         /\ [symtab |-> s, error |-> f].error = f
  OBVIOUS

\* What rejecting and adding a name do to a check.
LEMMA ChecksAre ==
  ASSUME NEW check \in Checks, NEW name \in STRING
  PROVE  /\ check.error \in BOOLEAN /\ check.symtab \in SUBSET STRING
         /\ Rejected(check) \in Checks /\ Rejected(check).error = TRUE
         /\ symbol_add(check, name) \in Checks /\ symbol_add(check, name).error = check.error
         /\ symbol_add(check, name).symtab = check.symtab \cup {name}
<1>1. /\ check = [symtab |-> check.symtab, error |-> check.error]
      /\ check.symtab \in SUBSET STRING /\ check.error \in BOOLEAN
  BY DEF Checks
<1>2. Rejected(check) = [symtab |-> check.symtab, error |-> TRUE]
  <2>1. Rejected(check) = [[symtab |-> check.symtab, error |-> check.error] EXCEPT !.error = TRUE]
    BY <1>1, Zenon DEF Rejected
  <2> QED
    BY ONLY <2>1, ChangedError, Zenon
<1>3. symbol_add(check, name) = [symtab |-> check.symtab \cup {name}, error |-> check.error]
  BY <1>1 DEF symbol_add
<1>4. TRUE \in BOOLEAN /\ check.symtab \cup {name} \in SUBSET STRING
  BY <1>1
<1>5. Rejected(check) \in Checks /\ Rejected(check).error = TRUE
  <2>1. /\ [symtab |-> check.symtab, error |-> TRUE] \in Checks
        /\ [symtab |-> check.symtab, error |-> TRUE].error = TRUE
    BY <1>1, <1>4, CheckOf, Zenon DEF Checks
  <2> QED
    BY ONLY <1>2, <2>1, Zenon
<1>6. symbol_add(check, name) \in Checks
  <2>1. [symtab |-> check.symtab \cup {name}, error |-> check.error] \in Checks
    BY <1>1, <1>4, CheckOf, Zenon DEF Checks
  <2> QED
    BY ONLY <1>3, <2>1, Zenon
<1>7. /\ symbol_add(check, name).error = check.error
      /\ symbol_add(check, name).symtab = check.symtab \cup {name}
  BY <1>3
<1> QED
  BY <1>1, <1>5, <1>6, <1>7

\* Meeting an occurrence is what its equation says.
LEMMA MeetIs ==
  ASSUME NEW o \in Occurs, NEW check \in Checks
  PROVE  /\ Met[o][check] = Meet(check, o) /\ Meet(check, o) \in Checks
         /\ o[1] \in {"use", "declaration"} /\ o[2] \in STRING
<1>1. Met[o][check] = Meet(check, o)
  BY DEF Met
<1>2. o[1] \in {"use", "declaration"} /\ o[2] \in STRING
  BY DEF Occurs
<1>3. Rejected(check) \in Checks /\ symbol_add(check, o[2]) \in Checks
  BY <1>2, ChecksAre
<1>4. Meet(check, o) \in {check, Rejected(check), symbol_add(check, o[2])}
  BY DEF Meet
<1> QED
  BY <1>1, <1>2, <1>3, <1>4

\* Occurrences are met one by one.
LEMMA ScanAppend ==
  ASSUME NEW check, NEW os \in Seq(Occurs), NEW o \in Occurs
  PROVE  Scan(check, Append(os, o)) = Met[o][Scan(check, os)]
  BY EachAppend DEF Scan

\* Without occurrences the verdict stays.
LEMMA ScanNone ==
  ASSUME NEW check PROVE Scan(check, << >>) = check
  BY EachNone DEF Scan

\* Occurrences behind others go on with their verdict.
LEMMA ScanBoth ==
  ASSUME NEW check, NEW a \in Seq(Occurs), NEW b \in Seq(Occurs)
  PROVE  Scan(check, a \o b) = Scan(Scan(check, a), b)
  BY EachBoth DEF Scan

\* The verdict is one, and the first error is the last thing that happens.
LEMMA ScanIs ==
  ASSUME NEW check \in Checks, NEW os \in Seq(Occurs)
  PROVE  Scan(check, os) \in Checks /\ (check.error => Scan(check, os) = check)
<1> DEFINE P == {x \in Seq(Occurs) :
                   Scan(check, x) \in Checks /\ (check.error => Scan(check, x) = check)}
<1>1. << >> \in P
  <2>1. << >> \in Seq(Occurs)
    OBVIOUS
  <2> QED
    BY <2>1, ScanNone
<1>2. ASSUME NEW x \in Seq(Occurs), NEW o \in Occurs, x \in P PROVE Append(x, o) \in P
  <2>1. Scan(check, Append(x, o)) = Met[o][Scan(check, x)]
    BY ScanAppend
  <2>2. Scan(check, Append(x, o)) = Meet(Scan(check, x), o) /\ Meet(Scan(check, x), o) \in Checks
    BY <1>2, <2>1, MeetIs
  <2>3. check.error => Meet(check, o) = check
    BY DEF Meet
  <2>4. Append(x, o) \in Seq(Occurs)
    OBVIOUS
  <2> QED
    BY <1>2, <2>2, <2>3, <2>4
<1> HIDE DEF P
<1>3. Seq(Occurs) \subseteq P
  BY <1>1, <1>2, SequenceInduction
<1> QED
  BY <1>3 DEF P

\* The check of the nodes does what the scan of the names does.
Agree(at, nodes, os) ==
  os \in Seq(Occurs) /\ \A check \in Checks : Each(at, check, nodes) = Scan(check, os)

\* No nodes agree with no occurrences,
LEMMA AgreeNone ==
  ASSUME NEW at PROVE Agree(at, << >>, << >>)
<1>1. << >> \in Seq(Occurs)
  OBVIOUS
<1> QED
  BY <1>1, EachNone, ScanNone DEF Agree

\* ... and nodes with occurrences one behind the other.
LEMMA AgreeBoth ==
  ASSUME NEW at, NEW N, NEW a \in Seq(N), NEW b \in Seq(N), NEW v, NEW w,
         Agree(at, a, v), Agree(at, b, w)
  PROVE  Agree(at, a \o b, v \o w)
<1>1. v \in Seq(Occurs) /\ w \in Seq(Occurs)
  BY DEF Agree
<1>2. v \o w \in Seq(Occurs)
  BY <1>1
<1>3. ASSUME NEW check \in Checks PROVE Each(at, check, a \o b) = Scan(check, v \o w)
  <2>1. Each(at, check, a \o b) = Each(at, Each(at, check, a), b)
    BY EachBoth
  <2>2. Each(at, check, a) = Scan(check, v) /\ Scan(check, v) \in Checks
    BY <1>1, ScanIs DEF Agree
  <2>3. Each(at, Scan(check, v), b) = Scan(Scan(check, v), w)
    BY <2>2 DEF Agree
  <2>4. Scan(check, v \o w) = Scan(Scan(check, v), w)
    BY <1>1, ScanBoth
  <2> QED
    BY <2>1, <2>2, <2>3, <2>4
<1> QED
  BY <1>2, <1>3 DEF Agree

Children(n) == n.left \o n.right \o n.third

\* A node is looked at before its children, up to the first error.
LEMMA VisitIs ==
  ASSUME NEW k \in Depths, NEW n \in ExprNodes[k] \cup StmtNodes[k], NEW check \in Checks
  PROVE  Each(check_node[k], check, << n >>) =
           IF check.error THEN check
           ELSE IF CheckNode(check, n).error THEN CheckNode(check, n)
           ELSE Each(check_node[k - 1], CheckNode(check, n), Children(n))
<1>1. Each(check_node[k], check, << n >>) = check_node[k][n][check]
  BY EachOne
<1>2. check_node[k][n][check] = semantic_check(check_node[k - 1], n, check)
  BY CheckIs
<1> QED
  BY <1>1, <1>2 DEF semantic_check, Children

\* A node without a name
LEMMA VisitPlain ==
  ASSUME NEW k \in Depths, NEW n \in ExprNodes[k] \cup StmtNodes[k],
         n.type \notin {"VAR_DECL", "ASSIGN", "IDENT"}, NEW os,
         Agree(check_node[k - 1], Children(n), os)
  PROVE  Agree(check_node[k], << n >>, os)
<1> SUFFICES ASSUME NEW check \in Checks
             PROVE  Each(check_node[k], check, << n >>) = Scan(check, os)
  BY DEF Agree
<1>1. CheckNode(check, n) = check
  BY DEF CheckNode
<1>2. Each(check_node[k - 1], check, Children(n)) = Scan(check, os) /\ os \in Seq(Occurs)
  BY DEF Agree
<1>3. check.error => Scan(check, os) = check
  BY <1>2, ScanIs
<1>4. Each(check_node[k], check, << n >>) =
        IF check.error THEN check ELSE IF check.error THEN check
        ELSE Each(check_node[k - 1], check, Children(n))
  BY <1>1, VisitIs
<1> QED
  BY <1>2, <1>3, <1>4

\* A node that declares or uses the name of o before its children are visited
Named(k, n, o, os) ==
  \A check \in Checks :
    ~ check.error =>
      /\ CheckNode(check, n) = Meet(check, o)
      /\ ~ Meet(check, o).error =>
           Each(check_node[k - 1], Meet(check, o), Children(n)) = Scan(Meet(check, o), os)

\* A node with a name is its occurrence, then those of its children.
LEMMA VisitNamed ==
  ASSUME NEW k \in Depths, NEW n \in ExprNodes[k] \cup StmtNodes[k],
         NEW o \in Occurs, NEW os \in Seq(Occurs), Named(k, n, o, os)
  PROVE  Agree(check_node[k], << n >>, << o >> \o os)
<1>1. << o >> \in Seq(Occurs) /\ << o >> \o os \in Seq(Occurs)
  OBVIOUS
<1>2. ASSUME NEW check \in Checks
      PROVE  Each(check_node[k], check, << n >>) = Scan(check, << o >> \o os)
  <2> DEFINE m == Meet(check, o)
  <2>1. Scan(check, << o >>) = Met[o][check]
    BY EachOne DEF Scan
  <2>2. Scan(check, << o >>) = m /\ m \in Checks
    BY <2>1, MeetIs
  <2>3. Scan(check, << o >> \o os) = Scan(m, os)
    <3>1. Scan(check, << o >> \o os) = Scan(Scan(check, << o >>), os)
      BY <1>1, ScanBoth
    <3> QED
      BY <2>2, <3>1
  <2>4. m.error => Scan(m, os) = m
    BY <2>2, ScanIs
  <2>5. CASE check.error
    <3>1. m = check
      BY <2>5 DEF Meet
    <3>2. Each(check_node[k], check, << n >>) = check
      BY <2>5, VisitIs
    <3> QED
      BY <2>3, <2>4, <2>5, <3>1, <3>2
  <2>6. CASE ~ check.error
    <3>1. /\ CheckNode(check, n) = m
          /\ ~ m.error => Each(check_node[k - 1], m, Children(n)) = Scan(m, os)
      BY <2>6 DEF Named
    <3> HIDE DEF m
    <3>2. Each(check_node[k], check, << n >>) =
            IF m.error THEN m ELSE Each(check_node[k - 1], m, Children(n))
      BY <2>6, <3>1, VisitIs
    <3> QED
      BY <2>3, <2>4, <3>1, <3>2
  <2> QED
    BY <2>5, <2>6
<1> QED
  BY <1>1, <1>2 DEF Agree

(***************************************************************************)
(* Expressions.                                                            *)
(***************************************************************************)

AgreesExpr(k) ==
  \A e \in Expressions[k], l \in Nat : Agree(check_node[k], expr[k][e][l], Names[k][e])

\* A leaf has no children.
LEMMA NoChildren == NULL \o NULL \o NULL = << >>
  BY DEF NULL

\* The tree of a name is a use of it.
LEMMA UsesName ==
  ASSUME NEW k \in Depths, k # 0, NEW name \in STRING, NEW line \in Nat
  PROVE  /\ ident(name, line) \in ExprNodes[k]
         /\ Named(k, ident(name, line), <<"use", name>>, << >>)
<1> DEFINE n == ident(name, line)
           o == <<"use", name>>
<1>1. n \in ExprNodes[k]
  <2>1. << n >> \in One({x \in ExprNodes[k] : x.type = "IDENT"})
    BY Idents
  <2>2. << n >>[1] = n
    OBVIOUS
  <2> HIDE DEF n
  <2> QED
    BY <2>1, <2>2, OneIs
<1>2. n.type = "IDENT" /\ n.name = name /\ n.left = NULL /\ n.right = NULL /\ n.third = NULL
  BY DEF ident, node
<1>3. Children(n) = << >>
  BY <1>2, NoChildren DEF Children
<1>4. o[1] = "use" /\ o[2] = name
  OBVIOUS
<1> HIDE DEF n, o
<1>5. ASSUME NEW check \in Checks, ~ check.error PROVE CheckNode(check, n) = Meet(check, o)
  BY <1>2, <1>4, <1>5 DEF CheckNode, Meet
<1>6. \A c : Each(check_node[k - 1], c, << >>) = Scan(c, << >>)
  BY EachNone, ScanNone
<1> QED
  BY <1>1, <1>3, <1>5, <1>6 DEF Named, n, o

\* Checking an expression's tree is meeting its names in their order.
LEMMA ExpressionsAgree ==
  ASSUME NEW d \in Depths PROVE AgreesExpr(d)
<1> DEFINE S == {k \in Depths : AgreesExpr(k)}
<1>1. 0 \in S
  BY NothingAtZero DEF AgreesExpr
<1>2. ASSUME NEW k \in Depths \ {0}, k - 1 \in Depths, k - 1 \in S PROVE k \in S
  <2> SUFFICES ASSUME NEW e \in Expressions[k], NEW l \in Nat
               PROVE  Agree(check_node[k], expr[k][e][l], Names[k][e])
    BY DEF AgreesExpr
  <2>1. expr[k][e][l] = Expr(expr[k - 1], e, l) /\ Names[k][e] = ExprNames(Names[k - 1], e)
    BY ExprIs, NamesIs
  <2>2. expr[k][e][l] \in One(ExprNodes[k])
    BY ExprMakesNode
  <2>3. CASE e.kind = "INTEGER"
    <3> DEFINE n == node("INT", l, NoName, e.value, "", NULL, NULL, NULL)
    <3>1. expr[k][e][l] = << n >>
      BY <2>1, <2>3, IntNode DEF Expr
    <3>2. n.type = "INT" /\ Children(n) = << >>
      BY NoChildren DEF node, Children
    <3> HIDE DEF n
    <3>3. n \in ExprNodes[k]
      BY <2>2, <3>1, OneIs
    <3>4. Agree(check_node[k - 1], Children(n), << >>)
      BY <3>2, AgreeNone
    <3>5. Agree(check_node[k], << n >>, << >>)
      BY <3>2, <3>3, <3>4, VisitPlain
    <3> QED
      BY <2>1, <2>3, <3>1, <3>5 DEF ExprNames
  <2>4. CASE e.kind = "IDENTIFIER"
    <3>1. e.name \in STRING
      BY <2>4, ExpressionForms DEF BinaryOps
    <3>2. expr[k][e][l] = << ident(e.name, l) >>
      BY <2>1, <2>4, IdentNode DEF Expr, ident
    <3>3. /\ ident(e.name, l) \in ExprNodes[k]
          /\ Named(k, ident(e.name, l), <<"use", e.name>>, << >>)
      BY <3>1, UsesName
    <3>4. <<"use", e.name>> \in Occurs /\ << >> \in Seq(Occurs)
      BY <3>1 DEF Occurs
    <3>5. Agree(check_node[k], << ident(e.name, l) >>, << <<"use", e.name>> >> \o << >>)
      BY <3>3, <3>4, VisitNamed
    <3>6. << <<"use", e.name>> >> \o << >> = << <<"use", e.name>> >>
      OBVIOUS
    <3> QED
      BY <2>1, <2>4, <3>2, <3>5, <3>6 DEF ExprNames
  <2>5. CASE e.kind \in BinaryOps /\ e.kind \notin {"INTEGER", "IDENTIFIER"}
    <3> DEFINE x == expr[k - 1][e.left][l]
               y == expr[k - 1][e.right][l]
               n == node("BINOP", l, NoName, 0, e.kind, x, y, NULL)
               v == Names[k - 1][e.left]
               w == Names[k - 1][e.right]
    <3>1. e.left \in Expressions[k - 1] /\ e.right \in Expressions[k - 1]
      BY <2>5, ExpressionForms DEF BinaryOps
    <3>2. expr[k][e][l] = ast_make_binop(e.kind, x, y, l)
      BY <2>1, <2>5 DEF Expr
    <3>3. Names[k][e] = v \o w
      BY <2>1, <2>5 DEF ExprNames
    <3>4. Agree(check_node[k - 1], x, v) /\ Agree(check_node[k - 1], y, w)
      BY <1>2, <3>1 DEF AgreesExpr
    <3>5. x \in Seq(ExprNodes[k - 1]) /\ y \in Seq(ExprNodes[k - 1])
      BY <1>2, <3>1, ExprMakesNode, OneIs
    <3> HIDE DEF x, y, v, w
    <3>6. expr[k][e][l] = << n >>
      BY <3>2, BinopNode
    <3>7. n.type = "BINOP" /\ n.left = x /\ n.right = y /\ n.third = NULL
      BY DEF node
    <3>8. Children(n) = x \o y
      <4>1. x \o y \in Seq(ExprNodes[k - 1])
        BY <3>5
      <4>2. (x \o y) \o << >> = x \o y
        BY <4>1
      <4> QED
        BY <3>7, <4>2 DEF Children, NULL
    <3> HIDE DEF n
    <3>9. n \in ExprNodes[k]
      BY <2>2, <3>6, OneIs
    <3>10. Agree(check_node[k - 1], x \o y, v \o w)
      BY <3>4, <3>5, AgreeBoth
    <3> QED
      BY <3>3, <3>6, <3>7, <3>8, <3>9, <3>10, VisitPlain
  <2> QED
    BY <2>3, <2>4, <2>5, ExpressionForms
<1> HIDE DEF S
<1>3. Depths \subseteq S
  BY <1>1, <1>2, DepthInduction
<1> QED
  BY <1>3 DEF S

(***************************************************************************)
(* Statements.                                                             *)
(***************************************************************************)

AgreesStmt(k) ==
  \A s \in Statements[k], l \in Nat : Agree(check_node[k], stmt[k][s][l], Occurrences[k][s])

\* An assignment: its name is looked up twice, which makes no difference.
LEMMA AssignAgrees ==
  ASSUME NEW k \in Depths, k # 0, k - 1 \in Depths, NEW s, s.name \in STRING,
         s.expr \in Expressions[k - 1], NEW line \in Nat
  PROVE  Agree(check_node[k], << assignment(s.name, expr[k - 1][s.expr][line], line) >>,
               << <<"use", s.name>> >> \o Names[k - 1][s.expr])
<1> DEFINE e == expr[k - 1][s.expr][line]
           x == ident(s.name, line)
           n == assignment(s.name, e, line)
           o == <<"use", s.name>>
           os == Names[k - 1][s.expr]
           N == ExprNodes[k - 1]
<1>1. n \in StmtNodes[k] /\ e \in One(N)
  BY AssignMakes
<1>2. k - 1 # 0
  BY NothingAtZero
<1>3. x \in N /\ Named(k - 1, x, o, << >>)
  BY <1>2, UsesName
<1>4. o \in Occurs /\ << >> \in Seq(Occurs) /\ o[1] = "use" /\ o[2] = s.name
  BY DEF Occurs
<1>5. Agree(check_node[k - 1], e, os)
  BY ExpressionsAgree DEF AgreesExpr
<1>6. n.type = "ASSIGN" /\ n.left = << x >> /\ n.right = e /\ n.third = NULL
  BY DEF assignment, node
<1>7. x.name = s.name
  BY DEF ident, node
<1> HIDE DEF e, x, n, o, os, N
<1>8. << x >> \in Seq(N) /\ e \in Seq(N)
  BY <1>1, <1>3, OneIs
<1>9. Children(n) = << x >> \o e
  <2>1. << x >> \o e \in Seq(N)
    BY <1>8
  <2>2. (<< x >> \o e) \o << >> = << x >> \o e
    BY <2>1
  <2> QED
    BY <1>6, <2>2 DEF Children, NULL
<1>10. os \in Seq(Occurs)
  BY <1>5 DEF Agree
<1>11. Named(k, n, o, os)
  <2> SUFFICES ASSUME NEW check \in Checks, ~ check.error
               PROVE  /\ CheckNode(check, n) = Meet(check, o)
                      /\ ~ Meet(check, o).error =>
                           Each(check_node[k - 1], Meet(check, o), Children(n)) = Scan(Meet(check, o), os)
    BY DEF Named
  <2>1. << x >>[1] = x
    OBVIOUS
  <2>2. CheckNode(check, n) = IF symbol_exists(check, s.name) THEN check ELSE Rejected(check)
    BY <1>6, <1>7, <2>1 DEF CheckNode
  <2>3. Meet(check, o) = IF symbol_exists(check, s.name) THEN check ELSE Rejected(check)
    BY <1>4 DEF Meet
  <2>4. Rejected(check).error = TRUE
    BY <1>4, ChecksAre, MeetIs
  <2>5. ~ Meet(check, o).error => Meet(check, o) = check
    BY <2>3, <2>4
  <2>6. ASSUME Meet(check, o) = check
        PROVE  Each(check_node[k - 1], check, << x >> \o e) = Scan(check, os)
    <3>1. Each(check_node[k - 1], check, << x >> \o e) =
            Each(check_node[k - 1], Each(check_node[k - 1], check, << x >>), e)
      <4>1. PICK at : at = check_node[k - 1]
        OBVIOUS
      <4>2. PICK a, b : a = << x >> /\ b = e
        OBVIOUS
      <4>3. a \in Seq(N) /\ b \in Seq(N)
        BY <1>8, <4>2
      <4>4. Each(at, check, a \o b) = Each(at, Each(at, check, a), b)
        BY ONLY <4>3, EachBoth
      <4> QED
        BY ONLY <4>1, <4>2, <4>4, Zenon
    <3>2. Each(check_node[k - 1], check, << x >>) = check
      <4>1. Each(check_node[k - 1], check, << x >>) =
              IF check.error THEN check
              ELSE IF CheckNode(check, x).error THEN CheckNode(check, x)
              ELSE Each(check_node[(k - 1) - 1], CheckNode(check, x), Children(x))
        BY <1>3, VisitIs DEF N
      <4>2. /\ CheckNode(check, x) = check
            /\ Each(check_node[(k - 1) - 1], check, Children(x)) = Scan(check, << >>)
        BY <1>3, <2>6 DEF Named
      <4>3. Scan(check, << >>) = check
        BY ScanNone
      <4> QED
        BY <4>1, <4>2, <4>3
    <3>3. Each(check_node[k - 1], check, e) = Scan(check, os)
      BY <1>5 DEF Agree
    <3> QED
      BY <3>1, <3>2, <3>3
  <2> QED
    BY <1>9, <2>2, <2>3, <2>5, <2>6
<1>12. Agree(check_node[k], << n >>, << o >> \o os)
  BY <1>1, <1>4, <1>10, <1>11, VisitNamed
<1> QED
  BY <1>12 DEF e, x, n, o, os

\* A declaration is met before its initial value.
LEMMA VarAgrees ==
  ASSUME NEW k \in Depths, NEW s \in Statements[k], NEW l \in Nat, s.kind = "var"
  PROVE  Agree(check_node[k], stmt[k][s][l], Occurrences[k][s])
<1> DEFINE n == VarIs(k, s, l)
           v == VarInit(k, s, l)
           o == <<"declaration", s.name>>
           os == IF s.init = << >> THEN << >> ELSE Names[k - 1][s.init[1]]
           N == ExprNodes[k - 1]
<1>1. /\ stmt[k][s][l] = << n >> /\ n \in StmtNodes[k] /\ v \in Optional(N)
      /\ yylineno[k][s][l] \in Nat
  BY VarMakes
<1>2. /\ k - 1 \in Depths /\ s.name \in STRING
      /\ s.init # << >> => s.init[1] \in Expressions[k - 1]
  BY StatementForms
<1>3. Occurrences[k][s] = << o >> \o os
  <2>1. Occurrences[k][s] = StmtNames(Names[k - 1], Occurrences[k - 1], s)
    BY OccurrencesIs
  <2>2. << o >> \o << >> = << o >>
    OBVIOUS
  <2> QED
    BY <2>1, <2>2 DEF StmtNames
<1>4. Agree(check_node[k - 1], v, os)
  <2>1. CASE s.init = << >>
    BY <2>1, AgreeNone DEF VarInit, NULL
  <2>2. CASE s.init # << >>
    BY <1>1, <1>2, <2>2, ExpressionsAgree DEF AgreesExpr, VarInit
  <2> QED
    BY <2>1, <2>2
<1>5. o \in Occurs /\ o[1] # "use" /\ o[2] = s.name
  BY <1>2 DEF Occurs
<1>6. /\ n.type = "VAR_DECL" /\ n.name = s.name
      /\ n.left = v /\ n.right = NULL /\ n.third = NULL
  BY DEF VarIs, node
<1> HIDE DEF n, v, o, os, N
<1>7. Children(n) = v
  <2>1. v \in Seq(N)
    BY <1>1, OptionalSeq
  <2>2. (v \o << >>) \o << >> = v
    BY <2>1
  <2> QED
    BY <1>6, <2>2 DEF Children, NULL
<1>8. os \in Seq(Occurs)
  BY <1>4 DEF Agree
<1>9. Named(k, n, o, os)
  <2> SUFFICES ASSUME NEW check \in Checks, ~ check.error
               PROVE  /\ CheckNode(check, n) = Meet(check, o)
                      /\ ~ Meet(check, o).error =>
                           Each(check_node[k - 1], Meet(check, o), Children(n)) = Scan(Meet(check, o), os)
    BY DEF Named
  <2>1. CheckNode(check, n) = IF symbol_exists(check, s.name) THEN Rejected(check) ELSE symbol_add(check, s.name)
    BY <1>6 DEF CheckNode
  <2>2. Meet(check, o) = IF symbol_exists(check, s.name) THEN Rejected(check) ELSE symbol_add(check, s.name)
    BY <1>5 DEF Meet
  <2>3. Meet(check, o) \in Checks
    BY <1>5, MeetIs
  <2>4. Each(check_node[k - 1], Meet(check, o), v) = Scan(Meet(check, o), os)
    BY <1>4, <2>3 DEF Agree
  <2> QED
    BY <1>7, <2>1, <2>2, <2>4
<1>10. Agree(check_node[k], << n >>, << o >> \o os)
  BY <1>1, <1>5, <1>8, <1>9, VisitNamed
<1> QED
  BY <1>1, <1>3, <1>10

\* The occurrences in one statement more come behind the others.
LEMMA OccurrencesAppend ==
  ASSUME NEW k \in Depths, \A x \in Statements[k] : Occurrences[k][x] \in Seq(Occurs),
         NEW ss \in Seq(Statements[k]), NEW s \in Statements[k]
  PROVE  OccurrencesOf(Occurrences[k], Append(ss, s)) =
           OccurrencesOf(Occurrences[k], ss) \o Occurrences[k][s]
<1> DEFINE more == Append(ss, s)
           a == [i \in DOMAIN ss |-> Occurrences[k][ss[i]]]
           b == [i \in DOMAIN more |-> Occurrences[k][more[i]]]
           o == Occurrences[k][s]
<1>1. /\ DOMAIN ss = 1 .. Len(ss) /\ Len(ss) \in Nat
      /\ DOMAIN more = 1 .. Len(ss) + 1 /\ more[Len(ss) + 1] = s
      /\ \A i \in 1 .. Len(ss) : more[i] = ss[i] /\ ss[i] \in Statements[k]
  OBVIOUS
<1>2. o \in Seq(Occurs)
  OBVIOUS
<1> HIDE DEF more
<1>3. ASSUME NEW i \in 1 .. Len(ss) PROVE a[i] \in Seq(Occurs)
  BY <1>1, <1>3
<1>4. a \in Seq(Seq(Occurs)) /\ Len(a) = Len(ss)
  <2>1. a = [i \in 1 .. Len(ss) |-> a[i]]
    BY <1>1
  <2> HIDE DEF a
  <2> QED
    BY <1>1, <1>3, <2>1, IsSequence
<1>5. b = Append(a, o)
  <2>1. \A i \in 1 .. Len(ss) : b[i] = a[i]
    BY <1>1
  <2>2. b[Len(ss) + 1] = o
    BY <1>1
  <2>3. b = [i \in 1 .. Len(ss) + 1 |-> b[i]]
    BY <1>1
  <2>4. Append(a, o) = [i \in 1 .. Len(ss) + 1 |-> IF i <= Len(ss) THEN a[i] ELSE o]
    BY <1>4
  <2> HIDE DEF a, b
  <2>5. \A i \in 1 .. Len(ss) + 1 : i <= Len(ss) \/ i = Len(ss) + 1
    BY <1>1
  <2>6. \A i \in 1 .. Len(ss) + 1 : b[i] = IF i <= Len(ss) THEN a[i] ELSE o
    BY <1>1, <2>1, <2>2, <2>5
  <2> QED
    BY <2>3, <2>4, <2>6
<1>6. /\ OccurrencesOf(Occurrences[k], ss) = FlattenSeq(a)
      /\ OccurrencesOf(Occurrences[k], more) = FlattenSeq(b)
  BY DEF OccurrencesOf
<1> HIDE DEF a, b, o
<1>7. FlattenSeq(b) = FlattenSeq(a) \o o
  BY <1>2, <1>4, <1>5, FlattenAppend
<1> QED
  BY <1>6, <1>7 DEF o, more

\* A list of statements is met in its order.
LEMMA ListAgrees ==
  ASSUME NEW k \in Depths, AgreesStmt(k), NEW ss \in Seq(Statements[k]), NEW last \in Nat
  PROVE  Agree(check_node[k], stmt_list(stmt[k], ss, last), OccurrencesOf(Occurrences[k], ss))
<1> DEFINE Agrees(x, l) == Agree(check_node[k], stmt_list(stmt[k], x, l), OccurrencesOf(Occurrences[k], x))
           P == {x \in Seq(Statements[k]) : \A l \in Nat : Agrees(x, l)}
<1>1. << >> \in P
  <2>1. << >> \in Seq(Statements[k])
    OBVIOUS
  <2>2. [i \in DOMAIN << >> |-> Occurrences[k][<< >>[i]]] = << >>
    OBVIOUS
  <2>3. OccurrencesOf(Occurrences[k], << >>) = << >>
    BY <2>2 DEF OccurrencesOf, FlattenSeq
  <2> QED
    BY <2>1, <2>3, ListNone, AgreeNone
<1>2. ASSUME NEW x \in Seq(Statements[k]), NEW s \in Statements[k], x \in P PROVE Append(x, s) \in P
  <2> SUFFICES ASSUME NEW l \in Nat PROVE Agrees(Append(x, s), l)
    OBVIOUS
  <2>1. s.line \in Nat /\ Made(k)
    BY StatementForms, StatementsMake
  <2>2. /\ stmt_list(stmt[k], x, s.line) \in Seq(StmtNodes[k])
        /\ stmt_list(stmt[k], Append(x, s), l) = stmt_list(stmt[k], x, s.line) \o stmt[k][s][l]
    BY <2>1, ListAppend
  <2>3. \A y \in Statements[k] : Occurrences[k][y] \in Seq(Occurs)
    <3>1. 0 \in Nat
      OBVIOUS
    <3> QED
      BY <3>1 DEF AgreesStmt, Agree
  <2>4. OccurrencesOf(Occurrences[k], Append(x, s)) = OccurrencesOf(Occurrences[k], x) \o Occurrences[k][s]
    BY <2>3, OccurrencesAppend
  <2>5. Agree(check_node[k], stmt_list(stmt[k], x, s.line), OccurrencesOf(Occurrences[k], x))
    BY <1>2, <2>1
  <2>6. Agree(check_node[k], stmt[k][s][l], Occurrences[k][s])
    BY DEF AgreesStmt
  <2>7. stmt[k][s][l] \in Seq(StmtNodes[k])
    BY <2>1, OptionalSeq DEF Made
  <2> QED
    BY <2>2, <2>4, <2>5, <2>6, <2>7, AgreeBoth
<1> HIDE DEF P
<1>3. Seq(Statements[k]) \subseteq P
  BY <1>1, <1>2, SequenceInduction
<1> QED
  BY <1>3 DEF P

\* A condition and the statements around it
LEMMA ThreeAgree ==
  ASSUME NEW at, NEW N, NEW a \in Seq(N), NEW b \in Seq(N), NEW c \in Seq(N), NEW u, NEW v, NEW w,
         Agree(at, a, u), Agree(at, b, v), Agree(at, c, w)
  PROVE  Agree(at, a \o b \o c, u \o v \o w)
<1>1. a \o b \in Seq(N)
  OBVIOUS
<1>2. Agree(at, a \o b, u \o v)
  BY AgreeBoth
<1> QED
  BY <1>1, <1>2, AgreeBoth

\* A list of nodes of one sort is a list of nodes.
LEMMA PartsAreNodes ==
  ASSUME NEW X, NEW Y, NEW a, a \in Seq(X) \/ a \in Seq(Y) PROVE a \in Seq(X \cup Y)
  OBVIOUS

\* Checking a statement's tree is meeting its names in their order.
LEMMA StatementsAgree ==
  ASSUME NEW d \in Depths PROVE AgreesStmt(d)
<1> DEFINE S == {k \in Depths : AgreesStmt(k)}
<1>1. 0 \in S
  BY NothingAtZero DEF AgreesStmt
<1>2. ASSUME NEW k \in Depths \ {0}, k - 1 \in Depths, k - 1 \in S PROVE k \in S
  <2> SUFFICES ASSUME NEW s \in Statements[k], NEW l \in Nat
               PROVE  Agree(check_node[k], stmt[k][s][l], Occurrences[k][s])
    BY DEF AgreesStmt
  <2> DEFINE at == check_node[k - 1]
             N == ExprNodes[k - 1] \cup StmtNodes[k - 1]
  <2>0. k \in Depths /\ k # 0 /\ k - 1 \in Depths /\ AgreesStmt(k - 1) /\ Made(k - 1) /\ Made(k)
    BY <1>2, StatementsMake
  <2>1. Occurrences[k][s] = StmtNames(Names[k - 1], Occurrences[k - 1], s)
    BY OccurrencesIs
  <2>2. CASE s.kind = "var"
    BY <2>2, VarAgrees
  <2>3. CASE s.kind = "assign"
    <3>1. s.name \in STRING /\ s.expr \in Expressions[k - 1]
      BY <2>3, StatementForms
    <3>2. /\ stmt[k][s][l] = << assignment(s.name, expr[k - 1][s.expr][yylineno[k][s][l]], yylineno[k][s][l]) >>
          /\ yylineno[k][s][l] \in Nat
      BY <2>3, AssignIs
    <3>3. Occurrences[k][s] = << <<"use", s.name>> >> \o Names[k - 1][s.expr]
      BY <2>1, <2>3 DEF StmtNames
    <3> QED
      BY <2>0, <3>1, <3>2, <3>3, AssignAgrees
  <2>4. CASE s.kind \in {"if", "while", "for"}
    <3> DEFINE c == Condition(k, s)
               cs == Names[k - 1][s.cond]
    <3>1. c \in Seq(N) /\ s.line \in Nat /\ s.cond \in Expressions[k - 1]
      BY <2>4, Conditions, OneIs, PartsAreNodes
    <3>2. Agree(at, c, cs)
      BY <2>0, <3>1, ExpressionsAgree DEF AgreesExpr, Condition
    <3> HIDE DEF c, cs
    <3>3. CASE s.kind = "if"
      <4> DEFINE n == IfIs(k, s, l)
                 a == IfThen(k, s, l)
                 b == IfElse(k, s, l)
                 bs == IF s.else = << >> THEN << >> ELSE Occurrences[k - 1][s.else[1]]
      <4>1. /\ stmt[k][s][l] = << n >> /\ n \in StmtNodes[k]
            /\ a \in Optional(StmtNodes[k - 1]) /\ b \in Optional(StmtNodes[k - 1])
        BY <2>0, <3>3, IfMakes
      <4>2. a \in Seq(N) /\ b \in Seq(N)
        BY <4>1, OptionalSeq, PartsAreNodes
      <4>3. /\ s.then \in Statements[k - 1]
            /\ s.else # << >> => s.else[1] \in Statements[k - 1]
        BY <3>3, StatementForms
      <4>4. Agree(at, a, Occurrences[k - 1][s.then])
        <5>1. s.else # << >> => s.else[1].line \in Nat
          BY <2>0, <4>3, StatementForms
        <5> QED
          BY <2>0, <4>3, <5>1 DEF AgreesStmt, IfThen
      <4>5. Agree(at, b, bs)
        <5>1. CASE s.else = << >>
          BY <5>1, AgreeNone DEF IfElse, NULL
        <5>2. CASE s.else # << >>
          BY <2>0, <4>3, <5>2 DEF AgreesStmt, IfElse
        <5> QED
          BY <5>1, <5>2
      <4>6. n.type = "IF" /\ n.left = c /\ n.right = a /\ n.third = b
        BY DEF IfIs, node, c
      <4>7. Occurrences[k][s] = cs \o Occurrences[k - 1][s.then] \o bs
        <5>1. CASE s.else = << >>
          <6>1. cs \in Seq(Occurs) /\ Occurrences[k - 1][s.then] \in Seq(Occurs)
            BY <3>2, <4>4 DEF Agree
          <6>2. cs \o Occurrences[k - 1][s.then] \in Seq(Occurs)
            BY <6>1
          <6>3. (cs \o Occurrences[k - 1][s.then]) \o << >> = cs \o Occurrences[k - 1][s.then]
            BY <6>2
          <6> QED
            BY <2>1, <3>3, <5>1, <6>3 DEF StmtNames, cs
        <5>2. CASE s.else # << >>
          BY <2>1, <3>3, <5>2 DEF StmtNames, cs
        <5> QED
          BY <5>1, <5>2
      <4> HIDE DEF n, a, b, bs
      <4>8. Agree(at, Children(n), cs \o Occurrences[k - 1][s.then] \o bs)
        BY <3>1, <3>2, <4>2, <4>4, <4>5, <4>6, ThreeAgree DEF Children
      <4> QED
        BY <4>1, <4>6, <4>7, <4>8, VisitPlain
    <3>4. CASE s.kind = "while"
      <4> DEFINE n == WhileIs(k, s, l)
                 b == stmt[k - 1][s.body][l]
                 bs == Occurrences[k - 1][s.body]
      <4>1. stmt[k][s][l] = << n >> /\ n \in StmtNodes[k] /\ b \in Optional(StmtNodes[k - 1])
        BY <2>0, <3>4, WhileMakes
      <4>2. b \in Seq(N)
        BY <4>1, OptionalSeq, PartsAreNodes
      <4>3. s.body \in Statements[k - 1]
        BY <3>4, StatementForms
      <4>4. Agree(at, b, bs)
        BY <2>0, <4>3 DEF AgreesStmt
      <4>5. n.type = "WHILE" /\ n.left = c /\ n.right = b /\ n.third = NULL
        BY DEF WhileIs, node, c
      <4>6. Occurrences[k][s] = cs \o bs
        BY <2>1, <3>4 DEF StmtNames, cs
      <4> HIDE DEF n, b, bs
      <4>7. Children(n) = c \o b
        <5>1. c \o b \in Seq(N)
          BY <3>1, <4>2
        <5>2. (c \o b) \o << >> = c \o b
          BY <5>1
        <5> QED
          BY <4>5, <5>2 DEF Children, NULL
      <4>8. Agree(at, Children(n), cs \o bs)
        BY <3>1, <3>2, <4>2, <4>4, <4>7, AgreeBoth
      <4> QED
        BY <4>1, <4>5, <4>6, <4>8, VisitPlain
    <3>5. CASE s.kind = "for"
      <4> DEFINE n == ForIs(k, s, l)
                 a == stmt[k - 1][s.init][s.line]
                 b == stmt[k - 1][s.body][l]
                 t == ForStep(k, s)
                 as == Occurrences[k - 1][s.init]
                 bs == Occurrences[k - 1][s.body]
                 ts == Occurrences[k - 1][s.step]
      <4>1. /\ stmt[k][s][l] = << n >> /\ n \in StmtNodes[k]
            /\ a \in Optional(StmtNodes[k - 1]) /\ b \in Optional(StmtNodes[k - 1])
            /\ t \in StmtNodes[k - 1]
        BY <2>0, <3>5, ForMakes
      <4>2. a \in Seq(N) /\ b \in Seq(N) /\ << t >> \in Seq(N)
        BY <4>1, OptionalSeq, PartsAreNodes, OneIn
      <4>3. /\ s.init \in Statements[k - 1] /\ s.body \in Statements[k - 1]
            /\ s.step \in Statements[k - 1] /\ s.step.kind = "assign"
            /\ k - 2 \in Depths /\ (k - 1) - 1 = k - 2
            /\ s.step.name \in STRING /\ s.step.expr \in Expressions[k - 2]
        BY <3>5, StatementForms
      <4>4. Agree(at, a, as) /\ Agree(at, b, bs)
        BY <2>0, <3>1, <4>3 DEF AgreesStmt
      <4>5. Agree(at, << t >>, ts)
        <5>1. ts = << <<"use", s.step.name>> >> \o Names[k - 2][s.step.expr]
          <6>1. ts = StmtNames(Names[(k - 1) - 1], Occurrences[(k - 1) - 1], s.step)
            BY <2>0, <4>3, OccurrencesIs
          <6> QED
            BY <4>3, <6>1 DEF StmtNames
        <5>2. k - 1 # 0
          BY <4>3, NothingAtZero
        <5>3. Agree(check_node[k - 1],
                    << assignment(s.step.name, expr[(k - 1) - 1][s.step.expr][s.line], s.line) >>,
                    << <<"use", s.step.name>> >> \o Names[(k - 1) - 1][s.step.expr])
          <6>1. PICK m \in Depths : m = k - 1 /\ m # 0 /\ m - 1 = k - 2 /\ m - 1 \in Depths
            BY <2>0, <4>3, <5>2
          <6> QED
            BY <3>1, <4>3, <6>1, AssignAgrees
        <5> QED
          BY <4>3, <5>1, <5>3 DEF ForStep
      <4>6. n.type = "FOR" /\ n.left = a /\ n.right = c /\ n.third = Append(b, t)
        BY DEF ForIs, node, c
      <4>7. Occurrences[k][s] = as \o cs \o bs \o ts
        BY <2>1, <3>5 DEF StmtNames, cs
      <4> HIDE DEF n, a, b, t, as, bs, ts
      <4>8. Children(n) = a \o c \o b \o << t >> /\ a \o c \o b \in Seq(N)
        <5>1. Append(b, t) = b \o << t >>
          BY <4>2
        <5>2. a \o c \o (b \o << t >>) = a \o c \o b \o << t >>
          BY <3>1, <4>2
        <5>3. a \o c \o b \in Seq(N)
          BY <3>1, <4>2
        <5> QED
          BY <4>6, <5>1, <5>2, <5>3 DEF Children
      <4>9. Agree(at, a \o c \o b, as \o cs \o bs)
        BY <3>1, <3>2, <4>2, <4>4, ThreeAgree
      <4>10. Agree(at, Children(n), as \o cs \o bs \o ts)
        BY <4>2, <4>5, <4>8, <4>9, AgreeBoth
      <4> QED
        BY <4>1, <4>6, <4>7, <4>10, VisitPlain
    <3> QED
      BY <2>4, <3>3, <3>4, <3>5
  <2>5. CASE s.kind = "block"
    <3> DEFINE nodes == stmt_list(stmt[k - 1], s.stmts, s.last)
               n == BlockIs(nodes)
               os == OccurrencesOf(Occurrences[k - 1], s.stmts)
    <3>1. s.stmts \in Seq(Statements[k - 1]) /\ s.last \in Nat
      BY <2>5, StatementForms
    <3>2. stmt[k][s][l] = << n >> /\ n \in StmtNodes[k] /\ nodes \in Seq(StmtNodes[k - 1])
      BY <2>0, <2>5, BlockMakes
    <3>3. Agree(at, nodes, os)
      BY <2>0, <3>1, ListAgrees
    <3>4. Occurrences[k][s] = os
      BY <2>1, <2>5 DEF StmtNames
    <3>5. n.type = "BLOCK" /\ n.left = nodes /\ n.right = NULL /\ n.third = NULL
      BY DEF BlockIs, node
    <3> HIDE DEF nodes, n, os
    <3>6. Children(n) = nodes
      <4>1. (nodes \o << >>) \o << >> = nodes
        BY <3>2
      <4> QED
        BY <3>5, <4>1 DEF Children, NULL
    <3> QED
      BY <3>2, <3>3, <3>4, <3>5, <3>6, VisitPlain
  <2>6. CASE s.kind = "empty"
    <3>1. stmt[k][s][l] = << >> /\ Occurrences[k][s] = << >>
      BY <2>1, <2>6, EmptyMakes DEF StmtNames, NULL
    <3> QED
      BY <3>1, AgreeNone
  <2> QED
    BY <2>2, <2>3, <2>4, <2>5, <2>6, Kinds
<1> HIDE DEF S
<1>3. Depths \subseteq S
  BY <1>1, <1>2, DepthInduction
<1> QED
  BY <1>3 DEF S

(***************************************************************************)
(* Which sources are accepted.                                             *)
(***************************************************************************)

Unchecked == [symtab |-> {}, error |-> FALSE]
Declared(os) == {name \in STRING : \E j \in 1 .. Len(os) : Declares(os, j, name)}

\* The check begins with an empty table.
LEMMA UncheckedIs == Unchecked \in Checks /\ ~ Unchecked.error /\ Unchecked.symtab = {}
<1>1. {} \in SUBSET STRING /\ FALSE \in BOOLEAN
  OBVIOUS
<1>2. [symtab |-> {}, error |-> FALSE] \in Checks /\ [symtab |-> {}, error |-> FALSE].error = FALSE
  BY <1>1, CheckOf, Zenon DEF Checks
<1>3. [symtab |-> {}, error |-> FALSE].symtab = {}
  OBVIOUS
<1> QED
  BY <1>2, <1>3 DEF Unchecked

\* What one occurrence more does to scope
LEMMA ScopedAppend ==
  ASSUME NEW os \in Seq(Occurs), NEW o \in Occurs
  PROVE  /\ IsScoped(Append(os, o)) <=> IsScoped(os) /\ ((o[1] = "use") <=> o[2] \in Declared(os))
         /\ Declared(Append(os, o)) = Declared(os) \cup (IF o[1] = "use" THEN {} ELSE {o[2]})
<1> DEFINE more == Append(os, o)
           m == Len(os)
<1>1. /\ m \in Nat /\ DOMAIN os = 1 .. m /\ DOMAIN more = 1 .. m + 1 /\ Len(more) = m + 1
      /\ \A i \in 1 .. m : more[i] = os[i] /\ os[i] \in Occurs
      /\ more[m + 1] = o
  OBVIOUS
<1>2. \A x \in Occurs : /\ x[1] \in {"use", "declaration"} /\ x[2] \in STRING
                        /\ \A name : x = <<"declaration", name>> <=> x[1] # "use" /\ x[2] = name
  BY DEF Occurs
<1> HIDE DEF more, m
<1>3. \A i \in 1 .. m : i \in 1 .. m + 1 /\ \A name : Declares(more, i, name) <=> Declares(os, i, name)
  BY <1>1 DEF Declares
<1>4. \A name : Declares(more, m + 1, name) <=> o[1] # "use" /\ o[2] = name
  BY <1>1, <1>2 DEF Declares
<1>5. m + 1 \in 1 .. m + 1 /\ \A i \in 1 .. m + 1 : i \in 1 .. m \/ i = m + 1
  BY <1>1
<1>6. Declared(more) = Declared(os) \cup (IF o[1] = "use" THEN {} ELSE {o[2]})
  <2>1. Declared(more) = {name \in STRING : \E j \in 1 .. m + 1 : Declares(more, j, name)}
    BY <1>1 DEF Declared
  <2>2. Declared(os) = {name \in STRING : \E j \in 1 .. m : Declares(os, j, name)}
    BY DEF Declared, m
  <2>3. \A name : (\E j \in 1 .. m + 1 : Declares(more, j, name)) <=>
                    (\E j \in 1 .. m : Declares(os, j, name)) \/ (o[1] # "use" /\ o[2] = name)
    BY ONLY <1>3, <1>4, <1>5, Zenon
  <2>4. o[2] \in STRING
    BY <1>2
  <2> QED
    BY ONLY <2>1, <2>2, <2>3, <2>4
<1> DEFINE Fine(x, i) == (x[i][1] = "use") <=> (\E j \in 1 .. i - 1 : Declares(x, j, x[i][2]))
<1>7. \A i \in 1 .. m : Fine(more, i) <=> Fine(os, i)
  <2> SUFFICES ASSUME NEW i \in 1 .. m PROVE Fine(more, i) <=> Fine(os, i)
    OBVIOUS
  <2>1. \A j \in 1 .. i - 1 : j \in 1 .. m
    BY <1>1
  <2>2. more[i] = os[i]
    BY <1>1
  <2>3. \A j \in 1 .. i - 1 : Declares(more, j, os[i][2]) <=> Declares(os, j, os[i][2])
    BY <1>3, <2>1
  <2> QED
    BY ONLY <2>2, <2>3, Zenon
<1>8. Fine(more, m + 1) <=> ((o[1] = "use") <=> o[2] \in Declared(os))
  <2>1. (m + 1) - 1 = m
    BY <1>1
  <2>2. (\E j \in 1 .. m : Declares(more, j, o[2])) <=> (\E j \in 1 .. m : Declares(os, j, o[2]))
    BY <1>3
  <2>3. o[2] \in Declared(os) <=> \E j \in 1 .. m : Declares(os, j, o[2])
    BY <1>2 DEF Declared, m
  <2>4. Fine(more, m + 1) <=> ((o[1] = "use") <=> (\E j \in 1 .. m : Declares(more, j, o[2])))
    BY ONLY <1>1, <2>1, Zenon
  <2> QED
    BY ONLY <2>2, <2>3, <2>4, Zenon
<1>9. IsScoped(os) <=> \A i \in 1 .. m : Fine(os, i)
  BY <1>1, Zenon DEF IsScoped
<1>10. IsScoped(more) <=> \A i \in 1 .. m + 1 : Fine(more, i)
  BY <1>1, Zenon DEF IsScoped
<1> HIDE DEF Fine
<1>11. IsScoped(more) <=> IsScoped(os) /\ Fine(more, m + 1)
  <2>1. \A i \in 1 .. m : i \in 1 .. m + 1
    BY <1>3
  <2> QED
    BY ONLY <1>5, <1>7, <1>9, <1>10, <2>1, Zenon
<1>12. IsScoped(more) <=> IsScoped(os) /\ ((o[1] = "use") <=> o[2] \in Declared(os))
  BY ONLY <1>8, <1>11, Zenon
<1> QED
  BY ONLY <1>6, <1>12, Zenon DEF more

\* The scan finds an error unless the names are in scope.
LEMMA ScanFindsErrors ==
  ASSUME NEW os \in Seq(Occurs)
  PROVE  /\ ~ Scan(Unchecked, os).error <=> IsScoped(os)
         /\ ~ Scan(Unchecked, os).error => Scan(Unchecked, os).symtab = Declared(os)
<1> DEFINE P == {x \in Seq(Occurs) :
                   /\ ~ Scan(Unchecked, x).error <=> IsScoped(x)
                   /\ ~ Scan(Unchecked, x).error => Scan(Unchecked, x).symtab = Declared(x)}
<1>1. << >> \in P
  <2>1. Scan(Unchecked, << >>) = Unchecked
    BY ScanNone
  <2>2. IsScoped(<< >>) /\ Declared(<< >>) = {} /\ << >> \in Seq(Occurs)
    BY DEF IsScoped, Declared
  <2> QED
    BY <2>1, <2>2, UncheckedIs
<1>2. ASSUME NEW x \in Seq(Occurs), NEW o \in Occurs, x \in P PROVE Append(x, o) \in P
  <2> DEFINE c == Scan(Unchecked, x)
             e == Scan(Unchecked, Append(x, o))
  <2>1. e = Meet(c, o) /\ c \in Checks /\ o[2] \in STRING
    BY ScanAppend, ScanIs, UncheckedIs, MeetIs
  <2>2. (~ c.error <=> IsScoped(x)) /\ (~ c.error => c.symtab = Declared(x))
    BY <1>2, Zenon
  <2>3. /\ IsScoped(Append(x, o)) <=> IsScoped(x) /\ ((o[1] = "use") <=> o[2] \in Declared(x))
        /\ Declared(Append(x, o)) = Declared(x) \cup (IF o[1] = "use" THEN {} ELSE {o[2]})
    BY ScopedAppend
  <2>4. Append(x, o) \in Seq(Occurs)
    OBVIOUS
  <2> HIDE DEF c, e
  <2>5. /\ Rejected(c).error = TRUE
        /\ symbol_add(c, o[2]).error = c.error
        /\ symbol_add(c, o[2]).symtab = c.symtab \cup {o[2]}
    BY ONLY <2>1, ChecksAre, Zenon
  <2>6. /\ ~ e.error <=> IsScoped(Append(x, o))
        /\ ~ e.error => e.symtab = Declared(Append(x, o))
    <3>1. CASE c.error
      <4>1. e = c
        BY <2>1, <3>1 DEF Meet
      <4> QED
        BY <2>2, <2>3, <3>1, <4>1, Zenon
    <3>2. CASE ~ c.error /\ o[1] = "use" /\ o[2] \in c.symtab
      <4>1. e = c
        BY <2>1, <3>2 DEF Meet, symbol_exists
      <4>2. Declared(Append(x, o)) = Declared(x)
        BY <2>3, <3>2
      <4> QED
        BY <2>2, <2>3, <3>2, <4>1, <4>2, Zenon
    <3>3. CASE ~ c.error /\ o[1] = "use" /\ o[2] \notin c.symtab
      <4>1. e = Rejected(c)
        BY <2>1, <3>3 DEF Meet, symbol_exists
      <4> QED
        BY <2>2, <2>3, <2>5, <3>3, <4>1, Zenon
    <3>4. CASE ~ c.error /\ o[1] # "use" /\ o[2] \in c.symtab
      <4>1. e = Rejected(c)
        BY <2>1, <3>4 DEF Meet, symbol_exists
      <4> QED
        BY <2>2, <2>3, <2>5, <3>4, <4>1, Zenon
    <3>5. CASE ~ c.error /\ o[1] # "use" /\ o[2] \notin c.symtab
      <4>1. e = symbol_add(c, o[2])
        BY <2>1, <3>5 DEF Meet, symbol_exists
      <4>2. Declared(Append(x, o)) = Declared(x) \cup {o[2]}
        BY <2>3, <3>5
      <4> QED
        BY <2>2, <2>3, <2>5, <3>5, <4>1, <4>2, Zenon
    <3> QED
      BY <3>1, <3>2, <3>3, <3>4, <3>5, Zenon
  <2> QED
    BY <2>4, <2>6, Zenon DEF e
<1> HIDE DEF P
<1>3. Seq(Occurs) \subseteq P
  BY <1>1, <1>2, SequenceInduction
<1> QED
  BY <1>3, Zenon DEF P

\* The verdict on a file, whatever was left in the symbol table
\* (semantic_reset, semantic_check).
LEMMA AnalysisIsScope ==
  ASSUME NEW stmts \in Seq(FileStatements), stmts # << >>, NEW t
  PROVE  ~ semantic_analysis(t, program(stmts, LastLine)).error <=> WellScoped(stmts)
<1> DEFINE k == MAX_DEPTH - 1
           nodes == FileNodes(stmts)
           n == BlockIs(nodes)
           os == OccurrencesOf(Occurrences[k], stmts)
<1>1. MAX_DEPTH \in Depths /\ k \in Depths /\ MAX_DEPTH # 0 /\ LastLine \in Nat
  BY FileDepth
<1>2. stmts \in Seq(Statements[k]) /\ AgreesStmt(k) /\ Made(k)
  BY <1>1, StatementsAgree, StatementsMake DEF FileStatements
<1>3. Agree(check_node[k], nodes, os) /\ nodes \in Seq(StmtNodes[k])
  BY <1>1, <1>2, ListAgrees, ListMakes DEF FileNodes
<1>4. StmtNodes[MAX_DEPTH] = StmtNode(ExprNodes[k], StmtNodes[k])
  BY <1>1, ExprNodesOf
<1>5. program(stmts, LastLine) = << n >>
  BY ProgramIs
<1>6. n.type = "BLOCK" /\ n.left = nodes /\ n.right = NULL /\ n.third = NULL
  BY DEF BlockIs, node
<1> HIDE DEF nodes, os
<1>7. n \in StmtNodes[MAX_DEPTH]
  <2>1. n \in Shape("BLOCK", {""}, Seq(StmtNodes[k]), {NULL}, {NULL})
    BY <1>3, ZeroIsInt DEF Shape, node, BlockIs
  <2> QED
    BY <1>4, <2>1 DEF StmtNode
<1> HIDE DEF n
<1>8. Children(n) = nodes
  <2>1. (nodes \o << >>) \o << >> = nodes
    BY <1>3
  <2> QED
    BY <1>6, <2>1 DEF Children, NULL
<1>9. Agree(check_node[MAX_DEPTH], << n >>, os)
  BY <1>1, <1>3, <1>6, <1>7, <1>8, VisitPlain
<1>10. semantic_analysis(t, << n >>) = Each(check_node[MAX_DEPTH], Unchecked, << n >>)
  BY DEF semantic_analysis, semantic_reset, Unchecked
<1>11. semantic_analysis(t, << n >>) = Scan(Unchecked, os) /\ os \in Seq(Occurs)
  BY <1>9, <1>10, UncheckedIs DEF Agree
<1>12. ~ Scan(Unchecked, os).error <=> IsScoped(os)
  BY <1>11, ScanFindsErrors
<1>13. WellScoped(stmts) <=> IsScoped(os)
  BY DEF WellScoped, os
<1> QED
  BY ONLY <1>5, <1>11, <1>12, <1>13, Zenon

\* result.ok is the verdict on the tree.
LEMMA VerdictIs ==
  ASSUME NEW root, EmptyFails(root) \/ SemanticFails(root) \/ Succeeds(root)
  PROVE  /\ result'.ok <=> root # NULL /\ ~ semantic_analysis(symtab, root).error
         /\ result'.ok \in BOOLEAN
<1>1. CASE EmptyFails(root)
  <2>1. root = NULL /\ result' = NoCode
    BY <1>1 DEF EmptyFails
  <2>2. NoCode.ok = FALSE
    BY DEF NoCode
  <2> QED
    BY ONLY <2>1, <2>2, Zenon
<1>2. CASE SemanticFails(root)
  <2>1. root # NULL /\ result' = NoCode /\ semantic_analysis(symtab, root).error
    BY <1>2 DEF SemanticFails
  <2>2. NoCode.ok = FALSE
    BY DEF NoCode
  <2> QED
    BY ONLY <2>1, <2>2, Zenon
<1>3. CASE Succeeds(root)
  <2>1. root # NULL /\ ~ semantic_analysis(symtab, root).error /\ result'.ok = TRUE
    BY <1>3 DEF Succeeds
  <2> QED
    BY ONLY <2>1, Zenon
<1> QED
  BY <1>1, <1>2, <1>3

ScopeInv ==
  compilations > 0 /\ ErrorsIn(source) = {} =>
    (result.ok <=> source # << >> /\ WellScoped(source))

\* A compilation accepts what is well scoped and nothing else.
LEMMA CompileScopes ==
  ASSUME SessionInv, Compile PROVE ScopeInv'
<1>1. ScannerInv
  BY DEF SessionInv
<1>2. CASE NoFile /\ source' = << >>
  <2>1. result'.ok = FALSE
    BY <1>2 DEF NoFile, NoCode
  <2> QED
    BY <1>2, <2>1, Zenon DEF ScopeInv
<1>3. ASSUME NEW f \in FilesAfter(file), compile_program(f), source' = Content(f)
      PROVE  ScopeInv'
  <2>1. f \in Files
    BY <1>1, <1>3, CompileParses
  <2>2. CASE SyntaxFails(f)
    <3>1. ErrorsIn(Content(f)) # {}
      BY <2>2 DEF SyntaxFails, Rejects
    <3>2. ErrorsIn(source') # {}
      BY <1>3, <3>1
    <3> QED
      BY <3>2 DEF ScopeInv, ErrorsIn
  <2>3. CASE Parsed(f)
    <3> DEFINE stmts == Content(f)
               root == program(stmts, LastLine)
    <3>1. Accepts(f) /\ (EmptyFails(root) \/ SemanticFails(root) \/ Succeeds(root))
      BY <2>3 DEF Parsed
    <3>2. stmts \in Seq(FileStatements)
      BY <1>1, <2>1, <3>1, AcceptedStatements
    <3>3. stmts # << >> => (~ semantic_analysis(symtab, root).error <=> WellScoped(stmts))
      BY <3>2, AnalysisIsScope
    <3>4. root = NULL <=> stmts = << >>
      <4>1. stmts # << >> => root = << BlockIs(FileNodes(stmts)) >>
        BY ProgramIs
      <4>2. \A n : << n >> # << >>
        OBVIOUS
      <4>3. stmts = << >> => root = NULL
        BY DEF program
      <4> QED
        BY <4>1, <4>2, <4>3 DEF NULL
    <3> HIDE DEF stmts, root
    <3>5. result'.ok <=> root # NULL /\ ~ semantic_analysis(symtab, root).error
      BY <3>1, VerdictIs
    <3>6. source' = stmts
      BY <1>3 DEF stmts
    <3> QED
      BY ONLY <3>3, <3>4, <3>5, <3>6, Zenon DEF ScopeInv
  <2> QED
    BY <1>3, <2>2, <2>3 DEF compile_program
<1> QED
  BY <1>2, <1>3 DEF Compile

\* AcceptsWellScoped, for every source of any depth, whatever was compiled
\* before it (semantic_check).
THEOREM SessionsAcceptWellScoped == SessionSpec => []AcceptsWellScoped
<1>1. SessionInit => ScopeInv
  BY DEF SessionInit, Init, ScannerInit, ScopeInv
<1>2. SessionInv /\ ScopeInv /\ [SessionNext]_sessionVars => ScopeInv'
  <2> SUFFICES ASSUME SessionInv, ScopeInv, [SessionNext]_sessionVars PROVE ScopeInv'
    OBVIOUS
  <2>1. CASE Compile
    BY <2>1, CompileScopes
  <2>2. ASSUME UNCHANGED <<vars, source>> PROVE ScopeInv'
    <3>1. compilations' = compilations /\ result' = result /\ source' = source
      BY <2>2 DEF vars, scanner
    <3> QED
      BY <3>1, Zenon DEF ScopeInv
  <2>3. CASE Run
    BY <2>2, <2>3 DEF Run
  <2>4. CASE Execute
    BY <2>2, <2>4 DEF Execute
  <2>5. CASE UNCHANGED sessionVars
    BY <2>2, <2>5 DEF sessionVars
  <2> QED
    BY <2>1, <2>3, <2>4, <2>5 DEF SessionNext
<1>3. ScopeInv => AcceptsWellScoped
  BY Zenon DEF ScopeInv, AcceptsWellScoped
<1> QED
  BY <1>1, <1>2, <1>3, SessionsAreSafe, PTL DEF SessionSpec

(***************************************************************************)
(* The counter of labels moves the labels, and with them the jumps.        *)
(***************************************************************************)

Moved(x, k) == IF IsLabel(x) \/ IsJump(x) THEN [x EXCEPT !.value = @ + k] ELSE x

\* b is a with all labels k further.
Shifted(a, b, k) ==
  /\ a \in Seq(IRInstr) /\ b \in Seq(IRInstr) /\ Len(b) = Len(a)
  /\ \A i \in 1 .. Len(a) : b[i] = Moved(a[i], k)

\* What was emitted, with the counter behind it
Moves(g, h, k) ==
  /\ g.next_label \in Nat /\ h.next_label = g.next_label + k
  /\ Shifted(g.ir, h.ir, k)

\* Code without labels and jumps
Straight(c) == c \in Seq(IRInstr) /\ \A i \in 1 .. Len(c) : ~ IsLabel(c[i]) /\ ~ IsJump(c[i])

\* Shifted pieces one behind the other are shifted.
LEMMA ShiftedBoth ==
  ASSUME NEW k \in Nat, NEW a, NEW b, NEW c, NEW d, Shifted(a, b, k), Shifted(c, d, k)
  PROVE  Shifted(a \o c, b \o d, k)
<1>1. /\ a \in Seq(IRInstr) /\ b \in Seq(IRInstr) /\ c \in Seq(IRInstr) /\ d \in Seq(IRInstr)
      /\ Len(b) = Len(a) /\ Len(d) = Len(c)
      /\ \A i \in 1 .. Len(a) : b[i] = Moved(a[i], k)
      /\ \A i \in 1 .. Len(c) : d[i] = Moved(c[i], k)
  BY DEF Shifted
<1>2. /\ a \o c \in Seq(IRInstr) /\ Len(a \o c) = Len(a) + Len(c)
      /\ \A i \in 1 .. Len(a) : (a \o c)[i] = a[i]
      /\ \A i \in 1 .. Len(c) : (a \o c)[Len(a) + i] = c[i]
      /\ \A i \in 1 .. Len(a) + Len(c) :
           i \in 1 .. Len(a) \/ \E j \in 1 .. Len(c) : i = Len(a) + j
  BY <1>1, Both
<1>3. /\ b \o d \in Seq(IRInstr) /\ Len(b \o d) = Len(a) + Len(c)
      /\ \A i \in 1 .. Len(a) : (b \o d)[i] = b[i]
      /\ \A i \in 1 .. Len(c) : (b \o d)[Len(a) + i] = d[i]
  <2>1. /\ b \o d \in Seq(IRInstr) /\ Len(b \o d) = Len(b) + Len(d)
        /\ \A i \in 1 .. Len(b) : (b \o d)[i] = b[i]
        /\ \A i \in 1 .. Len(d) : (b \o d)[Len(b) + i] = d[i]
    BY <1>1, Both
  <2> QED
    BY <1>1, <2>1
<1> DEFINE x == a \o c
           y == b \o d
<1> HIDE DEF x, y
<1>4. \A i \in 1 .. Len(a) + Len(c) : y[i] = Moved(x[i], k)
  <2> SUFFICES ASSUME NEW i \in 1 .. Len(a) + Len(c) PROVE y[i] = Moved(x[i], k)
    OBVIOUS
  <2>1. CASE i \in 1 .. Len(a)
    BY <1>1, <1>2, <1>3, <2>1 DEF x, y
  <2>2. ASSUME NEW j \in 1 .. Len(c), i = Len(a) + j PROVE y[i] = Moved(x[i], k)
    BY <1>1, <1>2, <1>3, <2>2 DEF x, y
  <2> QED
    BY <1>2, <2>1, <2>2
<1> QED
  BY <1>2, <1>3, <1>4 DEF Shifted, x, y

\* Code without labels and jumps does not change.
LEMMA StraightShifted ==
  ASSUME NEW k, NEW c, Straight(c) PROVE Shifted(c, c, k)
BY DEF Straight, Shifted, Moved

\* What is emitted are instructions.
LEMMA InstrIs ==
  ASSUME NEW op \in IROp, NEW v \in Int, NEW name \in STRING \cup {NoName}, NEW line \in Nat
  PROVE  /\ make_instr(op, v, name, line) \in IRInstr
         /\ << make_instr(op, v, name, line) >> \in Seq(IRInstr)
         /\ make_instr(op, v, name, line).op = op
<1>1. make_instr(op, v, name, line) \in IRInstr
  BY Zenon DEF make_instr, IRInstr
<1>2. make_instr(op, v, name, line).op = op
  BY DEF make_instr
<1> HIDE DEF make_instr
<1> QED
  BY <1>1, <1>2

\* One instruction that is no label and no jump,
LEMMA StraightOne ==
  ASSUME NEW op \in IROp, op \notin {"LABEL", "JMP", "JZ"}, NEW v \in Int,
         NEW name \in STRING \cup {NoName}, NEW line \in Nat
  PROVE  Straight(<< make_instr(op, v, name, line) >>)
<1> DEFINE x == make_instr(op, v, name, line)
<1>1. << x >> \in Seq(IRInstr) /\ x.op = op
  BY InstrIs
<1> HIDE DEF x
<1>2. Len(<< x >>) = 1 /\ \A i \in 1 .. 1 : << x >>[i] = x
  OBVIOUS
<1> QED
  BY <1>1, <1>2 DEF Straight, IsLabel, IsJump, x

\* ... and several of them.
LEMMA StraightBoth ==
  ASSUME NEW a, NEW c, Straight(a), Straight(c) PROVE Straight(a \o c)
<1>1. /\ a \in Seq(IRInstr) /\ c \in Seq(IRInstr)
      /\ \A i \in 1 .. Len(a) : ~ IsLabel(a[i]) /\ ~ IsJump(a[i])
      /\ \A i \in 1 .. Len(c) : ~ IsLabel(c[i]) /\ ~ IsJump(c[i])
  BY DEF Straight
<1>2. /\ a \o c \in Seq(IRInstr) /\ Len(a \o c) = Len(a) + Len(c)
      /\ \A i \in 1 .. Len(a) : (a \o c)[i] = a[i]
      /\ \A i \in 1 .. Len(c) : (a \o c)[Len(a) + i] = c[i]
      /\ \A i \in 1 .. Len(a) + Len(c) :
           i \in 1 .. Len(a) \/ \E j \in 1 .. Len(c) : i = Len(a) + j
  BY <1>1, Both
<1> DEFINE x == a \o c
<1> HIDE DEF x
<1>3. \A i \in 1 .. Len(a) + Len(c) : ~ IsLabel(x[i]) /\ ~ IsJump(x[i])
  <2> SUFFICES ASSUME NEW i \in 1 .. Len(a) + Len(c) PROVE ~ IsLabel(x[i]) /\ ~ IsJump(x[i])
    OBVIOUS
  <2>1. CASE i \in 1 .. Len(a)
    BY <1>1, <1>2, <2>1 DEF x
  <2>2. ASSUME NEW j \in 1 .. Len(c), i = Len(a) + j PROVE ~ IsLabel(x[i]) /\ ~ IsJump(x[i])
    BY <1>1, <1>2, <2>2 DEF x
  <2> QED
    BY <1>2, <2>1, <2>2
<1> QED
  BY <1>2, <1>3 DEF Straight, x

\* A label or a jump
LEMMA LabelMoves ==
  ASSUME NEW op \in {"LABEL", "JMP", "JZ"}, NEW id \in Nat, NEW k \in Nat, NEW line \in Nat
  PROVE  Shifted(<< make_instr(op, id, NoName, line) >>, << make_instr(op, id + k, NoName, line) >>, k)
<1> DEFINE x == make_instr(op, id, NoName, line)
           y == make_instr(op, id + k, NoName, line)
<1>1. op \in IROp /\ id \in Int /\ id + k \in Int
  BY DEF IROp
<1>2. NoName \in STRING \cup {NoName}
  OBVIOUS
<1>3. << x >> \in Seq(IRInstr) /\ x.op = op
  BY <1>1, <1>2, InstrIs
<1>4. << y >> \in Seq(IRInstr)
  <2>1. PICK v \in Int : v = id + k
    BY <1>1
  <2> QED
    BY <1>1, <1>2, <2>1, InstrIs
<1>5. IsLabel(x) \/ IsJump(x)
  BY <1>3 DEF IsLabel, IsJump
<1>6. [x EXCEPT !.value = @ + k] = y
  BY DEF make_instr
<1>7. Moved(x, k) = y
  BY <1>5, <1>6 DEF Moved
<1> HIDE DEF x, y
<1>8. Len(<< x >>) = 1 /\ Len(<< y >>) = 1 /\ \A i \in 1 .. 1 : << x >>[i] = x /\ << y >>[i] = y
  OBVIOUS
<1> QED
  BY <1>3, <1>4, <1>7, <1>8 DEF Shifted, x, y

(***************************************************************************)
(* Expressions and lists of statements.                                    *)
(***************************************************************************)

\* An expression has neither labels nor jumps.
LEMMA ExpressionsAreStraight ==
  ASSUME NEW d \in Depths PROVE \A n \in ExprNodes[d] : Straight(gen_expr[d][n])
<1> DEFINE S == {k \in Depths : \A n \in ExprNodes[k] : Straight(gen_expr[k][n])}
<1>1. 0 \in S
  BY NothingAtZero
<1>2. ASSUME NEW k \in Depths \ {0}, k - 1 \in Depths, k - 1 \in S PROVE k \in S
  <2> SUFFICES ASSUME NEW n \in ExprNodes[k] PROVE Straight(gen_expr[k][n])
    OBVIOUS
  <2>1. ExprNodes[k] = ExprNode(ExprNodes[k - 1])
    BY ExprNodesOf
  <2>2. gen_expr[k][n] = ExprCode(gen_expr[k - 1], n)
    BY GenExprIs
  <2>3. \/ n \in Leaf("INT") \/ n \in Leaf("IDENT")
        \/ n \in Shape("BINOP", BinaryOps, One(ExprNodes[k - 1]), One(ExprNodes[k - 1]), {NULL})
    BY <2>1 DEF ExprNode
  <2>4. n.line \in Nat /\ n.name \in STRING \cup {NoName} /\ n.value \in Ints
    BY <2>3, Zenon DEF Leaf, Shape
  <2>5. n.value \in Int /\ 0 \in Int /\ NoName \in STRING \cup {NoName}
    BY <2>4, SourceAssumption DEF Ints, INT_MIN
  <2>6. CASE n.type = "INT"
    BY <2>2, <2>4, <2>5, <2>6, StraightOne DEF ExprCode, IROp
  <2>7. CASE n.type = "IDENT"
    BY <2>2, <2>4, <2>5, <2>7, StraightOne DEF ExprCode, IROp
  <2>8. CASE n \in Shape("BINOP", BinaryOps, One(ExprNodes[k - 1]), One(ExprNodes[k - 1]), {NULL})
    <3>1. /\ n.type = "BINOP" /\ n.op \in BinaryOps
          /\ n.left \in One(ExprNodes[k - 1]) /\ n.right \in One(ExprNodes[k - 1])
      BY <2>8 DEF Shape
    <3>2. n.left[1] \in ExprNodes[k - 1] /\ n.right[1] \in ExprNodes[k - 1]
      BY <3>1, OneIs
    <3>3. Straight(gen_expr[k - 1][n.left[1]]) /\ Straight(gen_expr[k - 1][n.right[1]])
      BY <1>2, <3>2
    <3>4. n.op \in IROp /\ n.op \notin {"LABEL", "JMP", "JZ"}
      BY <3>1 DEF IROp, BinaryOps
    <3>5. Straight(<< make_instr(n.op, 0, NoName, n.line) >>)
      BY <2>4, <2>5, <3>4, StraightOne
    <3>6. gen_expr[k][n] = gen_expr[k - 1][n.left[1]] \o gen_expr[k - 1][n.right[1]]
                             \o << make_instr(n.op, 0, NoName, n.line) >>
      BY <2>2, <3>1 DEF ExprCode
    <3> QED
      BY <3>3, <3>5, <3>6, StraightBoth
  <2>9. n.type = "INT" \/ n.type = "IDENT" \/
        n \in Shape("BINOP", BinaryOps, One(ExprNodes[k - 1]), One(ExprNodes[k - 1]), {NULL})
    BY <2>3 DEF Leaf, Shape
  <2> QED
    BY <2>6, <2>7, <2>8, <2>9
<1> HIDE DEF S
<1>3. Depths \subseteq S
  BY <1>1, <1>2, DepthInduction
<1> QED
  BY <1>3 DEF S

NodesMove(d) ==
  \A n \in StmtNodes[d], l, k \in Nat : Moves(gen_node[d][n][l], gen_node[d][n][l + k], k)

\* With a larger counter the code of a list has larger labels and is else the same.
LEMMA ListMoves ==
  ASSUME NEW d, NodesMove(d), NEW nodes \in Seq(StmtNodes[d]), NEW l \in Nat, NEW k \in Nat
  PROVE  Moves(gen_stmt(gen_node[d], nodes, l), gen_stmt(gen_node[d], nodes, l + k), k)
<1> DEFINE N == StmtNodes[d]
           P == {x \in Seq(N) : Moves(gen_stmt(gen_node[d], x, l), gen_stmt(gen_node[d], x, l + k), k)}
<1>1. << >> \in P
  <2>1. << >> \in Seq(N) /\ Straight(<< >>)
    BY DEF Straight
  <2>2. \A m : gen_stmt(gen_node[d], << >>, m) = Emitted(<< >>, m)
    BY GenNone
  <2>3. Moves(Emitted(<< >>, l), Emitted(<< >>, l + k), k)
    BY <2>1, StraightShifted DEF Moves, Emitted
  <2> QED
    BY <2>1, <2>2, <2>3
<1>2. ASSUME NEW x \in Seq(N), NEW n \in N, x \in P PROVE Append(x, n) \in P
  <2> DEFINE g == gen_stmt(gen_node[d], x, l)
             h == gen_stmt(gen_node[d], x, l + k)
             u == gen_node[d][n][g.next_label]
             v == gen_node[d][n][h.next_label]
  <2>1. /\ gen_stmt(gen_node[d], Append(x, n), l) = Then(gen_node[d], g, n)
        /\ gen_stmt(gen_node[d], Append(x, n), l + k) = Then(gen_node[d], h, n)
    <3>1. PICK m : m = l + k
      OBVIOUS
    <3>2. gen_stmt(gen_node[d], Append(x, n), m) = Then(gen_node[d], gen_stmt(gen_node[d], x, m), n)
      BY GenAppend
    <3> QED
      BY <3>1, <3>2, GenAppend
  <2>2. Moves(g, h, k)
    BY <1>2
  <2> HIDE DEF g, h
  <2>3. g.next_label \in Nat /\ h.next_label = g.next_label + k
    BY <2>2 DEF Moves
  <2>4. Moves(u, v, k)
    BY <2>3 DEF NodesMove
  <2>5. /\ Then(gen_node[d], g, n) = Emitted(g.ir \o u.ir, u.next_label)
        /\ Then(gen_node[d], h, n) = Emitted(h.ir \o v.ir, v.next_label)
    BY DEF Then
  <2> HIDE DEF u, v
  <2>6. Shifted(g.ir \o u.ir, h.ir \o v.ir, k)
    BY <2>2, <2>4, ShiftedBoth DEF Moves
  <2>7. Moves(Emitted(g.ir \o u.ir, u.next_label), Emitted(h.ir \o v.ir, v.next_label), k)
    BY <2>4, <2>6, EmittedIs DEF Moves
  <2>8. Append(x, n) \in Seq(N)
    OBVIOUS
  <2> QED
    BY <2>1, <2>5, <2>7, <2>8
<1> HIDE DEF P
<1>3. Seq(N) \subseteq P
  BY <1>1, <1>2, SequenceInduction
<1> QED
  BY <1>3 DEF P

(***************************************************************************)
(* Statements.                                                             *)
(***************************************************************************)

\* So have the labels and the jumps themselves,
LEMMA EmitMoves ==
  ASSUME NEW l \in Nat, NEW k \in Nat, NEW m \in Nat, m = l + k, NEW line \in Nat
  PROVE  /\ Shifted(emit_label(l, line), emit_label(m, line), k)
         /\ Shifted(emit_jmp(l, line), emit_jmp(m, line), k)
         /\ Shifted(emit_jz(l, line), emit_jz(m, line), k)
<1>1. \A op \in {"LABEL", "JMP", "JZ"} :
        Shifted(<< make_instr(op, l, NoName, line) >>, << make_instr(op, m, NoName, line) >>, k)
  BY LabelMoves
<1> QED
  BY <1>1 DEF emit_label, emit_jmp, emit_jz

\* ... with the counter behind them,
LEMMA EmittedMoves ==
  ASSUME NEW k \in Nat, NEW a, NEW b, Shifted(a, b, k), NEW l \in Nat, NEW m, m = l + k
  PROVE  Moves(Emitted(a, l), Emitted(b, m), k)
BY EmittedIs DEF Moves

\* ... and a loop.
LEMMA LoopMoves ==
  ASSUME NEW k \in Nat, NEW c, Straight(c), NEW a, NEW b, Shifted(a, b, k),
         NEW l \in Nat, NEW m \in Nat, m = l + k, NEW line \in Nat
  PROVE  Shifted(gen_loop(c, a, l, line), gen_loop(c, b, m, line), k)
<1>1. PICK p \in Nat : p = l + 1
  OBVIOUS
<1>2. PICK q \in Nat : q = m + 1
  OBVIOUS
<1>3. q = p + k
  BY <1>1, <1>2
<1>4. /\ Shifted(emit_label(l, line), emit_label(m, line), k)
      /\ Shifted(emit_jmp(l, line), emit_jmp(m, line), k)
      /\ Shifted(emit_label(p, line), emit_label(q, line), k)
      /\ Shifted(emit_jz(p, line), emit_jz(q, line), k)
  BY <1>3, EmitMoves
<1>5. Shifted(c, c, k)
  BY StraightShifted
<1>6. /\ gen_loop(c, a, l, line) =
           emit_label(l, line) \o c \o emit_jz(p, line) \o a \o emit_jmp(l, line) \o emit_label(p, line)
      /\ gen_loop(c, b, m, line) =
           emit_label(m, line) \o c \o emit_jz(q, line) \o b \o emit_jmp(m, line) \o emit_label(q, line)
  BY <1>1, <1>2 DEF gen_loop
<1>7. Shifted(emit_label(l, line) \o c, emit_label(m, line) \o c, k)
  BY ONLY <1>4, <1>5, ShiftedBoth, k \in Nat
<1>8. Shifted(emit_label(l, line) \o c \o emit_jz(p, line), emit_label(m, line) \o c \o emit_jz(q, line), k)
  BY ONLY <1>4, <1>7, ShiftedBoth, k \in Nat
<1>9. Shifted(emit_label(l, line) \o c \o emit_jz(p, line) \o a,
              emit_label(m, line) \o c \o emit_jz(q, line) \o b, k)
  BY ONLY <1>8, Shifted(a, b, k), ShiftedBoth, k \in Nat
<1>10. Shifted(emit_label(l, line) \o c \o emit_jz(p, line) \o a \o emit_jmp(l, line),
               emit_label(m, line) \o c \o emit_jz(q, line) \o b \o emit_jmp(m, line), k)
  BY ONLY <1>4, <1>9, ShiftedBoth, k \in Nat
<1>11. Shifted(emit_label(l, line) \o c \o emit_jz(p, line) \o a \o emit_jmp(l, line) \o emit_label(p, line),
               emit_label(m, line) \o c \o emit_jz(q, line) \o b \o emit_jmp(m, line) \o emit_label(q, line), k)
  BY ONLY <1>4, <1>10, ShiftedBoth, k \in Nat
<1> QED
  BY ONLY <1>6, <1>11

\* A value that is computed and stored: no labels.
LEMMA StoredIsStraight ==
  ASSUME NEW c, Straight(c), NEW name \in STRING \cup {NoName}, NEW line \in Nat
  PROVE  Straight(Stored(c, name, line))
<1>1. "STORE_VAR" \in IROp /\ "STORE_VAR" \notin {"LABEL", "JMP", "JZ"} /\ 0 \in Int
  BY DEF IROp
<1>2. Straight(<< make_instr("STORE_VAR", 0, name, line) >>)
  BY ONLY <1>1, StraightOne, name \in STRING \cup {NoName}, line \in Nat
<1> QED
  BY <1>2, StraightBoth DEF Stored

\* A list behind the labels l and l + 1, or behind another list
LEMMA NextListMoves ==
  ASSUME NEW d, NodesMove(d), NEW nodes \in Seq(StmtNodes[d]), NEW l \in Nat, NEW k \in Nat,
         NEW m \in Nat, m = l + k
  PROVE  Moves(gen_stmt(gen_node[d], nodes, l), gen_stmt(gen_node[d], nodes, m), k)
BY ListMoves

\* The name of a node is a name or none.
LEMMA ExprNodeNames ==
  ASSUME NEW d \in Depths, NEW x \in ExprNodes[d] PROVE x.name \in STRING \cup {NoName}
<1>1. d # 0
  BY NothingAtZero
<1>2. x \in ExprNode(ExprNodes[d - 1])
  BY <1>1, ExprNodesOf
<1>3. \/ x \in Leaf("INT") \/ x \in Leaf("IDENT")
      \/ x \in Shape("BINOP", BinaryOps, One(ExprNodes[d - 1]), One(ExprNodes[d - 1]), {NULL})
  BY <1>2 DEF ExprNode
<1> QED
  BY <1>3, Zenon DEF Leaf, Shape

NodeMoves(d, n, l, m, k) ==
  Moves(StmtCode(gen_expr[d], gen_node[d], n, l), StmtCode(gen_expr[d], gen_node[d], n, m), k)

\* What a declaration without a value loads.
LEMMA Zero == "LOAD_CONST" \in IROp /\ "LOAD_CONST" \notin {"LABEL", "JMP", "JZ"} /\ 0 \in Int
BY DEF IROp

\* Declarations and assignments have no labels to move.
LEMMA SimpleMoves ==
  ASSUME NEW d \in Depths, NEW l \in Nat, NEW k \in Nat, NEW m \in Nat, m = l + k,
         NEW n, n \in Shape("VAR_DECL", {""}, Optional(ExprNodes[d]), {NULL}, {NULL})
                \/ n \in Shape("ASSIGN", {""}, One({x \in ExprNodes[d] : x.type = "IDENT"}), One(ExprNodes[d]), {NULL})
  PROVE  NodeMoves(d, n, l, m, k)
<1>1. CASE n \in Shape("VAR_DECL", {""}, Optional(ExprNodes[d]), {NULL}, {NULL})
  <2>1. n.type = "VAR_DECL" /\ n.line \in Nat /\ n.left \in Optional(ExprNodes[d])
    BY <1>1 DEF Shape
  <2>2. n.name \in STRING \cup {NoName}
    BY <1>1, Zenon DEF Shape
  <2>3. Straight(Initial(gen_expr[d], n))
    <3>1. CASE n.left = NULL
      <4>1. "LOAD_CONST" \in IROp /\ "LOAD_CONST" \notin {"LABEL", "JMP", "JZ"} /\ 0 \in Int
        BY Zero
      <4>2. NoName \in STRING \cup {NoName}
        OBVIOUS
      <4>3. Straight(<< make_instr("LOAD_CONST", 0, NoName, n.line) >>)
        BY <2>1, <4>1, <4>2, StraightOne
      <4> QED
        BY <3>1, <4>3 DEF Initial
    <3>2. CASE n.left # NULL
      <4>1. n.left[1] \in ExprNodes[d]
        BY <2>1, <3>2, OptionalIs, OneIs DEF NULL
      <4> QED
        BY <3>2, <4>1, ExpressionsAreStraight DEF Initial
    <3> QED
      BY <3>1, <3>2
  <2>4. Straight(Stored(Initial(gen_expr[d], n), n.name, n.line))
    BY <2>1, <2>2, <2>3, StoredIsStraight
  <2>5. \A j : StmtCode(gen_expr[d], gen_node[d], n, j) =
                 Emitted(Stored(Initial(gen_expr[d], n), n.name, n.line), j)
    BY <2>1 DEF StmtCode
  <2> QED
    BY <2>4, <2>5, StraightShifted, EmittedMoves DEF NodeMoves
<1>2. CASE n \in Shape("ASSIGN", {""}, One({x \in ExprNodes[d] : x.type = "IDENT"}), One(ExprNodes[d]), {NULL})
  <2>1. /\ n.type = "ASSIGN" /\ n.line \in Nat /\ n.right \in One(ExprNodes[d])
        /\ n.left \in One({x \in ExprNodes[d] : x.type = "IDENT"})
    BY <1>2 DEF Shape
  <2>2. n.left[1] \in ExprNodes[d] /\ n.right[1] \in ExprNodes[d]
    <3>1. n.left[1] \in {x \in ExprNodes[d] : x.type = "IDENT"}
      BY <2>1, OneIs
    <3> QED
      BY <2>1, <3>1, OneIs
  <2>3. n.left[1].name \in STRING \cup {NoName}
    BY <2>2, ExprNodeNames
  <2>4. Straight(Stored(gen_expr[d][n.right[1]], n.left[1].name, n.line))
    BY <2>1, <2>2, <2>3, ExpressionsAreStraight, StoredIsStraight
  <2>5. \A j : StmtCode(gen_expr[d], gen_node[d], n, j) =
                 Emitted(Stored(gen_expr[d][n.right[1]], n.left[1].name, n.line), j)
    BY <2>1 DEF StmtCode
  <2> QED
    BY <2>4, <2>5, StraightShifted, EmittedMoves DEF NodeMoves
<1> QED
  BY <1>1, <1>2

\* An if moves its two labels and its branches,
LEMMA IfMoves ==
  ASSUME NEW d \in Depths, NodesMove(d), NEW l \in Nat, NEW k \in Nat, NEW m \in Nat, m = l + k,
         NEW n, n \in Shape("IF", {""}, One(ExprNodes[d]), Seq(StmtNodes[d]), Seq(StmtNodes[d]))
  PROVE  NodeMoves(d, n, l, m, k)
<1>1. /\ n.type = "IF" /\ n.line \in Nat /\ n.left \in One(ExprNodes[d])
      /\ n.right \in Seq(StmtNodes[d]) /\ n.third \in Seq(StmtNodes[d])
  BY DEF Shape
<1> DEFINE c == gen_expr[d][n.left[1]]
<1>2. Straight(c)
  BY <1>1, OneIs, ExpressionsAreStraight
<1>3. Shifted(c, c, k)
  BY <1>2, StraightShifted
<1>4. PICK l1 \in Nat : l1 = l + 1
  BY ONLY l \in Nat
<1>5. PICK l2 \in Nat : l2 = l + 2
  BY ONLY l \in Nat
<1>6. PICK m1 \in Nat : m1 = m + 1
  BY ONLY m \in Nat
<1>7. PICK m2 \in Nat : m2 = m + 2
  BY ONLY m \in Nat
<1>8. m1 = l1 + k /\ m2 = l2 + k
  BY ONLY <1>4, <1>5, <1>6, <1>7, m = l + k, l \in Nat, k \in Nat, m \in Nat
<1> DEFINE t == gen_stmt(gen_node[d], n.right, l2)
           u == gen_stmt(gen_node[d], n.right, m2)
           v == gen_stmt(gen_node[d], n.third, t.next_label)
           w == gen_stmt(gen_node[d], n.third, u.next_label)
           x == c \o emit_jz(l, n.line) \o t.ir \o emit_jmp(l1, n.line)
                  \o emit_label(l, n.line) \o v.ir \o emit_label(l1, n.line)
           y == c \o emit_jz(m, n.line) \o u.ir \o emit_jmp(m1, n.line)
                  \o emit_label(m, n.line) \o w.ir \o emit_label(m1, n.line)
<1>9. Moves(t, u, k)
  BY <1>1, <1>8, NextListMoves
<1>10. t.next_label \in Nat /\ u.next_label = t.next_label + k /\ Shifted(t.ir, u.ir, k)
  BY <1>9 DEF Moves
<1>11. u.next_label \in Nat
  BY ONLY <1>10, k \in Nat
<1>12. Moves(v, w, k)
  BY <1>1, <1>10, <1>11, NextListMoves
<1>13. v.next_label \in Nat /\ w.next_label = v.next_label + k /\ Shifted(v.ir, w.ir, k)
  BY <1>12 DEF Moves
<1>14. /\ Shifted(emit_label(l, n.line), emit_label(m, n.line), k)
       /\ Shifted(emit_jz(l, n.line), emit_jz(m, n.line), k)
       /\ Shifted(emit_label(l1, n.line), emit_label(m1, n.line), k)
       /\ Shifted(emit_jmp(l1, n.line), emit_jmp(m1, n.line), k)
  BY <1>1, <1>8, EmitMoves
<1>15. /\ StmtCode(gen_expr[d], gen_node[d], n, l) = gen_if(gen_expr[d], gen_node[d], n, l)
       /\ StmtCode(gen_expr[d], gen_node[d], n, m) = gen_if(gen_expr[d], gen_node[d], n, m)
  BY <1>1 DEF StmtCode
<1>16. /\ gen_if(gen_expr[d], gen_node[d], n, l) = Emitted(x, v.next_label)
       /\ gen_if(gen_expr[d], gen_node[d], n, m) = Emitted(y, w.next_label)
  BY <1>4, <1>5, <1>6, <1>7 DEF gen_if
<1> HIDE DEF c, t, u, v, w
<1>17. Shifted(x, y, k)
  <2>1. Shifted(c \o emit_jz(l, n.line), c \o emit_jz(m, n.line), k)
    BY ONLY <1>3, <1>14, ShiftedBoth, k \in Nat
  <2>2. Shifted(c \o emit_jz(l, n.line) \o t.ir, c \o emit_jz(m, n.line) \o u.ir, k)
    BY ONLY <2>1, <1>10, ShiftedBoth, k \in Nat
  <2>3. Shifted(c \o emit_jz(l, n.line) \o t.ir \o emit_jmp(l1, n.line),
                c \o emit_jz(m, n.line) \o u.ir \o emit_jmp(m1, n.line), k)
    BY ONLY <2>2, <1>14, ShiftedBoth, k \in Nat
  <2>4. Shifted(c \o emit_jz(l, n.line) \o t.ir \o emit_jmp(l1, n.line) \o emit_label(l, n.line),
                c \o emit_jz(m, n.line) \o u.ir \o emit_jmp(m1, n.line) \o emit_label(m, n.line), k)
    BY ONLY <2>3, <1>14, ShiftedBoth, k \in Nat
  <2>5. Shifted(c \o emit_jz(l, n.line) \o t.ir \o emit_jmp(l1, n.line) \o emit_label(l, n.line) \o v.ir,
                c \o emit_jz(m, n.line) \o u.ir \o emit_jmp(m1, n.line) \o emit_label(m, n.line) \o w.ir, k)
    BY ONLY <2>4, <1>13, ShiftedBoth, k \in Nat
  <2> QED
    BY ONLY <2>5, <1>14, ShiftedBoth, k \in Nat
<1> HIDE DEF x, y
<1> QED
  BY <1>13, <1>15, <1>16, <1>17, EmittedMoves DEF NodeMoves

\* ... a while its two and its body,
LEMMA WhileMoves ==
  ASSUME NEW d \in Depths, NodesMove(d), NEW l \in Nat, NEW k \in Nat, NEW m \in Nat, m = l + k,
         NEW n, n \in Shape("WHILE", {""}, One(ExprNodes[d]), Seq(StmtNodes[d]), {NULL})
  PROVE  NodeMoves(d, n, l, m, k)
<1>1. /\ n.type = "WHILE" /\ n.line \in Nat /\ n.left \in One(ExprNodes[d])
      /\ n.right \in Seq(StmtNodes[d])
  BY DEF Shape
<1> DEFINE c == gen_expr[d][n.left[1]]
<1>2. Straight(c)
  BY <1>1, OneIs, ExpressionsAreStraight
<1>3. PICK l2 \in Nat : l2 = l + 2
  BY ONLY l \in Nat
<1>4. PICK m2 \in Nat : m2 = m + 2
  BY ONLY m \in Nat
<1>5. m2 = l2 + k
  BY ONLY <1>3, <1>4, m = l + k, l \in Nat, k \in Nat, m \in Nat
<1> DEFINE t == gen_stmt(gen_node[d], n.right, l2)
           u == gen_stmt(gen_node[d], n.right, m2)
<1>6. Moves(t, u, k)
  BY <1>1, <1>5, NextListMoves
<1>7. t.next_label \in Nat /\ u.next_label = t.next_label + k /\ Shifted(t.ir, u.ir, k)
  BY <1>6 DEF Moves
<1>8. /\ StmtCode(gen_expr[d], gen_node[d], n, l) = gen_while(gen_expr[d], gen_node[d], n, l)
      /\ StmtCode(gen_expr[d], gen_node[d], n, m) = gen_while(gen_expr[d], gen_node[d], n, m)
  BY <1>1 DEF StmtCode
<1>9. /\ gen_while(gen_expr[d], gen_node[d], n, l) = Emitted(gen_loop(c, t.ir, l, n.line), t.next_label)
      /\ gen_while(gen_expr[d], gen_node[d], n, m) = Emitted(gen_loop(c, u.ir, m, n.line), u.next_label)
  BY <1>3, <1>4 DEF gen_while
<1> HIDE DEF c, t, u
<1>10. Shifted(gen_loop(c, t.ir, l, n.line), gen_loop(c, u.ir, m, n.line), k)
  BY <1>1, <1>2, <1>7, LoopMoves
<1> QED
  BY <1>7, <1>8, <1>9, <1>10, EmittedMoves DEF NodeMoves

\* ... a for its two, its initialisation and its body,
LEMMA ForMoves ==
  ASSUME NEW d \in Depths, NodesMove(d), NEW l \in Nat, NEW k \in Nat, NEW m \in Nat, m = l + k,
         NEW n, n \in Shape("FOR", {""}, Seq(StmtNodes[d]), One(ExprNodes[d]), Seq(StmtNodes[d]))
  PROVE  NodeMoves(d, n, l, m, k)
<1>1. /\ n.type = "FOR" /\ n.line \in Nat /\ n.right \in One(ExprNodes[d])
      /\ n.left \in Seq(StmtNodes[d]) /\ n.third \in Seq(StmtNodes[d])
  BY DEF Shape
<1> DEFINE c == gen_expr[d][n.right[1]]
<1>2. Straight(c)
  BY <1>1, OneIs, ExpressionsAreStraight
<1>3. PICK l2 \in Nat : l2 = l + 2
  BY ONLY l \in Nat
<1>4. PICK m2 \in Nat : m2 = m + 2
  BY ONLY m \in Nat
<1>5. m2 = l2 + k
  BY ONLY <1>3, <1>4, m = l + k, l \in Nat, k \in Nat, m \in Nat
<1> DEFINE t == gen_stmt(gen_node[d], n.left, l2)
           u == gen_stmt(gen_node[d], n.left, m2)
           v == gen_stmt(gen_node[d], n.third, t.next_label)
           w == gen_stmt(gen_node[d], n.third, u.next_label)
<1>6. Moves(t, u, k)
  BY <1>1, <1>5, NextListMoves
<1>7. t.next_label \in Nat /\ u.next_label = t.next_label + k /\ Shifted(t.ir, u.ir, k)
  BY <1>6 DEF Moves
<1>8. u.next_label \in Nat
  BY ONLY <1>7, k \in Nat
<1>9. Moves(v, w, k)
  BY <1>1, <1>7, <1>8, NextListMoves
<1>10. v.next_label \in Nat /\ w.next_label = v.next_label + k /\ Shifted(v.ir, w.ir, k)
  BY <1>9 DEF Moves
<1>11. /\ StmtCode(gen_expr[d], gen_node[d], n, l) = gen_for(gen_expr[d], gen_node[d], n, l)
       /\ StmtCode(gen_expr[d], gen_node[d], n, m) = gen_for(gen_expr[d], gen_node[d], n, m)
  BY <1>1 DEF StmtCode
<1>12. /\ gen_for(gen_expr[d], gen_node[d], n, l) =
             Emitted(t.ir \o gen_loop(c, v.ir, l, n.line), v.next_label)
       /\ gen_for(gen_expr[d], gen_node[d], n, m) =
             Emitted(u.ir \o gen_loop(c, w.ir, m, n.line), w.next_label)
  BY <1>3, <1>4 DEF gen_for
<1> HIDE DEF c, t, u, v, w
<1>13. Shifted(gen_loop(c, v.ir, l, n.line), gen_loop(c, w.ir, m, n.line), k)
  BY <1>1, <1>2, <1>10, LoopMoves
<1>14. Shifted(t.ir \o gen_loop(c, v.ir, l, n.line), u.ir \o gen_loop(c, w.ir, m, n.line), k)
  BY ONLY <1>7, <1>13, ShiftedBoth, k \in Nat
<1> QED
  BY <1>10, <1>11, <1>12, <1>14, EmittedMoves DEF NodeMoves

\* ... and a block its statements.
LEMMA BlockMoves ==
  ASSUME NEW d \in Depths, NodesMove(d), NEW l \in Nat, NEW k \in Nat, NEW m \in Nat, m = l + k,
         NEW n, n \in Shape("BLOCK", {""}, Seq(StmtNodes[d]), {NULL}, {NULL})
  PROVE  NodeMoves(d, n, l, m, k)
<1>1. n.type = "BLOCK" /\ n.left \in Seq(StmtNodes[d])
  BY DEF Shape
<1>2. \A j : StmtCode(gen_expr[d], gen_node[d], n, j) = gen_stmt(gen_node[d], n.left, j)
  BY <1>1 DEF StmtCode
<1> QED
  BY <1>1, <1>2, NextListMoves DEF NodeMoves

\* The code of every tree moves with the counter.
LEMMA AllNodesMove ==
  ASSUME NEW d \in Depths PROVE NodesMove(d)
<1> DEFINE S == {j \in Depths : NodesMove(j)}
<1>1. 0 \in S
  BY NothingAtZero DEF NodesMove
<1>2. ASSUME NEW j \in Depths \ {0}, j - 1 \in Depths, j - 1 \in S PROVE j \in S
  <2>1. PICK b \in Depths : b = j - 1
    BY <1>2
  <2>2. NodesMove(b) /\ StmtNodes[j] = StmtNode(ExprNodes[b], StmtNodes[b])
    BY <1>2, <2>1, ExprNodesOf
  <2>3. ASSUME NEW n \in StmtNodes[j], NEW l \in Nat, NEW k \in Nat
        PROVE  Moves(gen_node[j][n][l], gen_node[j][n][l + k], k)
    <3>1. PICK m \in Nat : m = l + k
      OBVIOUS
    <3>2. /\ gen_node[j][n][l] = StmtCode(gen_expr[b], gen_node[b], n, l)
          /\ gen_node[j][n][m] = StmtCode(gen_expr[b], gen_node[b], n, m)
      BY <2>1, GenNodeIs
    <3>3. \/ n \in Shape("VAR_DECL", {""}, Optional(ExprNodes[b]), {NULL}, {NULL})
          \/ n \in Shape("ASSIGN", {""}, One({x \in ExprNodes[b] : x.type = "IDENT"}),
                         One(ExprNodes[b]), {NULL})
          \/ n \in Shape("BLOCK", {""}, Seq(StmtNodes[b]), {NULL}, {NULL})
          \/ n \in Shape("IF", {""}, One(ExprNodes[b]), Seq(StmtNodes[b]), Seq(StmtNodes[b]))
          \/ n \in Shape("WHILE", {""}, One(ExprNodes[b]), Seq(StmtNodes[b]), {NULL})
          \/ n \in Shape("FOR", {""}, Seq(StmtNodes[b]), One(ExprNodes[b]), Seq(StmtNodes[b]))
      BY <2>2 DEF StmtNode
    <3>4. NodeMoves(b, n, l, m, k)
      BY <2>2, <3>1, <3>3, SimpleMoves, BlockMoves, IfMoves, WhileMoves, ForMoves
    <3> QED
      BY <3>1, <3>2, <3>4 DEF NodeMoves
  <2> QED
    BY <2>3 DEF NodesMove
<1> HIDE DEF S
<1>3. Depths \subseteq S
  BY <1>1, <1>2, DepthInduction
<1> QED
  BY <1>3 DEF S

(***************************************************************************)
(* Resolving the labels of code that has been moved.                       *)
(***************************************************************************)

\* The labels have moved and nothing else, so the jumps go where they went.
LEMMA MovedTarget ==
  ASSUME NEW a, NEW b, NEW k \in Nat, Linkable(a), Linkable(b), Shifted(a, b, k),
         NEW i \in DOMAIN a, IsJump(a[i])
  PROVE  /\ a[i].value \in LabelIds(a) /\ b[i].value \in LabelIds(b)
         /\ label_map(b)[b[i].value] = label_map(a)[a[i].value]
<1>1. /\ DOMAIN a = 1 .. Len(a) /\ DOMAIN b = 1 .. Len(a) /\ Len(a) \in Nat /\ Len(b) = Len(a)
      /\ \A j \in 1 .. Len(a) : a[j] \in IRInstr /\ b[j] \in IRInstr /\ b[j] = Moved(a[j], k)
  BY DEF Shifted
<1>2. ASSUME NEW j \in 1 .. Len(a)
      PROVE  /\ b[j].op = a[j].op
             /\ IsLabel(a[j]) \/ IsJump(a[j]) => b[j].value = a[j].value + k
  BY <1>1 DEF Moved, IRInstr
<1>3. IsJump(b[i])
  BY <1>1, <1>2 DEF IsJump
<1>4. a[i].value \in LabelIds(a) /\ b[i].value \in LabelIds(b)
  BY <1>1, <1>3 DEF Linkable
<1> DEFINE s == label_map(a)[a[i].value]
           t == label_map(b)[b[i].value]
<1>5. s \in 0 .. Len(a) - 1 /\ IsLabel(a[s + 1]) /\ a[s + 1].value = a[i].value
  BY <1>4, LabelMap
<1>6. t \in 0 .. Len(a) - 1 /\ IsLabel(b[t + 1]) /\ b[t + 1].value = b[i].value
  BY <1>1, <1>4, LabelMap
<1> HIDE DEF s, t
<1>7. PICK x \in 1 .. Len(a) : x = s + 1
  BY <1>1, <1>5
<1>8. PICK y \in 1 .. Len(a) : y = t + 1
  BY <1>1, <1>6
<1>9. IsLabel(b[x]) /\ b[x].value = a[x].value + k /\ b[i].value = a[i].value + k
  BY <1>1, <1>2, <1>5, <1>7 DEF IsLabel
<1>10. b[x].value = b[y].value
  BY <1>5, <1>6, <1>7, <1>8, <1>9
<1>11. x = y
  BY <1>1, <1>6, <1>8, <1>9, <1>10 DEF Linkable
<1>12. s = t
  BY <1>5, <1>6, <1>7, <1>8, <1>11
<1> QED
  BY <1>4, <1>12 DEF s, t

\* Linked, code that was moved is the same but for the numbers of its labels.
LEMMA MovedCodeIsSame ==
  ASSUME NEW a, NEW b, NEW k \in Nat, Linkable(a), Linkable(b), Shifted(a, b, k)
  PROVE  SameCode(ir_resolve_labels(b), ir_resolve_labels(a))
<1> DEFINE c == ir_resolve_labels(a)
           d == ir_resolve_labels(b)
<1>1. /\ DOMAIN a = 1 .. Len(a) /\ DOMAIN b = 1 .. Len(a) /\ Len(a) \in Nat /\ Len(b) = Len(a)
      /\ \A j \in 1 .. Len(a) : a[j] \in IRInstr /\ b[j] \in IRInstr /\ b[j] = Moved(a[j], k)
  BY DEF Shifted
<1>2. /\ Linked(c) /\ Linked(d)
      /\ DOMAIN c = DOMAIN a /\ DOMAIN d = DOMAIN b
  BY ResolvedCodeIsLinked, JumpsReachTheirLabels
<1>3. Len(d) = Len(c) /\ DOMAIN d = 1 .. Len(a)
  BY <1>1, <1>2 DEF Linked
<1>4. ASSUME NEW i \in 1 .. Len(a)
      PROVE  IF IsLabel(d[i]) THEN IsLabel(c[i]) /\ d[i].line = c[i].line ELSE d[i] = c[i]
  <2>1. a[i] \in IRInstr /\ b[i] = Moved(a[i], k)
    BY <1>1
  <2>2. CASE IsJump(a[i])
    <3>1. b[i] = [a[i] EXCEPT !.value = @ + k]
      BY <2>1, <2>2 DEF Moved
    <3>2. IsJump(b[i]) /\ ~ IsLabel(b[i])
      BY <2>1, <2>2, <3>1 DEF IsJump, IsLabel, IRInstr
    <3>3. PICK t : t = label_map(a)[a[i].value]
      OBVIOUS
    <3>4. /\ a[i].value \in LabelIds(a) /\ b[i].value \in LabelIds(b)
          /\ label_map(b)[b[i].value] = t
      BY <1>1, <2>2, <3>3, MovedTarget
    <3>5. c[i] = [a[i] EXCEPT !.value = t]
      BY <1>1, <2>2, <3>3, <3>4 DEF ir_resolve_labels
    <3>6. d[i] = [b[i] EXCEPT !.value = t]
      BY <1>1, <3>2, <3>4 DEF ir_resolve_labels
    <3>7. c[i] = d[i]
      BY <2>1, <3>1, <3>5, <3>6 DEF IRInstr
    <3>8. ~ IsLabel(d[i])
      BY <2>1, <3>1, <3>2, <3>6 DEF IsLabel, IRInstr
    <3> QED
      BY <3>7, <3>8
  <2>3. CASE ~ IsJump(a[i])
    <3>1. c[i] = a[i]
      BY <1>1, <2>3 DEF ir_resolve_labels
    <3>2. b[i].op = a[i].op /\ b[i].line = a[i].line
      BY <2>1 DEF Moved, IRInstr
    <3>3. d[i] = b[i]
      BY <1>1, <2>3, <3>2 DEF ir_resolve_labels, IsJump
    <3>4. CASE IsLabel(a[i])
      BY <3>1, <3>2, <3>3, <3>4 DEF IsLabel
    <3>5. CASE ~ IsLabel(a[i])
      <4>1. b[i] = a[i]
        BY <2>1, <2>3, <3>5 DEF Moved
      <4> QED
        BY <3>1, <3>3, <3>5, <4>1
    <3> QED
      BY <3>4, <3>5
  <2> QED
    BY <2>2, <2>3
<1> HIDE DEF c, d
<1>5. SameCode(d, c)
  BY <1>3, <1>4 DEF SameCode
<1> QED
  BY <1>5 DEF c, d

(***************************************************************************)
(* Files.                                                                  *)
(***************************************************************************)

\* The code of a file, whatever the counter of labels was
LEMMA FileCodeIsSame ==
  ASSUME NEW stmts \in Seq(FileStatements), stmts # << >>, NEW l \in Nat
  PROVE  SameCode(Code(program(stmts, LastLine), l), Code(program(stmts, LastLine), 0))
<1> DEFINE a == FileIr(stmts, 0)
           b == FileIr(stmts, l)
           nodes == FileNodes(stmts)
           k == MAX_DEPTH - 1
<1>1. k \in Depths /\ nodes \in Seq(StmtNodes[k])
  BY FileDepth, FileIsGood DEF GoodList
<1>2. a = gen_stmt(gen_node[k], nodes, 0) /\ b = gen_stmt(gen_node[k], nodes, l)
  BY FileIrIs
<1>3. 0 \in Nat /\ l = 0 + l
  OBVIOUS
<1>4. NodesMove(k)
  BY <1>1, AllNodesMove
<1> HIDE DEF a, b, nodes, k
<1>5. Moves(a, b, l)
  BY <1>1, <1>2, <1>3, <1>4, NextListMoves
<1>6. Closed(a.ir, 0, a.next_label, Reach(NeedsOf(stmts))) /\ Closed(b.ir, l, b.next_label, Reach(NeedsOf(stmts)))
  BY <1>3, FileIrIsClosed DEF a, b
<1>7. Linkable(a.ir) /\ Linkable(b.ir)
  BY <1>6, PieceIsLinkable DEF Closed
<1>8. SameCode(ir_resolve_labels(b.ir), ir_resolve_labels(a.ir))
  BY <1>5, <1>7, MovedCodeIsSame DEF Moves
<1> QED
  BY <1>8 DEF Code, FileIr, a, b

\* With a fresh scanner a compilation gives the file's own verdict and code.
LEMMA FreshCompilation ==
  ASSUME ScannerInv, next_label \in Nat, ScannerIsFresh, NEW f \in FilesAfter(file), compile_program(f)
  PROVE  /\ result'.ok = Correct(f)
         /\ result'.ok => SameCode(result'.ir, FileCode(f))
<1> DEFINE root == program(f, LastLine)
<1>1. f \in Files /\ f \in Seq(Pieces)
  BY CompileParses, FilesAreSequences
<1>2. Content(f) = f
  BY <1>1 DEF Content, ScannerIsFresh
<1>3. CASE SyntaxFails(f)
  <2>1. ErrorsIn(f) # {} /\ result' = NoCode
    BY <1>2, <1>3 DEF SyntaxFails, Rejects
  <2>2. NoCode.ok = FALSE
    BY DEF NoCode
  <2>3. Correct(f) = FALSE
    BY <2>1, Zenon DEF Correct
  <2>4. result'.ok = FALSE
    BY ONLY <2>1, <2>2, Zenon
  <2> QED
    BY ONLY <2>3, <2>4, Zenon
<1>4. CASE Parsed(f)
  <2>1. Accepts(f) /\ (EmptyFails(root) \/ SemanticFails(root) \/ Succeeds(root))
    BY <1>2, <1>4 DEF Parsed
  <2>2. ErrorsIn(f) = {} /\ f \in Seq(FileStatements)
    BY <1>1, <1>2, <2>1, AcceptedStatements DEF Accepts
  <2>3. /\ result'.ok <=> root # NULL /\ ~ semantic_analysis(symtab, root).error
        /\ result'.ok \in BOOLEAN
    BY <2>1, VerdictIs
  <2>4. semantic_analysis(symtab, root) = semantic_analysis({}, root)
    BY DEF semantic_analysis, semantic_reset
  <2>5. Correct(f) <=> root # NULL /\ ~ semantic_analysis({}, root).error
    BY <2>2, Zenon DEF Correct, Compiles
  <2>6. result'.ok <=> Correct(f)
    BY ONLY <2>3, <2>4, <2>5, Zenon
  <2>7. ASSUME result'.ok PROVE SameCode(result'.ir, FileCode(f))
    <3>1. root # NULL /\ Succeeds(root)
      BY <2>1, <2>3, <2>7 DEF EmptyFails, SemanticFails, Succeeds, NoCode
    <3>2. f # << >>
      BY <3>1 DEF program
    <3>3. result' = [ok |-> TRUE, ir |-> Code(root, next_label)]
      BY <3>1 DEF Succeeds, Code
    <3>4. result'.ir = Code(root, next_label)
      BY <3>3
    <3> QED
      BY <2>2, <3>2, <3>4, FileCodeIsSame DEF FileCode
  <2> QED
    BY ONLY <2>3, <2>6, <2>7, Zenon DEF Correct
<1> QED
  BY <1>3, <1>4 DEF compile_program

\* HistoryDoesNotShow, for every source of any depth and every counter of
\* labels: what was compiled or rejected before does not show, unless the
\* scanner kept something of it (semantic_reset, new_label, ir_resolve_labels).
THEOREM SessionsForgetTheirHistory == SessionSpec => HistoryDoesNotShow
<1>1. SessionInv => [\A f \in FilesAfter(file) :
                       file' = f /\ compile_program(f) /\ ScannerIsFresh =>
                         /\ result'.ok = Correct(f)
                         /\ result'.ok => SameCode(result'.ir, FileCode(f))]_vars
  BY FreshCompilation DEF SessionInv
<1> QED
  BY <1>1, SessionsAreSafe, PTL DEF HistoryDoesNotShow
===============================================================================
