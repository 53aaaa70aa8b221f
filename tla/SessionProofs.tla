----------------------------- MODULE SessionProofs -----------------------------
(***************************************************************************)
(* Proofs about what a session keeps besides its programs: the history,    *)
(* for every number of shells that share the file, the start on a          *)
(* terminal, whatever the user of the login shell does meanwhile, and the  *)
(* vector of jobs, for every number of jobs.                               *)
(***************************************************************************)
EXTENDS History, TerminalStartup, JobTable, SequenceTheorems, TLAPS

(***************************************************************************)
(* Subsequences.                                                           *)
(***************************************************************************)

LEMMA EmptyIsSub ==
  ASSUME NEW t PROVE IsSubsequence(<< >>, t)
<1>1. [i \in {} |-> 1] \in [DOMAIN << >> -> DOMAIN t]
  OBVIOUS
<1> QED
  BY <1>1 DEF IsSubsequence

\* A beginning of t, t itself included
LEMMA PrefixIsSub ==
  ASSUME NEW S, NEW s \in Seq(S), NEW t \in Seq(S), Len(s) <= Len(t),
         \A i \in DOMAIN s : s[i] = t[i]
  PROVE  IsSubsequence(s, t)
<1> DEFINE up == [i \in DOMAIN s |-> i]
<1>1. up \in [DOMAIN s -> DOMAIN t]
  OBVIOUS
<1>2. \A i, j \in DOMAIN s : i < j => up[i] < up[j]
  OBVIOUS
<1>3. \A i \in DOMAIN s : s[i] = t[up[i]]
  OBVIOUS
<1> HIDE DEF up
<1> QED
  BY <1>1, <1>2, <1>3 DEF IsSubsequence

\* What is recorded stays recorded when the file grows.
LEMMA SubOfLonger ==
  ASSUME NEW S, NEW s \in Seq(S), NEW t \in Seq(S), NEW e \in S, IsSubsequence(s, t)
  PROVE  IsSubsequence(s, Append(t, e))
<1>1. PICK up \in [DOMAIN s -> DOMAIN t] :
        /\ \A i, j \in DOMAIN s : i < j => up[i] < up[j]
        /\ \A i \in DOMAIN s : s[i] = t[up[i]]
  BY DEF IsSubsequence
<1>2. /\ \A k \in DOMAIN t : k \in DOMAIN Append(t, e) /\ Append(t, e)[k] = t[k]
  OBVIOUS
<1>3. up \in [DOMAIN s -> DOMAIN Append(t, e)]
  BY <1>1, <1>2
<1>4. \A i \in DOMAIN s : s[i] = Append(t, e)[up[i]]
  BY <1>1, <1>2
<1> QED
  BY <1>1, <1>3, <1>4 DEF IsSubsequence

LEMMA SubOfBoth ==
  ASSUME NEW S, NEW s \in Seq(S), NEW t \in Seq(S), NEW e \in S, IsSubsequence(s, t)
  PROVE  IsSubsequence(Append(s, e), Append(t, e))
<1>1. PICK up \in [DOMAIN s -> DOMAIN t] :
        /\ \A i, j \in DOMAIN s : i < j => up[i] < up[j]
        /\ \A i \in DOMAIN s : s[i] = t[up[i]]
  BY DEF IsSubsequence
<1> DEFINE r == Append(s, e)
           u == Append(t, e)
           m == Len(s) + 1
           n == Len(t) + 1
           to == [i \in DOMAIN r |-> IF i = m THEN n ELSE up[i]]
<1>2. /\ DOMAIN s = 1 .. Len(s) /\ DOMAIN t = 1 .. Len(t)
      /\ m \in Nat /\ n \in Nat /\ Len(s) \in Nat /\ Len(t) \in Nat
      /\ DOMAIN r = 1 .. m /\ DOMAIN u = 1 .. n
      /\ r[m] = e /\ u[n] = e
      /\ \A i \in DOMAIN s : r[i] = s[i]
      /\ \A k \in DOMAIN t : u[k] = t[k]
  OBVIOUS
<1> HIDE DEF r, u, m, n
<1> USE DEF m, n
<1>3. \A i \in DOMAIN r : i # m => i \in DOMAIN s
  BY <1>2
<1>4. \A i \in DOMAIN r : to[i] = IF i = m THEN n ELSE up[i]
  OBVIOUS
<1>5. to \in [DOMAIN r -> DOMAIN u]
  BY <1>1, <1>2, <1>3
<1>6. \A i, j \in DOMAIN r : i < j => to[i] < to[j]
  <2> SUFFICES ASSUME NEW i \in DOMAIN r, NEW j \in DOMAIN r, i < j PROVE to[i] < to[j]
    OBVIOUS
  <2>1. i \in DOMAIN s
    BY <1>2
  <2>2. to[i] = up[i] /\ up[i] \in 1 .. Len(t)
    BY <1>1, <1>2, <2>1
  <2>3. CASE j = m
    BY <1>2, <1>4, <2>2, <2>3
  <2>4. CASE j # m
    BY <1>1, <1>3, <1>4, <2>1, <2>2, <2>4
  <2> QED
    BY <2>3, <2>4
<1>7. \A i \in DOMAIN r : r[i] = u[to[i]]
  BY <1>1, <1>2, <1>3, <1>4
<1> HIDE DEF to
<1> QED
  BY <1>5, <1>6, <1>7 DEF IsSubsequence, r, u

\* All but the last element
LEMMA Fronts ==
  ASSUME NEW S, NEW h \in Seq(S)
  PROVE  /\ SubSeq(h, 1, Len(h)) = h
         /\ \A e \in S : SubSeq(Append(h, e), 1, Len(Append(h, e)) - 1) = h
         /\ h # << >> => /\ SubSeq(h, 1, Len(h) - 1) \in Seq(S)
                        /\ h[Len(h)] \in S
                        /\ Append(SubSeq(h, 1, Len(h) - 1), h[Len(h)]) = h
<1>1. SubSeq(h, 1, Len(h)) = h
  OBVIOUS
<1>2. ASSUME NEW e \in S PROVE SubSeq(Append(h, e), 1, Len(Append(h, e)) - 1) = h
  <2>1. Append(h, e) \in Seq(S) /\ Len(Append(h, e)) = Len(h) + 1 /\ Len(h) \in Nat
    OBVIOUS
  <2>2. Len(Append(h, e)) - 1 = Len(h)
    BY <2>1
  <2>3. SubSeq(Append(h, e), 1, Len(h)) = h
    OBVIOUS
  <2> QED
    BY <2>2, <2>3
<1>3. ASSUME h # << >>
      PROVE  /\ SubSeq(h, 1, Len(h) - 1) \in Seq(S)
             /\ h[Len(h)] \in S
             /\ Append(SubSeq(h, 1, Len(h) - 1), h[Len(h)]) = h
  <2>1. Len(h) \in Nat \ {0}
    BY <1>3
  <2>2. SubSeq(h, 1, Len(h) - 1) \in Seq(S) /\ Len(SubSeq(h, 1, Len(h) - 1)) = Len(h) - 1
    <3>1. PICK k \in Nat : Len(h) = k + 1
      <4>1. ASSUME NEW n \in Nat \ {0} PROVE n - 1 \in Nat /\ n = n - 1 + 1
        BY <4>1
      <4> QED
        BY <2>1, <4>1
    <3>2. Len(h) - 1 = k /\ \A i \in 1 .. k : h[i] \in S
      BY <3>1
    <3>3. SubSeq(h, 1, k) \in Seq(S) /\ Len(SubSeq(h, 1, k)) = IF 1 <= k THEN k - 1 + 1 ELSE 0
      BY <3>2, SubSeqProperties
    <3> QED
      BY <3>2, <3>3
  <2>3. h[Len(h)] \in S
    BY <2>1
  <2> QED
    BY <2>1, <2>2, <2>3
<1> QED
  BY <1>1, <1>2, <1>3

(***************************************************************************)
(* The history.                                                            *)
(***************************************************************************)

TypeOK ==
  /\ file \in Seq(Lines)
  /\ history \in [Shells -> Seq(Lines)]
  /\ at \in [Shells -> {"off", "load", "prompt", "append", "run"}]
  /\ missed \in BOOLEAN

\* While the file is loaded the vector is a beginning of it, and there is a line to
\* append when one is appended.
Place(s) ==
  /\ at[s] = "off" => history[s] = << >>
  /\ at[s] = "load" => /\ Len(history[s]) <= Len(file)
                       /\ \A i \in DOMAIN history[s] : history[s][i] = file[i]
  /\ at[s] = "append" => history[s] # << >>

Kept(s) == ~ missed => IsSubsequence(Recorded(s), file)

IInv == TypeOK /\ \A s \in Shells : Place(s) /\ Kept(s)

\* What is recorded of a vector
LEMMA RecordedIs ==
  ASSUME TypeOK, NEW s \in Shells
  PROVE  /\ at[s] # "append" => Recorded(s) = history[s]
         /\ at[s] = "append" => Recorded(s) = SubSeq(history[s], 1, Len(history[s]) - 1)
<1>1. history[s] \in Seq(Lines) /\ Len(history[s]) \in Nat
  BY DEF TypeOK
<1>2. Len(history[s]) - 0 = Len(history[s])
  BY <1>1
<1> QED
  BY <1>1, <1>2, Fronts DEF Recorded

\* A step of one shell leaves the vectors of the others alone.
LEMMA OthersKeep ==
  ASSUME IInv, NEW s \in Shells, history'[s] = history[s], at'[s] = at[s],
         UNCHANGED <<file, missed>>
  PROVE  Place(s)' /\ Kept(s)'
BY DEF IInv, Place, Kept, Recorded

LEMMA TypeStep ==
  ASSUME IInv, [Next]_vars
  PROVE  TypeOK'
<1>1. ASSUME NEW s \in Shells, Start(s) \/ Unreadable(s) \/ LoadEnd(s) \/ Return(s) \/ End(s)
      PROVE  TypeOK'
  <2>1. << >> \in Seq(Lines)
    OBVIOUS
  <2>2. CASE Start(s) \/ Unreadable(s) \/ LoadEnd(s) \/ Return(s)
    BY <2>2 DEF IInv, TypeOK, Start, Unreadable, LoadEnd, Return, Goes
  <2>3. CASE End(s)
    BY <2>1, <2>3 DEF IInv, TypeOK, End
  <2> QED
    BY <1>1, <2>2, <2>3
<1>2. ASSUME NEW s \in Shells, NEW line \in Lines, Remembers(s, line) PROVE history' \in [Shells -> Seq(Lines)]
  <2>1. Append(history[s], line) \in Seq(Lines)
    BY DEF IInv, TypeOK
  <2>2. history' = [history EXCEPT ![s] = Append(history[s], line)]
    BY <1>2 DEF Remembers
  <2> QED
    BY <2>1, <2>2 DEF IInv, TypeOK
<1>3. ASSUME NEW s \in Shells, LoadLine(s) PROVE TypeOK'
  <2>1. file \in Seq(Lines) /\ history[s] \in Seq(Lines) /\ Len(history[s]) < Len(file)
    BY <1>3 DEF IInv, TypeOK, LoadLine
  <2>2. file[Len(history[s]) + 1] \in Lines
    BY <2>1
  <2> QED
    BY <1>2, <1>3, <2>2 DEF IInv, TypeOK, LoadLine
<1>4. ASSUME NEW s \in Shells, Type(s) PROVE TypeOK'
  <2>1. history' \in [Shells -> Seq(Lines)]
    BY <1>2, <1>4 DEF Type
  <2> QED
    BY <1>4, <2>1 DEF IInv, TypeOK, Type, Goes
<1>5. ASSUME NEW s \in Shells, append_history_line(s) PROVE TypeOK'
  <2>1. history[s] \in Seq(Lines) /\ history[s] # << >>
    BY <1>5 DEF IInv, TypeOK, Place, append_history_line, Goes
  <2>2. history[s][Len(history[s])] \in Lines
    BY <2>1
  <2>3. file \in Seq(Lines) /\ Append(file, history[s][Len(history[s])]) \in Seq(Lines)
    BY <2>2 DEF IInv, TypeOK
  <2>4. file' \in Seq(Lines)
    BY <1>5, <2>3 DEF append_history_line, Appended
  <2>5. missed' \in BOOLEAN
    BY <1>5 DEF append_history_line
  <2> QED
    BY <1>5, <2>4, <2>5 DEF IInv, TypeOK, append_history_line, Goes
<1>6. CASE Permission \/ UNCHANGED vars
  BY <1>6 DEF IInv, TypeOK, Permission, vars
<1> QED
  BY <1>1, <1>3, <1>4, <1>5, <1>6 DEF Next

\* The recorded part of a vector, in the next state
LEMMA RecordedNext ==
  ASSUME TypeOK', NEW s \in Shells
  PROVE  /\ at'[s] # "append" => Recorded(s)' = history'[s]
         /\ at'[s] = "append" => Recorded(s)' = SubSeq(history'[s], 1, Len(history'[s]) - 1)
<1>1. history'[s] \in Seq(Lines) /\ Len(history'[s]) \in Nat
  BY DEF TypeOK
<1>2. Len(history'[s]) - 0 = Len(history'[s])
  BY <1>1
<1> QED
  BY <1>1, <1>2, Fronts DEF Recorded

\* Steps of one shell that leave file and missed alone
LEMMA OneShell ==
  ASSUME IInv, NEW s \in Shells, UNCHANGED <<file, missed>>,
         \E place, vector : /\ at' = [at EXCEPT ![s] = place]
                            /\ history' = [history EXCEPT ![s] = vector],
         Place(s)' /\ Kept(s)'
  PROVE  \A t \in Shells : Place(t)' /\ Kept(t)'
<1> SUFFICES ASSUME NEW t \in Shells, t # s PROVE Place(t)' /\ Kept(t)'
  OBVIOUS
<1>1. history'[t] = history[t] /\ at'[t] = at[t]
  BY DEF IInv, TypeOK
<1> QED
  BY <1>1, OthersKeep

LEMMA StartStep ==
  ASSUME IInv, TypeOK', NEW s \in Shells, Start(s)
  PROVE  \A t \in Shells : Place(t)' /\ Kept(t)'
<1>1. at' = [at EXCEPT ![s] = "load"] /\ history' = [history EXCEPT ![s] = history[s]]
  BY DEF IInv, TypeOK, Start, Goes
<1>2. at'[s] = "load" /\ history'[s] = << >>
  BY DEF IInv, TypeOK, Place, Start, Goes
<1>3. Place(s)'
  <2>1. Len(<< >>) <= Len(file') /\ DOMAIN << >> = {}
    BY DEF TypeOK
  <2> QED
    BY <1>2, <2>1 DEF Place
<1>4. Kept(s)'
  BY <1>2, RecordedNext, EmptyIsSub DEF Kept
<1> QED
  BY <1>1, <1>3, <1>4, OneShell DEF Start

LEMMA LoadStep ==
  ASSUME IInv, TypeOK', NEW s \in Shells, LoadLine(s)
  PROVE  \A t \in Shells : Place(t)' /\ Kept(t)'
<1> DEFINE h == history[s]
           line == file[Len(history[s]) + 1]
<1>1. at' = [at EXCEPT ![s] = at[s]] /\ history' = [history EXCEPT ![s] = Append(h, line)]
  BY DEF IInv, TypeOK, LoadLine, Remembers
<1>2. h \in Seq(Lines) /\ file \in Seq(Lines) /\ Len(h) < Len(file) /\ at[s] = "load"
  BY DEF IInv, TypeOK, LoadLine
<1>3. line \in Lines
  BY <1>2
<1>4. at'[s] = "load" /\ history'[s] = Append(h, line)
  BY <1>1, <1>2 DEF IInv, TypeOK
<1>5. \A i \in DOMAIN h : h[i] = file[i]
  BY <1>2 DEF IInv, Place
<1>6. /\ Append(h, line) \in Seq(Lines)
      /\ Len(Append(h, line)) <= Len(file)
      /\ \A i \in DOMAIN Append(h, line) : Append(h, line)[i] = file[i]
  <2> HIDE DEF h
  <2>1. /\ Append(h, line) \in Seq(Lines) /\ Len(h) \in Nat /\ Len(file) \in Nat
        /\ Len(Append(h, line)) = Len(h) + 1 /\ DOMAIN h = 1 .. Len(h)
        /\ DOMAIN Append(h, line) = 1 .. Len(h) + 1
    BY <1>2, <1>3
  <2>2. \A i \in 1 .. Len(h) : Append(h, line)[i] = h[i]
    BY <1>2, <1>3
  <2>3. Append(h, line)[Len(h) + 1] = file[Len(h) + 1]
    BY <1>2, <1>3 DEF h
  <2> QED
    BY <1>2, <1>5, <2>1, <2>2, <2>3
<1> HIDE DEF h, line
<1>7. file' = file /\ missed' = missed
  BY DEF LoadLine
<1>8. Place(s)'
  BY <1>4, <1>6, <1>7 DEF Place
<1>9. Kept(s)'
  BY <1>2, <1>4, <1>6, <1>7, RecordedNext, PrefixIsSub DEF Kept
<1> QED
  BY <1>1, <1>7, <1>8, <1>9, OneShell

LEMMA MoveStep ==
  ASSUME IInv, TypeOK', NEW s \in Shells, Unreadable(s) \/ LoadEnd(s) \/ Return(s)
  PROVE  \A t \in Shells : Place(t)' /\ Kept(t)'
<1>1. at' = [at EXCEPT ![s] = "prompt"] /\ history' = [history EXCEPT ![s] = history[s]]
  BY DEF IInv, TypeOK, Unreadable, LoadEnd, Return, Goes
<1>2. at[s] # "append" /\ at'[s] = "prompt" /\ history'[s] = history[s]
  BY DEF IInv, TypeOK, Unreadable, LoadEnd, Return, Goes
<1>3. file' = file /\ missed' = missed
  BY DEF Unreadable, LoadEnd, Return
<1>4. Place(s)'
  BY <1>2 DEF Place
<1>5. Recorded(s)' = Recorded(s)
  BY <1>2, RecordedNext, RecordedIs DEF IInv
<1>6. Kept(s)'
  BY <1>3, <1>5 DEF IInv, Kept
<1> QED
  BY <1>1, <1>3, <1>4, <1>6, OneShell

LEMMA TypeLine ==
  ASSUME IInv, TypeOK', NEW s \in Shells, Type(s)
  PROVE  \A t \in Shells : Place(t)' /\ Kept(t)'
<1>1. PICK line \in Lines : Remembers(s, line)
  BY DEF Type
<1>2. /\ at' = [at EXCEPT ![s] = "append"]
      /\ history' = [history EXCEPT ![s] = Append(history[s], line)]
      /\ file' = file /\ missed' = missed /\ at[s] = "prompt"
  BY <1>1 DEF Type, Goes, Remembers
<1>3. at'[s] = "append" /\ history'[s] = Append(history[s], line) /\ history[s] \in Seq(Lines)
  BY <1>2 DEF IInv, TypeOK
<1>4. Place(s)'
  <2>1. Append(history[s], line) # << >>
    BY <1>3
  <2> QED
    BY <1>3, <2>1 DEF Place
<1>5. Recorded(s)' = history[s]
  <2>1. Recorded(s)' = SubSeq(Append(history[s], line), 1, Len(Append(history[s], line)) - 1)
    BY <1>3, RecordedNext
  <2> QED
    BY <1>3, <2>1, Fronts
<1>6. Recorded(s) = history[s]
  BY <1>2, RecordedIs DEF IInv
<1>7. Kept(s)'
  BY <1>2, <1>5, <1>6 DEF IInv, Kept
<1> QED
  BY <1>2, <1>4, <1>7, OneShell

\* The file grows by what the vector ends with; for the others it only grows.
LEMMA AppendStep ==
  ASSUME IInv, TypeOK', NEW s \in Shells, append_history_line(s)
  PROVE  \A t \in Shells : Place(t)' /\ Kept(t)'
<1> DEFINE h == history[s]
           front == SubSeq(h, 1, Len(h) - 1)
           line == h[Len(h)]
<1>1. h \in Seq(Lines) /\ h # << >> /\ at[s] = "append" /\ file \in Seq(Lines)
  BY DEF IInv, TypeOK, Place, append_history_line, Goes
<1>2. front \in Seq(Lines) /\ line \in Lines /\ Append(front, line) = h
  BY <1>1, Fronts
<1>3. /\ history' = history /\ at' = [at EXCEPT ![s] = "run"]
      /\ missed' = (missed \/ ~ writable)
      /\ writable => file' = Append(file, line)
      /\ ~ writable => file' = file
  BY DEF append_history_line, Goes, Appended
<1>4. Recorded(s) = front
  BY <1>1, RecordedIs DEF IInv
<1> HIDE DEF h, front, line
<1>5. ASSUME NEW t \in Shells PROVE Kept(t)'
  <2> SUFFICES ASSUME ~ missed' PROVE IsSubsequence(Recorded(t)', file')
    BY DEF Kept
  <2>1. file' = Append(file, line) /\ IsSubsequence(Recorded(t), file)
    BY <1>3 DEF IInv, Kept
  <2>2. CASE t = s
    <3>1. Recorded(s)' = Append(front, line)
      BY <1>2, <1>3, RecordedNext DEF IInv, TypeOK, h
    <3> QED
      BY <1>1, <1>2, <1>4, <2>1, <2>2, <3>1, SubOfBoth
  <2>3. CASE t # s
    <3>1. Recorded(t)' = Recorded(t)
      BY <1>3, <2>3 DEF IInv, TypeOK, Recorded
    <3>2. Recorded(t) \in Seq(Lines)
      <4>1. history[t] \in Seq(Lines) /\ (at[t] = "append" => history[t] # << >>)
        BY DEF IInv, TypeOK, Place
      <4>2. at[t] = "append" => SubSeq(history[t], 1, Len(history[t]) - 1) \in Seq(Lines)
        BY <4>1, Fronts
      <4> QED
        BY <4>1, <4>2, RecordedIs DEF IInv
    <3> QED
      BY <1>1, <1>2, <2>1, <3>1, <3>2, SubOfLonger
  <2> QED
    BY <2>2, <2>3
<1>6. ASSUME NEW t \in Shells PROVE Place(t)'
  <2>1. CASE t = s
    BY <1>3, <2>1 DEF IInv, TypeOK, Place
  <2>2. CASE t # s
    <3>1. at'[t] = at[t] /\ history'[t] = history[t] /\ history[t] \in Seq(Lines) /\ Place(t)
      BY <1>3, <2>2 DEF IInv, TypeOK
    <3>2. Len(file) <= Len(file') /\ \A i \in DOMAIN file : file'[i] = file[i]
      <4>1. /\ Len(file) <= Len(Append(file, line))
            /\ \A i \in DOMAIN file : Append(file, line)[i] = file[i]
            /\ Len(file) \in Nat
        BY <1>1, <1>2
      <4>2. CASE writable
        BY <1>3, <4>1, <4>2
      <4>3. CASE ~ writable
        BY <1>3, <4>1, <4>3
      <4> QED
        BY <4>2, <4>3
    <3>3. Len(file) \in Nat /\ Len(file') \in Nat /\ Len(history[t]) \in Nat /\ DOMAIN file = 1 .. Len(file) /\ DOMAIN history[t] = 1 .. Len(history[t])
      BY <1>1, <3>1 DEF TypeOK
    <3> QED
      BY <3>1, <3>2, <3>3 DEF Place
  <2> QED
    BY <2>1, <2>2
<1> QED
  BY <1>5, <1>6

LEMMA EndStep ==
  ASSUME IInv, TypeOK', NEW s \in Shells, End(s)
  PROVE  \A t \in Shells : Place(t)' /\ Kept(t)'
<1>1. /\ at' = [at EXCEPT ![s] = "off"] /\ history' = [history EXCEPT ![s] = << >>]
      /\ file' = file /\ missed' = missed
  BY DEF End
<1>2. at'[s] = "off" /\ history'[s] = << >>
  BY <1>1 DEF IInv, TypeOK
<1>3. Place(s)' /\ Kept(s)'
  BY <1>2, RecordedNext, EmptyIsSub DEF Place, Kept
<1> QED
  BY <1>1, <1>3, OneShell

LEMMA Inductive ==
  /\ Init => IInv
  /\ IInv /\ [Next]_vars => IInv'
<1>1. ASSUME Init PROVE IInv
  <2>1. TypeOK
    <3>1. << >> \in Seq(Lines)
      OBVIOUS
    <3> QED
      BY <1>1, <3>1 DEF Init, TypeOK
  <2>2. ASSUME NEW s \in Shells PROVE Place(s) /\ Kept(s)
    <3>1. history[s] = << >> /\ at[s] = "off"
      BY <1>1 DEF Init
    <3> QED
      BY <2>1, <3>1, RecordedIs, EmptyIsSub DEF Place, Kept
  <2> QED
    BY <2>1, <2>2 DEF IInv
<1>2. ASSUME IInv, [Next]_vars PROVE IInv'
  <2>1. TypeOK'
    BY <1>2, TypeStep
  <2>2. ASSUME NEW s \in Shells,
               \/ Start(s) \/ Unreadable(s) \/ LoadLine(s) \/ LoadEnd(s)
               \/ Type(s) \/ append_history_line(s) \/ Return(s) \/ End(s)
        PROVE  \A t \in Shells : Place(t)' /\ Kept(t)'
    BY <1>2, <2>1, <2>2, StartStep, LoadStep, MoveStep, TypeLine, AppendStep, EndStep
  <2>3. ASSUME Permission \/ UNCHANGED vars, NEW s \in Shells PROVE Place(s)' /\ Kept(s)'
    <3>1. UNCHANGED <<file, missed, history, at>>
      BY <2>3 DEF Permission, vars
    <3> QED
      BY <1>2, <3>1, OthersKeep
  <2> QED
    BY <1>2, <2>1, <2>2, <2>3 DEF Next, IInv
<1> QED
  BY <1>1, <1>2

\* Before a line is executed it is in the file, after everything the shell has
\* listed and in that order, whichever of any number of shells append to the file
\* and end meanwhile, unless a line could not be appended.
THEOREM LinesAreRecorded == Spec => []ListedIsRecorded
<1>1. IInv => ListedIsRecorded
  BY DEF IInv, Kept, ListedIsRecorded
<1> QED
  BY <1>1, Inductive, PTL DEF Spec

(***************************************************************************)
(* The start on a terminal.                                                *)
(***************************************************************************)

\* The loop was left: the shell leads its group, and unless it was continued in
\* the background, it is in the foreground or is stopped, with the signals of job
\* control not ignored yet.  Once they are, it is not stopped.
StartInv ==
  /\ terminal \in Groups
  /\ step \in {"ignore", "take"} => leader
  /\ step = "ignore" /\ ~ behind => terminal = "shell" \/ "shell" \in stopped
  /\ step = "take" =>
       /\ "shell" \notin stopped
       /\ ~ behind => terminal = "shell"

LEMMA StartKept == StartInv /\ [StartupNext]_startupVars => StartInv'
<1> SUFFICES ASSUME StartInv, [StartupNext]_startupVars PROVE StartInv'
  OBVIOUS
<1> USE DEF Groups, Jobs
<1>1. CASE Read
  <2>1. /\ step' = IF Arrived THEN "ignore" ELSE "signal"
        /\ fg' = terminal /\ "shell" \notin stopped
        /\ UNCHANGED <<leader, terminal, stopped, behind>>
    BY <1>1 DEF Read, Foreground, Running
  <2>2. CASE Arrived
    <3>1. leader /\ terminal = "shell"
      BY <2>1, <2>2 DEF StartInv, Arrived, shell_pgid
    <3> QED
      BY <2>1, <3>1 DEF StartInv
  <2>3. CASE ~ Arrived
    BY <2>1, <2>3 DEF StartInv
  <2> QED
    BY <2>2, <2>3
<1>2. CASE Signal
  BY <1>2 DEF StartInv, Signal
<1>3. CASE Ignore
  BY <1>3 DEF StartInv, Ignore, Running
<1>4. CASE Take
  BY <1>4 DEF StartInv, Take, shell_pgid
<1>5. CASE LoginReturns
  BY <1>5 DEF StartInv, LoginReturns
<1>6. ASSUME NEW g \in Jobs, UserForeground(g) \/ UserBackground(g) PROVE StartInv'
  BY <1>6 DEF StartInv, UserForeground, UserBackground
<1>7. CASE UserSuspends
  BY <1>7 DEF StartInv, UserSuspends
<1>8. CASE UNCHANGED startupVars
  BY <1>8 DEF StartInv, startupVars
<1> QED
  BY <1>1, <1>2, <1>3, <1>4, <1>5, <1>6, <1>7, <1>8 DEF StartupNext, Startup, Environment

\* initialize_executor takes the terminal only when it has it already: no other
\* group loses it, however often jobs are stopped and moved between the steps, and
\* the shell too, unless it is stopped after its test of the foreground group and
\* then continued in the background.
THEOREM WaitsForTerminal == StartupSpec => NothingIsTaken
<1>1. StartupInit => StartInv
  BY DEF StartupInit, Groups, Jobs, StartInv
<1>2. StartInv /\ [StartupNext]_startupVars => [Take /\ ~ behind => UNCHANGED terminal]_startupVars
  <2>1. ASSUME StartInv, Take, ~ behind PROVE terminal' = terminal
    BY <2>1 DEF StartInv, Take, shell_pgid
  <2> QED
    BY <2>1
<1> QED
  BY <1>1, <1>2, StartKept, PTL DEF StartupSpec, NothingIsTaken

(***************************************************************************)
(* The vector of jobs, for every number of jobs and whatever they hold:    *)
(* the loop of remove_job implements the removal of one element.           *)
(***************************************************************************)

Element == [id : Nat, content : Contents \cup {MovedFrom}]

\* Numbers that ascend and were given out
Numbered(s) ==
  /\ \A x, y \in DOMAIN s : x < y => s[x].id < s[y].id
  /\ \A x \in DOMAIN s : s[x].id < next_job_id

Types ==
  /\ jobs \in Seq(Element)
  /\ before \in Seq(Element)
  /\ next_job_id \in Nat
  /\ loop \in {"idle", "find", "move"}
  /\ job \in Nat /\ first \in Nat /\ it \in Nat

\* The element the reference is bound to is found: nothing before it matches.
Finding ==
  loop = "find" =>
    /\ jobs = before
    /\ Numbered(before)
    /\ job \in DOMAIN before
    /\ first \in 1 .. job

\* What the loop has done so far: the elements between the removed job and it
\* are one place further down, those from it on where they were.  The reference
\* reads the removed job's number until the first move and its successor's
\* afterwards; the iterator it is behind both.
Moving ==
  loop = "move" =>
    /\ Numbered(before)
    /\ job \in DOMAIN before
    /\ Len(jobs) = Len(before)
    /\ it \in job + 1 .. Len(before) + 1
    /\ first = it - 1
    /\ \A x \in 1 .. job - 1 : jobs[x] = before[x]
    /\ \A x \in job .. it - 2 : jobs[x] = before[x + 1]
    /\ it = job + 1 => jobs[job] = before[job]
    /\ \A x \in it .. Len(before) : jobs[x] = before[x]

TableInv == Types /\ IdsAscend /\ Finding /\ Moving

\* What is in a vector of jobs.
LEMMA ElementsOf ==
  ASSUME NEW S, NEW s \in Seq(S)
  PROVE  DOMAIN s = 1 .. Len(s) /\ Len(s) \in Nat /\ \A x \in 1 .. Len(s) : s[x] \in S
  OBVIOUS

LEMMA NumbersOf ==
  ASSUME NEW s \in Seq(Element)
  PROVE  \A x \in 1 .. Len(s) : s[x].id \in Nat
<1>1. \A x \in 1 .. Len(s) : s[x] \in Element
  BY ElementsOf
<1> QED BY <1>1 DEF Element

\* No other element has the number the reference reads, before and after the
\* first move.
LEMMA OnlyTheJobMatches ==
  ASSUME TableInv, loop = "move", it <= Len(jobs)
  PROVE  ~ Matches(it)
<1>1. /\ job \in 1 .. Len(before) /\ it \in job + 1 .. Len(before) /\ jobs[it] = before[it]
      /\ job \in Nat /\ it \in Nat /\ Len(before) \in Nat
      /\ before \in Seq(Element)
  BY DEF TableInv, Types, Moving
<1>2. \A x, y \in 1 .. Len(before) : x < y => before[x].id # before[y].id
  <2>1. \A x \in 1 .. Len(before) : before[x].id \in Nat
    BY <1>1, NumbersOf
  <2>2. \A x, y \in 1 .. Len(before) : x < y => before[x].id < before[y].id
    <3>1. Numbered(before)
      BY DEF TableInv, Moving
    <3>2. DOMAIN before = 1 .. Len(before)
      BY <1>1
    <3> QED BY <3>1, <3>2 DEF Numbered
  <2>3. \A m, n \in Nat : m < n => m # n
    OBVIOUS
  <2> QED BY ONLY <2>1, <2>2, <2>3, Zenon
<1>3. CASE it = job + 1
  <2>1. jobs[job] = before[job]
    BY <1>3 DEF TableInv, Moving
  <2> QED BY <1>1, <1>2, <1>3, <2>1 DEF Matches
<1>4. CASE it > job + 1
  <2>1. jobs[job] = before[job + 1]
    BY <1>1, <1>4 DEF TableInv, Moving
  <2>2. job + 1 \in 1 .. Len(before) /\ job + 1 < it
    BY <1>1, <1>4
  <2> QED BY <1>1, <1>2, <2>1, <2>2 DEF Matches
<1> QED BY <1>1, <1>3, <1>4

LEMMA TableStarts == TableInit => TableInv
  BY DEF TableInit, TableInv, Types, IdsAscend, Finding, Moving

\* A job joins the end with a number above all the others.
LEMMA RegisterStep ==
  ASSUME TableInv, register_job
  PROVE  TableInv'
<1>1. PICK c \in Contents : jobs' = Append(jobs, [id |-> next_job_id, content |-> c])
  BY DEF register_job, NewId
<1>2. /\ loop = "idle" /\ next_job_id' = next_job_id + 1
      /\ UNCHANGED <<loop, job, first, it, before>>
      /\ jobs \in Seq(Element) /\ next_job_id \in Nat
  BY DEF register_job, TableInv, Types
<1>3. [id |-> next_job_id, content |-> c] \in Element
  BY <1>2 DEF Element
<1>4. /\ jobs' \in Seq(Element) /\ Len(jobs') = Len(jobs) + 1
      /\ \A x \in 1 .. Len(jobs) : jobs'[x] = jobs[x]
      /\ jobs'[Len(jobs) + 1].id = next_job_id
  BY <1>1, <1>2, <1>3
<1>5. IdsAscend'
  <2>1. \A x \in DOMAIN jobs : jobs[x].id < next_job_id /\ jobs[x].id \in Nat
    BY <1>2, NumbersOf, ElementsOf DEF TableInv, IdsAscend
  <2>2. \A x \in 1 .. Len(jobs) + 1 : jobs'[x].id < next_job_id + 1
    BY <1>2, <1>4, <2>1
  <2>3. \A x, y \in 1 .. Len(jobs) + 1 : x < y => jobs'[x].id < jobs'[y].id
    <3>1. \A x, y \in 1 .. Len(jobs) : x < y => jobs[x].id < jobs[y].id
      BY <1>2 DEF TableInv, IdsAscend
    <3>2. DOMAIN jobs = 1 .. Len(jobs) /\ Len(jobs) \in Nat
      BY <1>2
    <3> SUFFICES ASSUME NEW x \in 1 .. Len(jobs) + 1, NEW y \in 1 .. Len(jobs) + 1, x < y
                 PROVE  jobs'[x].id < jobs'[y].id
      OBVIOUS
    <3>3. x \in 1 .. Len(jobs) /\ jobs'[x] = jobs[x]
      BY <1>4, <3>2
    <3>4. CASE y = Len(jobs) + 1
      BY <1>4, <2>1, <3>2, <3>3, <3>4
    <3>5. CASE y # Len(jobs) + 1
      <4>1. y \in 1 .. Len(jobs) /\ jobs'[y] = jobs[y]
        BY <1>4, <3>2, <3>5
      <4> QED BY <3>1, <3>3, <4>1
    <3> QED BY <3>4, <3>5
  <2> QED BY <1>2, <1>4, <2>2, <2>3 DEF IdsAscend
<1>6. Types' /\ Finding' /\ Moving'
  BY <1>2, <1>4 DEF TableInv, Types, Finding, Moving
<1> QED BY <1>5, <1>6 DEF TableInv

\* The loop starts on the vector as it is.
LEMMA RemoveStep ==
  ASSUME TableInv, remove_job
  PROVE  TableInv'
<1>1. /\ loop = "idle" /\ loop' = "find" /\ first' = 1 /\ before' = jobs
      /\ job' \in DOMAIN jobs /\ UNCHANGED <<jobs, next_job_id, it>>
  BY DEF remove_job, table
<1>2. jobs \in Seq(Element)
  BY DEF TableInv, Types
<1>3. Numbered(jobs)
  BY <1>1 DEF TableInv, IdsAscend, Numbered
<1>4. job' \in 1 .. Len(jobs) /\ job' \in Nat
  BY <1>1, <1>2
<1>5. Finding'
  BY <1>1, <1>3, <1>4 DEF Finding, Numbered
<1>6. Types' /\ IdsAscend' /\ Moving'
  BY <1>1, <1>2, <1>4 DEF TableInv, Types, IdsAscend, Moving
<1> QED BY <1>5, <1>6 DEF TableInv

\* find_if stops at the job itself.
LEMMA FindStep ==
  ASSUME TableInv, Find
  PROVE  TableInv'
<1>1. /\ loop = "find" /\ UNCHANGED <<jobs, next_job_id, job, before>>
      /\ jobs = before /\ Numbered(before) /\ job \in DOMAIN before /\ first \in 1 .. job
      /\ before \in Seq(Element) /\ it \in Nat
  BY DEF Find, table, TableInv, Types, Finding
<1>2. Numbered(before)'
  BY <1>1 DEF Numbered
<1>3. job \in 1 .. Len(before) /\ Len(before) \in Nat
  BY <1>1
<1>4. \A x \in 1 .. Len(before) : before[x].id \in Nat
  BY <1>1, NumbersOf
<1>5. CASE Matches(first)
  <2>1. loop' = "move" /\ it' = first + 1 /\ first' = first
    BY <1>1, <1>5 DEF Find
  <2>2. first = job
    <3>1. first \in 1 .. Len(before) /\ (first < job => before[first].id < before[job].id)
      BY <1>1, <1>3 DEF Numbered
    <3> QED BY <1>1, <1>3, <1>4, <1>5, <3>1 DEF Matches
  <2>3. Moving'
    BY <1>1, <1>2, <1>3, <2>1, <2>2 DEF Moving
  <2> QED BY <1>1, <1>3, <2>1, <2>3 DEF TableInv, Types, IdsAscend, Finding
<1>6. CASE ~ Matches(first)
  <2>1. UNCHANGED <<loop, it>> /\ first' = first + 1
    BY <1>1, <1>6 DEF Find
  <2>2. first # job
    BY <1>1, <1>6 DEF Matches
  <2>3. first' \in 1 .. job /\ first' \in Nat
    BY <1>1, <1>3, <2>1, <2>2
  <2> QED BY <1>1, <1>2, <1>3, <2>1, <2>3 DEF TableInv, Types, IdsAscend, Finding, Moving
<1> QED BY <1>5, <1>6

\* The element at it moves down by one place.
LEMMA MoveOneStep ==
  ASSUME TableInv, Move
  PROVE  TableInv'
<1>1. /\ loop = "move" /\ it <= Len(jobs) /\ it' = it + 1
      /\ UNCHANGED <<next_job_id, loop, job, before>>
  BY DEF Move
<1>2. jobs' = Moved /\ first' = first + 1
  BY <1>1, OnlyTheJobMatches DEF Move
<1>3. /\ Numbered(before) /\ job \in DOMAIN before
      /\ Len(jobs) = Len(before) /\ it \in job + 1 .. Len(before) /\ first = it - 1
      /\ jobs \in Seq(Element) /\ before \in Seq(Element)
      /\ job \in Nat /\ it \in Nat /\ first \in Nat /\ Len(before) \in Nat
  BY <1>1 DEF TableInv, Types, Moving
<1>4. Numbered(before)'
  BY <1>1, <1>3 DEF Numbered
<1>5. job \in 1 .. Len(before) /\ first \in job .. Len(before) - 1 /\ first # it
      /\ DOMAIN jobs = 1 .. Len(before) /\ it \in DOMAIN jobs /\ first \in DOMAIN jobs
  BY <1>3
<1>6. /\ DOMAIN jobs' = DOMAIN jobs
      /\ jobs'[first] = jobs[it]
      /\ jobs'[it] = [jobs[it] EXCEPT !.content = MovedFrom]
      /\ \A x \in DOMAIN jobs : x # first /\ x # it => jobs'[x] = jobs[x]
  BY <1>2, <1>5 DEF Moved
<1>7. \A x \in DOMAIN jobs : jobs[x] \in Element
  BY <1>3
<1>8. \A x \in DOMAIN jobs : jobs'[x] \in Element
  BY <1>5, <1>6, <1>7 DEF Element
<1>9. jobs' \in Seq(Element) /\ Len(jobs') = Len(before)
  <2>1. jobs' = [x \in 1 .. Len(before) |-> jobs'[x]]
    BY <1>2, <1>5 DEF Moved
  <2> QED BY <1>3, <1>5, <1>8, <2>1
<1>10. Types'
  BY <1>1, <1>2, <1>3, <1>9 DEF TableInv, Types
<1>11. Moving'
  <2>1. \A x \in 1 .. job - 1 : jobs'[x] = before[x]
    <3> SUFFICES ASSUME NEW x \in 1 .. job - 1 PROVE jobs'[x] = before[x]
      OBVIOUS
    <3>1. x \in DOMAIN jobs /\ x # it /\ x # first
      BY <1>3, <1>5
    <3>2. jobs[x] = before[x]
      BY <1>1 DEF TableInv, Moving
    <3> QED BY ONLY <1>6, <3>1, <3>2
  <2>2. \A x \in job .. it - 1 : jobs'[x] = before[x + 1]
    <3> SUFFICES ASSUME NEW x \in job .. it - 1 PROVE jobs'[x] = before[x + 1]
      OBVIOUS
    <3>1. CASE x = it - 1
      <4>1. jobs[it] = before[it]
        BY <1>1, <1>3 DEF TableInv, Moving
      <4> QED BY <1>3, <1>6, <3>1, <4>1
    <3>2. CASE x # it - 1
      <4>1. x \in job .. it - 2 /\ x \in DOMAIN jobs
        BY <1>3, <1>5, <3>2
      <4>2. jobs[x] = before[x + 1]
        BY <1>1, <4>1 DEF TableInv, Moving
      <4>3. x # it /\ x # first
        BY <1>3, <3>2, <4>1
      <4> QED BY ONLY <1>6, <4>1, <4>2, <4>3
    <3> QED BY <3>1, <3>2
  <2>3. \A x \in it + 1 .. Len(before) : jobs'[x] = before[x]
    <3> SUFFICES ASSUME NEW x \in it + 1 .. Len(before) PROVE jobs'[x] = before[x]
      OBVIOUS
    <3>1. x \in it .. Len(before) /\ x \in DOMAIN jobs /\ x # it /\ x # first
      BY <1>3, <1>5
    <3>2. jobs[x] = before[x]
      BY <1>1, <3>1 DEF TableInv, Moving
    <3> QED BY <1>6, <3>1, <3>2
  <2>4. it + 1 \in job + 1 .. Len(before) + 1 /\ first + 1 = (it + 1) - 1
        /\ it + 1 # job + 1 /\ (it + 1) - 2 = it - 1
    BY <1>3
  <2> QED BY <1>1, <1>2, <1>3, <1>4, <1>9, <2>1, <2>2, <2>3, <2>4 DEF Moving
<1>12. IdsAscend' /\ Finding'
  BY <1>1 DEF IdsAscend, Finding
<1> QED BY <1>10, <1>11, <1>12 DEF TableInv

\* What Erase leaves is the vector without the job.
LEMMA ErasedIsWithout ==
  ASSUME TableInv, loop = "move", it > Len(jobs)
  PROVE  /\ Len(Erased) = Len(before) - 1
         /\ Erased \in Seq(Element)
         /\ \A x \in 1 .. Len(before) - 1 :
              Erased[x] = IF x < job THEN before[x] ELSE before[x + 1]
<1>1. /\ job \in 1 .. Len(before) /\ Len(jobs) = Len(before) /\ Len(before) \in Nat
      /\ it = Len(before) + 1 /\ first = Len(before) /\ first \in Nat
      /\ jobs \in Seq(Element) /\ before \in Seq(Element) /\ job \in Nat
  BY DEF TableInv, Types, Moving
<1>2. /\ Erased \in Seq(Element) /\ Len(Erased) = first - 1
      /\ \A x \in 1 .. first - 1 : Erased[x] = jobs[x]
  BY <1>1 DEF Erased
<1>3. /\ \A x \in 1 .. job - 1 : jobs[x] = before[x]
      /\ \A x \in job .. first - 1 : jobs[x] = before[x + 1]
  BY <1>1 DEF TableInv, Moving
<1> QED BY <1>1, <1>2, <1>3

\* The list that is left has its numbers in order.
LEMMA EraseStep ==
  ASSUME TableInv, Erase
  PROVE  TableInv'
<1>1. /\ loop = "move" /\ loop' = "idle" /\ it > Len(jobs) /\ jobs' = Erased
      /\ UNCHANGED <<next_job_id, job, first, it, before>>
  BY DEF Erase
<1>2. /\ Len(jobs') = Len(before) - 1
      /\ jobs' \in Seq(Element)
      /\ \A x \in 1 .. Len(before) - 1 :
           jobs'[x] = IF x < job THEN before[x] ELSE before[x + 1]
  BY <1>1, ErasedIsWithout
<1>3. /\ Numbered(before) /\ before \in Seq(Element) /\ job \in 1 .. Len(before)
      /\ Len(before) \in Nat /\ job \in Nat
  BY <1>1 DEF TableInv, Types, Moving
<1>4. PICK up \in [1 .. Len(before) - 1 -> 1 .. Len(before)] :
        /\ \A x \in 1 .. Len(before) - 1 : jobs'[x] = before[up[x]]
        /\ \A x, y \in 1 .. Len(before) - 1 : x < y => up[x] < up[y]
  <2> DEFINE f == [x \in 1 .. Len(before) - 1 |-> IF x < job THEN x ELSE x + 1]
  <2>1. f \in [1 .. Len(before) - 1 -> 1 .. Len(before)]
    BY <1>3
  <2>2. \A x \in 1 .. Len(before) - 1 : jobs'[x] = before[f[x]]
    BY <1>2, <1>3
  <2>3. \A x, y \in 1 .. Len(before) - 1 : x < y => f[x] < f[y]
    BY <1>3
  <2> HIDE DEF f
  <2> QED BY <2>1, <2>2, <2>3
<1>5. DOMAIN jobs' = 1 .. Len(before) - 1 /\ DOMAIN before = 1 .. Len(before)
  BY <1>2, <1>3
<1>6. IdsAscend'
  <2>1. \A x, y \in 1 .. Len(before) - 1 : x < y => jobs'[x].id < jobs'[y].id
    <3> SUFFICES ASSUME NEW x \in 1 .. Len(before) - 1, NEW y \in 1 .. Len(before) - 1, x < y
                 PROVE  jobs'[x].id < jobs'[y].id
      OBVIOUS
    <3>1. up[x] \in DOMAIN before /\ up[y] \in DOMAIN before /\ up[x] < up[y]
      BY <1>4, <1>5
    <3>2. before[up[x]].id < before[up[y]].id
      BY <1>3, <3>1 DEF Numbered
    <3> QED BY <1>4, <3>2
  <2>2. \A x \in 1 .. Len(before) - 1 : jobs'[x].id < next_job_id
    BY <1>3, <1>4, <1>5 DEF Numbered
  <2> QED BY <1>1, <1>5, <2>1, <2>2 DEF IdsAscend
<1>7. Types' /\ Finding' /\ Moving'
  BY <1>1, <1>2 DEF TableInv, Types, Finding, Moving
<1> QED BY <1>6, <1>7 DEF TableInv

LEMMA TableKeeps == TableInv /\ [TableNext]_tableVars => TableInv'
<1> SUFFICES ASSUME TableInv, [TableNext]_tableVars PROVE TableInv'
  OBVIOUS
<1>1. CASE UNCHANGED tableVars
  BY <1>1 DEF TableInv, Types, IdsAscend, Finding, Moving, Numbered, tableVars, table
<1> QED BY <1>1, RegisterStep, RemoveStep, FindStep, MoveOneStep, EraseStep DEF TableNext

LEMMA TableInvariant == TableSpec => []TableInv
  BY TableStarts, TableKeeps, PTL DEF TableSpec

\* Between two changes the jobs are in the order of their numbers and no
\* number is given twice.
THEOREM NumbersAscend == TableSpec => []IdsAscend
<1>1. TableInv => IdsAscend
  BY DEF TableInv
<1> QED BY <1>1, TableInvariant, PTL

\* The call asks for the job the reference is bound to, a step of the loop is a
\* stutter of the list, and the last one removes the job that was asked for.
LEMMA StepsOfTheList ==
  ASSUME TableInv, [TableNext]_tableVars
  PROVE  List!ListNext \/ UNCHANGED List!listVars
<1> USE DEF List!listVars
<1>1. CASE register_job
  <2>1. List!Add
    BY <1>1 DEF register_job, NewId, List!Add
  <2> QED BY <2>1 DEF List!ListNext
<1>2. CASE remove_job
  <2>1. /\ loop = "idle" /\ loop' = "find" /\ before' = jobs
        /\ job' \in DOMAIN jobs /\ UNCHANGED <<jobs, next_job_id>>
    BY <1>2 DEF remove_job, table
  <2>2. List!Ask(job')
    BY <2>1 DEF List!Ask
  <2> QED BY <2>1, <2>2 DEF List!ListNext
<1>3. CASE Find
  BY <1>3 DEF Find, table
<1>4. CASE Move
  BY <1>4 DEF Move
<1>5. CASE Erase
  <2>1. /\ loop = "move" /\ loop' = "idle" /\ it > Len(jobs) /\ jobs' = Erased
        /\ UNCHANGED <<next_job_id, before, job>>
    BY <1>5 DEF Erase
  <2>2. /\ Len(jobs') = Len(before) - 1
        /\ jobs' \in Seq(Element)
        /\ \A x \in 1 .. Len(before) - 1 :
             jobs'[x] = IF x < job THEN before[x] ELSE before[x + 1]
    BY <2>1, ErasedIsWithout
  <2>3. job \in DOMAIN before
    BY <2>1 DEF TableInv, Moving
  <2>4. jobs' = [x \in 1 .. Len(before) - 1 |-> IF x < job THEN before[x] ELSE before[x + 1]]
    BY <2>2
  <2>5. List!Leave(job)
    BY <2>1, <2>4 DEF List!Leave, List!Without
  <2>6. job \in DOMAIN (IF loop = "idle" THEN jobs ELSE before)
    BY <2>1, <2>3
  <2> QED BY <2>5, <2>6 DEF List!ListNext
<1>6. CASE UNCHANGED tableVars
  BY <1>6 DEF tableVars, table
<1> QED BY <1>1, <1>2, <1>3, <1>4, <1>5, <1>6 DEF TableNext

\* The vector and its loops implement the list: after remove_job was called for a
\* job nothing else happens until that very job, whatever its position, is gone and
\* the others are as they were and in their order (remove_job, register_job).
THEOREM VectorImplementsList == TableSpec => OneJobLeaves
<1>1. TableInit => List!ListInit
  BY DEF TableInit, List!ListInit
<1>2. TableInv /\ [TableNext]_tableVars => [List!ListNext]_(List!listVars)
  BY StepsOfTheList
<1> QED BY <1>1, <1>2, TableInvariant, PTL DEF TableSpec, OneJobLeaves, List!ListSpec
===============================================================================
