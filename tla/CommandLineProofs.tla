--------------------------- MODULE CommandLineProofs ---------------------------
(***************************************************************************)
(* Whatever line is typed, a command that the parser accepts can be run;   *)
(* exactly what the grammar allows is accepted, and it is translated to    *)
(* what the line says.                                                     *)
(***************************************************************************)
EXTENDS CommandLine, FiniteSetTheorems, TLAPS

\* No word that the parser handles is empty, and the positions in the tokens
\* stay at their beginning until the tokens are complete.
IInv ==
  /\ TypeOK
  /\ \A p \in DOMAIN tokens : tokens[p].value # << >>
  /\ NoneEmpty(simple.argv)
  /\ \A k \in DOMAIN commands : commands[k].argv # << >> /\ NoneEmpty(commands[k].argv)
  /\ at = "accepted" => commands # << >>
  /\ at = "tokenize" => start = 1 /\ pos = 1

Tok == [type : Types, value : Str]

LEMMA Lengths ==
  ASSUME NEW S, NEW s \in Seq(S), NEW e \in S
  PROVE  /\ Append(s, e) \in Seq(S)
         /\ Len(Append(s, e)) = Len(s) + 1
         /\ \A j \in DOMAIN Append(s, e) :
              Append(s, e)[j] = e \/ (j \in DOMAIN s /\ Append(s, e)[j] = s[j])
         /\ Append(s, e) # << >>
  OBVIOUS

\* push_word_if_any keeps the tokens free of empty words.
LEMMA PushWord ==
  ASSUME IInv
  PROVE  /\ push_word_if_any \in Seq(Tok)
         /\ \A p \in DOMAIN push_word_if_any : push_word_if_any[p].value # << >>
<1>1. /\ tokens \in Seq(Tok) /\ current \in Str
      /\ \A p \in DOMAIN tokens : tokens[p].value # << >>
  BY DEF IInv, TypeOK, Tok
<1>2. CASE current = << >>
  BY <1>1, <1>2 DEF push_word_if_any
<1>3. CASE current # << >>
  <2> DEFINE w == [type |-> "WORD", value |-> current]
  <2>1. w \in Tok /\ w.value # << >>
    BY <1>1, <1>3 DEF Tok, Types
  <2>2. push_word_if_any = Append(tokens, w)
    BY <1>3 DEF push_word_if_any
  <2> HIDE DEF w
  <2> QED
    BY <1>1, <2>1, <2>2, Lengths
<1> QED
  BY <1>2, <1>3

LEMMA Initially ==
  ASSUME Init PROVE IInv
<1>1. line \in Seq(Chars) /\ 1 \in 1 .. Len(line) + 1
  BY LinesAssumption DEF Init
<1>2. Nothing \in Simple /\ NoneEmpty(Nothing.argv)
  BY DEF Nothing, Simple, Str, NoneEmpty
<1>3. current \in Str /\ tokens \in Seq([type : Types, value : Str]) /\ commands \in Seq(Simple)
  BY DEF Init, Str
<1>4. i \in 1 .. Len(line) + 1 /\ start \in 1 .. Len(tokens) + 1 /\ pos \in 1 .. Len(tokens) + 1
  BY <1>1 DEF Init
<1>5. TypeOK
  BY <1>2, <1>3, <1>4 DEF Init, TypeOK
<1> QED
  BY <1>2, <1>5 DEF Init, IInv

\* The actions of the tokenizer
LEMMA TokenizeStep ==
  ASSUME IInv, Quoted \/ OpenQuote \/ Whitespace \/ Operator \/ Letter
  PROVE  IInv'
<1> USE DEF Tokenizing
<1>1. /\ at = "tokenize" /\ at' = at /\ line' = line /\ background' = background
      /\ UNCHANGED parser /\ i' = i + 1 /\ i <= Len(line)
  BY DEF Quoted, OpenQuote, Whitespace, Operator, Letter
<1>2. /\ line \in Seq(Chars) /\ line[i] \in Chars /\ i' \in 1 .. Len(line) + 1
  BY <1>1, LinesAssumption DEF IInv, TypeOK
<1>3. /\ tokens \in Seq(Tok) /\ \A p \in DOMAIN tokens : tokens[p].value # << >>
      /\ current \in Seq(Chars) /\ quote \in Quotes \cup {"none"} /\ start = 1 /\ pos = 1
  BY <1>1 DEF IInv, TypeOK, Tok, Str
<1>4. current' \in Str /\ quote' \in Quotes \cup {"none"}
  <2>1. CASE Quoted
    BY <1>2, <1>3, <2>1 DEF Quoted, Char, Str
  <2>2. CASE OpenQuote
    BY <1>2, <1>3, <2>2 DEF OpenQuote, Char, Str
  <2>3. CASE Whitespace
    BY <1>3, <2>3 DEF Whitespace, Str
  <2>4. CASE Operator
    BY <1>3, <2>4 DEF Operator, Str
  <2>5. CASE Letter
    BY <1>2, <1>3, <2>5 DEF Letter, Char, Str
  <2> QED
    BY <2>1, <2>2, <2>3, <2>4, <2>5
<1>5. tokens' \in Seq(Tok) /\ \A p \in DOMAIN tokens' : tokens'[p].value # << >>
  <2>1. CASE Quoted \/ OpenQuote \/ Letter
    BY <1>3, <2>1 DEF Quoted, OpenQuote, Letter
  <2>2. CASE Whitespace
    BY <2>2, PushWord DEF Whitespace
  <2>3. CASE Operator
    <3> DEFINE t == [type |-> TokenType(Char), value |-> << Char >>]
    <3>1. Char \in Operators
      BY <2>3 DEF Operator
    <3>2. TokenType(Char) \in Types
      BY <3>1 DEF Operators, TokenType, Types
    <3>3. << Char >> \in Str /\ << Char >> # << >>
      BY <3>1 DEF Chars, Str
    <3>4. t \in Tok /\ t.value # << >>
      BY <3>2, <3>3 DEF Tok
    <3>5. tokens' = Append(push_word_if_any, t)
      BY <2>3 DEF Operator
    <3> HIDE DEF t
    <3> QED
      BY <3>4, <3>5, PushWord, Lengths
  <2> QED
    BY <2>1, <2>2, <2>3
<1>6. UNCHANGED <<start, pos, redir_side, simple, commands>>
  BY <1>1 DEF parser
<1>7. start' \in 1 .. Len(tokens') + 1 /\ pos' \in 1 .. Len(tokens') + 1
  BY <1>3, <1>5, <1>6
<1>8. TypeOK'
  BY <1>1, <1>2, <1>4, <1>5, <1>6, <1>7 DEF IInv, TypeOK, Tok
<1> QED
  BY <1>1, <1>3, <1>5, <1>6, <1>8 DEF IInv, NoneEmpty

LEMMA EndOfLineStep ==
  ASSUME IInv, EndOfLine
  PROVE  IInv'
<1>1. /\ UNCHANGED <<line, i, current, quote, start, pos, redir_side, simple, commands>>
      /\ at = "tokenize" /\ start = 1 /\ pos = 1
  BY DEF EndOfLine, IInv, scanner, parser
<1>2. CASE quote # "none"
  <2>1. at' = "rejected" /\ UNCHANGED <<tokens, background>>
    BY <1>2 DEF EndOfLine
  <2> QED
    BY <1>1, <2>1 DEF IInv, TypeOK, NoneEmpty
<1>3. CASE quote = "none"
  <2> DEFINE ts == push_word_if_any
  <2>1. ts \in Seq(Tok) /\ \A p \in DOMAIN ts : ts[p].value # << >>
    BY PushWord
  <2>2. \/ tokens' = ts
        \/ ts # << >> /\ tokens' = SubSeq(ts, 1, Len(ts) - 1)
    BY <1>3 DEF EndOfLine, Flushed
  <2>3. background' \in BOOLEAN /\ at' \in {"rejected", "parse"}
    BY <1>3 DEF EndOfLine
  <2> HIDE DEF ts
  <2>4. tokens' \in Seq(Tok) /\ \A p \in DOMAIN tokens' : tokens'[p].value # << >>
    BY <2>1, <2>2
  <2>5. start' \in 1 .. Len(tokens') + 1 /\ pos' \in 1 .. Len(tokens') + 1
    BY <1>1, <2>4
  <2>6. TypeOK'
    BY <1>1, <2>3, <2>4, <2>5 DEF IInv, TypeOK, Tok
  <2> QED
    BY <1>1, <2>3, <2>4, <2>6 DEF IInv, NoneEmpty
<1> QED
  BY <1>2, <1>3

\* The actions of parse_simple_command
LEMMA SimpleStep ==
  ASSUME IInv, Word \/ Redirection \/ Ampersand \/ FileName
  PROVE  IInv'
<1>1. /\ at = "parse" /\ pos <= Len(tokens) /\ pos' = pos + 1
      /\ UNCHANGED <<line, i, current, quote, tokens, background, start, commands>>
  BY DEF Word, Redirection, Ampersand, FileName, Parsing, InSimple, scanner
<1>2. /\ tokens \in Seq(Tok) /\ pos' \in 1 .. Len(tokens) + 1
      /\ tokens[pos] \in Tok /\ tokens[pos].value # << >>
      /\ simple \in Simple /\ NoneEmpty(simple.argv)
  <2>1. tokens \in Seq(Tok) /\ pos \in 1 .. Len(tokens) + 1 /\ Len(tokens) \in Nat
    BY DEF IInv, TypeOK, Tok
  <2>2. pos \in DOMAIN tokens /\ pos' \in 1 .. Len(tokens) + 1
    BY <1>1, <2>1
  <2>3. tokens[pos] \in Tok /\ tokens[pos].value # << >>
    BY <2>1, <2>2 DEF IInv
  <2> QED
    BY <2>1, <2>2, <2>3 DEF IInv, TypeOK
<1>3. simple' \in Simple /\ NoneEmpty(simple'.argv)
  <2>1. CASE Word
    <3>1. simple' = [simple EXCEPT !.argv = Append(@, tokens[pos].value)]
      BY <2>1 DEF Word, Token
    <3>2. tokens[pos].value \in Str /\ simple.argv \in Seq(Str)
      BY <1>2 DEF Tok, Simple
    <3>3. simple' \in Simple /\ simple'.argv = Append(simple.argv, tokens[pos].value)
      <4>1. Append(simple.argv, tokens[pos].value) \in Seq(Str)
        BY <3>2, Lengths
      <4> QED
        BY <1>2, <3>1, <4>1 DEF Simple
    <3>4. \A j \in DOMAIN simple'.argv :
            \/ simple'.argv[j] = tokens[pos].value
            \/ j \in DOMAIN simple.argv /\ simple'.argv[j] = simple.argv[j]
      <4> DEFINE args == simple.argv
                 word == tokens[pos].value
      <4>1. args \in Seq(Str) /\ word \in Str /\ simple'.argv = Append(args, word)
        BY <3>2, <3>3
      <4> HIDE DEF args, word
      <4>2. \A j \in DOMAIN Append(args, word) :
              \/ Append(args, word)[j] = word
              \/ j \in DOMAIN args /\ Append(args, word)[j] = args[j]
        BY <4>1, Lengths
      <4>3. \A j \in DOMAIN simple'.argv :
              simple'.argv[j] = word \/ (j \in DOMAIN args /\ simple'.argv[j] = args[j])
        BY <4>1, <4>2
      <4> QED
        BY <4>3 DEF args, word
    <3> QED
      BY <1>2, <3>3, <3>4 DEF NoneEmpty
  <2>2. CASE Redirection \/ Ampersand
    BY <1>2, <2>2 DEF Redirection, Ampersand, Reject
  <2>3. CASE FileName
    <3>1. tokens[pos].value \in Str
      BY <1>2 DEF Tok
    <3>2. \/ simple' = simple
          \/ simple' = [simple EXCEPT !.input_redirection = tokens[pos].value]
          \/ simple' = [simple EXCEPT !.output_redirection = tokens[pos].value]
      BY <2>3 DEF FileName, Reject, Token
    <3>3. simple' \in Simple /\ simple'.argv = simple.argv
      BY <1>2, <3>1, <3>2 DEF Simple
    <3> QED
      BY <1>2, <3>3
  <2> QED
    BY <2>1, <2>2, <2>3
<1>4. redir_side' \in {"NONE", "IN", "OUT"} /\ at' \in {"parse", "rejected"}
  BY <1>1 DEF IInv, TypeOK, Word, Redirection, Ampersand, FileName, Reject
<1>5. TypeOK'
  BY <1>1, <1>2, <1>3, <1>4 DEF IInv, TypeOK, Tok
<1> QED
  BY <1>1, <1>3, <1>4, <1>5 DEF IInv, NoneEmpty

LEMMA EndOfSimpleStep ==
  ASSUME IInv, EndOfSimple
  PROVE  IInv'
<1>1. /\ at = "parse"
      /\ UNCHANGED <<line, i, current, quote, tokens, background, redir_side>>
      /\ ~ InSimple
  BY DEF EndOfSimple, scanner
<1>2. CASE at' = "rejected" /\ UNCHANGED <<start, pos, simple, commands>>
  BY <1>1, <1>2 DEF IInv, TypeOK, NoneEmpty
<1>3. CASE ~ (at' = "rejected" /\ UNCHANGED <<start, pos, simple, commands>>)
  <2>1. /\ simple.argv # << >> /\ commands' = Append(commands, simple)
        /\ \/ at' = "accepted" /\ UNCHANGED <<start, pos, simple>>
           \/ pos <= Len(tokens) /\ AfterPipe /\ at' = at
    BY <1>3 DEF EndOfSimple, IInv, TypeOK
  <2>2. /\ simple \in Simple /\ NoneEmpty(simple.argv) /\ commands \in Seq(Simple)
        /\ \A k \in DOMAIN commands : commands[k].argv # << >> /\ NoneEmpty(commands[k].argv)
    BY DEF IInv, TypeOK
  <2>3. /\ commands' \in Seq(Simple) /\ commands' # << >>
        /\ \A k \in DOMAIN commands' :
             commands'[k].argv # << >> /\ NoneEmpty(commands'[k].argv)
    BY <2>1, <2>2, Lengths
  <2>4. Nothing \in Simple /\ NoneEmpty(Nothing.argv)
    BY DEF Nothing, Simple, Str, NoneEmpty
  <2>5. simple' \in Simple /\ NoneEmpty(simple'.argv)
    BY <2>1, <2>2, <2>4 DEF AfterPipe
  <2>6. start' \in 1 .. Len(tokens) + 1 /\ pos' \in 1 .. Len(tokens) + 1
    BY <2>1 DEF AfterPipe, IInv, TypeOK
  <2>7. at' \in {"parse", "accepted"}
    BY <1>1, <2>1
  <2>8. TypeOK'
    BY <1>1, <2>3, <2>5, <2>6, <2>7 DEF IInv, TypeOK
  <2>9. (\A p \in DOMAIN tokens : tokens[p].value # << >>)'
    BY <1>1 DEF IInv
  <2> QED
    BY <2>3, <2>5, <2>7, <2>8, <2>9 DEF IInv, NoneEmpty
<1> QED
  BY <1>2, <1>3

LEMMA Invariant ==
  Spec => []IInv
<1>1. Init => IInv
  BY Initially
<1>2. IInv /\ [Next]_vars => IInv'
  <2> SUFFICES ASSUME IInv, [Next]_vars PROVE IInv'
    OBVIOUS
  <2>1. CASE Quoted \/ OpenQuote \/ Whitespace \/ Operator \/ Letter
    BY <2>1, TokenizeStep
  <2>2. CASE EndOfLine
    BY <2>2, EndOfLineStep
  <2>3. CASE Word \/ Redirection \/ Ampersand \/ FileName
    BY <2>3, SimpleStep
  <2>4. CASE EndOfSimple
    BY <2>4, EndOfSimpleStep
  <2>5. CASE UNCHANGED vars
    BY <2>5 DEF vars, scanner, parser, IInv, TypeOK, NoneEmpty
  <2> QED
    BY <2>1, <2>2, <2>3, <2>4, <2>5 DEF Next
<1> QED
  BY <1>1, <1>2, PTL DEF Spec

\* Every variable of the parser keeps its type, for lines of any length over any
\* characters: the positions never leave the tokens (tokenize, parse_command).
THEOREM TypeCorrect == Spec => []TypeOK
<1>1. IInv => TypeOK
  BY DEF IInv
<1> QED
  BY <1>1, Invariant, PTL

\* An accepted command has a first command, each of its commands has a name,
\* and no name or argument is empty (parse_command, parse_simple_command).
THEOREM AcceptedCommandsRun == Spec => []CommandsAreRunnable
<1>1. IInv => CommandsAreRunnable
  BY DEF IInv, CommandsAreRunnable
<1> QED
  BY <1>1, Invariant, PTL

(***************************************************************************)
(* What is parsed is what the grammar says.                                *)
(***************************************************************************)

Side(type) == IF type = "input_redir" THEN "IN" ELSE "OUT"

\* The simple commands before start are translated; simple is what the tokens from
\* start to pos say, of which none is a pipe and the last may be a redirection that
\* waits for its file name.
Segment ==
  /\ start <= pos
  /\ start > 1 => tokens[start - 1].type = "PIPE"
  /\ \A p \in start .. pos - 1 : tokens[p].type # "PIPE"
  /\ PipesBefore(start) = Len(commands)

Pending ==
  /\ \A p \in 1 .. pos - 1 : tokens[p].type # "BACKGROUND"
  /\ \A p \in 1 .. pos - 2 : IsRedirection(tokens[p]) => tokens[p + 1].type = "WORD"
  /\ redir_side = "NONE" => \A p \in 1 .. pos - 1 : p = pos - 1 => ~ IsRedirection(tokens[p])
  /\ redir_side # "NONE" => /\ start < pos
                            /\ IsRedirection(tokens[pos - 1])
                            /\ redir_side = Side(tokens[pos - 1].type)
  /\ Once(start .. pos - 2)

Translated ==
  /\ Translates(simple, start .. pos - 1)
  /\ Len(simple.argv) = Cardinality(Arguments(start .. pos - 1))
  /\ \A n \in DOMAIN commands :
       /\ Translates(commands[n], OfCommand(n))
       /\ Arguments(OfCommand(n)) # {} /\ Once(OfCommand(n))

Parsed ==
  /\ at = "parse" => quote = "none" /\ tokens # << >> /\ Segment /\ Pending /\ Translated
  /\ at = "tokenize" => commands = << >> /\ simple = Nothing /\ redir_side = "NONE"
  /\ AcceptsGrammar
  /\ CommandsMatchTokens

(***************************************************************************)
(* Positions.                                                              *)
(***************************************************************************)

PipesUpTo(p) == {q \in 1 .. p - 1 : tokens[q].type = "PIPE"}

LEMMA PipesAreFinite ==
  ASSUME NEW p \in Nat PROVE IsFiniteSet(PipesUpTo(p)) /\ PipesBefore(p) = Cardinality(PipesUpTo(p))
<1>1. IsFiniteSet(1 .. p - 1)
  BY FS_Interval
<1>2. PipesUpTo(p) \subseteq 1 .. p - 1
  BY DEF PipesUpTo
<1> QED
  BY <1>1, <1>2, FS_Subset DEF PipesBefore, PipesUpTo

LEMMA Pipes ==
  /\ PipesBefore(1) = 0
  /\ \A p \in Nat : PipesBefore(p) \in Nat
  /\ \A p \in Nat \ {0} : PipesBefore(p + 1) = PipesBefore(p) + IF tokens[p].type = "PIPE" THEN 1 ELSE 0
  /\ \A p, q \in Nat : p <= q => PipesBefore(p) <= PipesBefore(q)
<1>1. PipesBefore(1) = 0
  <2>1. PipesUpTo(1) = {}
    BY DEF PipesUpTo
  <2> QED
    BY <2>1, PipesAreFinite, FS_EmptySet
<1>2. ASSUME NEW p \in Nat PROVE PipesBefore(p) \in Nat
  BY PipesAreFinite, FS_CardinalityType
<1>3. ASSUME NEW p \in Nat \ {0}
      PROVE  PipesBefore(p + 1) = PipesBefore(p) + IF tokens[p].type = "PIPE" THEN 1 ELSE 0
  <2>1. CASE tokens[p].type = "PIPE"
    <3>1. PipesUpTo(p + 1) = PipesUpTo(p) \cup {p} /\ p \notin PipesUpTo(p)
      BY <2>1 DEF PipesUpTo
    <3> QED
      BY <2>1, <3>1, <1>2, PipesAreFinite, FS_AddElement
  <2>2. CASE tokens[p].type # "PIPE"
    <3>1. PipesUpTo(p + 1) = PipesUpTo(p)
      BY <2>2 DEF PipesUpTo
    <3> QED
      BY <2>2, <3>1, <1>2, PipesAreFinite
  <2> QED
    BY <2>1, <2>2
<1>4. ASSUME NEW p \in Nat, NEW q \in Nat, p <= q PROVE PipesBefore(p) <= PipesBefore(q)
  <2>1. PipesUpTo(p) \subseteq PipesUpTo(q)
    BY <1>4 DEF PipesUpTo
  <2> QED
    BY <2>1, PipesAreFinite, FS_Subset
<1> QED
  BY <1>1, <1>2, <1>3, <1>4

\* The positions between two pipes, or the ends, are those of one command.
LEMMA SegmentIs ==
  ASSUME tokens \in Seq(Tok), NEW a \in 1 .. Len(tokens) + 1, NEW b \in a .. Len(tokens) + 1,
         a > 1 => tokens[a - 1].type = "PIPE",
         \A p \in a .. b - 1 : tokens[p].type # "PIPE",
         b <= Len(tokens) => tokens[b].type = "PIPE"
  PROVE  /\ PipesBefore(b) = PipesBefore(a)
         /\ OfCommand(PipesBefore(a) + 1) = a .. b - 1
<1> DEFINE n == PipesBefore(a)
<1>1. a \in Nat /\ b \in Nat /\ Len(tokens) \in Nat /\ DOMAIN tokens = 1 .. Len(tokens)
  OBVIOUS
<1>2. ASSUME NEW c \in a .. b PROVE PipesBefore(c) = n
  <2>1. PipesUpTo(c) = PipesUpTo(a)
    BY <1>1 DEF PipesUpTo
  <2> QED
    BY <1>1, <2>1, PipesAreFinite
<1>3. n \in Nat
  BY <1>1, Pipes
<1>4. ASSUME NEW p \in DOMAIN tokens, p < a, tokens[p].type # "PIPE" PROVE PipesBefore(p) # n
  <2>1. p < a - 1 /\ a - 1 \in Nat \ {0} /\ a - 1 + 1 = a /\ tokens[a - 1].type = "PIPE" /\ p \in Nat
    BY <1>1, <1>4
  <2>2. n = PipesBefore(a - 1) + 1
    BY <2>1, Pipes
  <2>3. PipesBefore(p) <= PipesBefore(a - 1) /\ PipesBefore(p) \in Nat /\ PipesBefore(a - 1) \in Nat
    <3>1. p \in Nat /\ a - 1 \in Nat /\ p <= a - 1
      BY <2>1
    <3> QED
      BY ONLY <3>1, Pipes, Zenon
  <2> HIDE DEF n
  <2> QED
    BY <2>2, <2>3
<1>5. ASSUME NEW p \in DOMAIN tokens, b <= p, tokens[p].type # "PIPE" PROVE PipesBefore(p) # n
  <2>1. b + 1 <= p /\ b \in Nat \ {0} /\ p \in Nat /\ b + 1 \in Nat /\ b \in a .. b /\ tokens[b].type = "PIPE"
    BY <1>1, <1>5
  <2>2. PipesBefore(b + 1) = n + 1
    <3>1. PipesBefore(b) = n
      BY <1>2, <2>1
    <3> QED
      BY <2>1, <3>1, Pipes
  <2>3. PipesBefore(b + 1) <= PipesBefore(p) /\ PipesBefore(p) \in Nat
    BY <2>1, Pipes
  <2> HIDE DEF n
  <2> QED
    BY <1>3, <2>2, <2>3
<1> HIDE DEF n
<1>6. OfCommand(n + 1) = {p \in DOMAIN tokens : tokens[p].type # "PIPE" /\ PipesBefore(p) = n}
  BY <1>3 DEF OfCommand
<1>7. ASSUME NEW p \in a .. b - 1 PROVE p \in OfCommand(n + 1)
  BY <1>1, <1>2, <1>6, <1>7
<1>8. ASSUME NEW p \in OfCommand(n + 1) PROVE p \in a .. b - 1
  BY <1>1, <1>4, <1>5, <1>6, <1>8
<1>9. PipesBefore(b) = n
  BY <1>1, <1>2
<1> QED
  BY <1>7, <1>8, <1>9 DEF n

(***************************************************************************)
(* Translation, one token at a time.                                       *)
(***************************************************************************)

Rank(p, ps) == Cardinality({q \in ps : q <= p})
Placed(ps) == {<<Rank(p, ps), tokens[p].value>> : p \in ps}
Listed(argv) == {<<a, argv[a]>> : a \in DOMAIN argv}

LEMMA TranslatesIs ==
  ASSUME NEW c, NEW ps
  PROVE  Translates(c, ps) <=>
           /\ Placed(Arguments(ps)) = Listed(c.argv)
           /\ c.input_redirection = WordAt(FileNames("input_redir", ps))
           /\ c.output_redirection = WordAt(FileNames("output_redir", ps))
BY DEF Translates, Placed, Listed, Rank

LEMMA NothingTranslates ==
  /\ Translates(Nothing, {})
  /\ Len(Nothing.argv) = Cardinality(Arguments({}))
<1>1. Arguments({}) = {} /\ FileNames("input_redir", {}) = {} /\ FileNames("output_redir", {}) = {}
  BY DEF Arguments, FileNames
<1>2. Placed({}) = {} /\ Listed(<< >>) = {}
  BY DEF Placed, Listed
<1> QED
  BY <1>1, <1>2, TranslatesIs, FS_EmptySet DEF Nothing, WordAt

LEMMA ArgumentsOrNot ==
  ASSUME NEW ps, NEW c \in Simple, Translates(c, ps)
  PROVE  c.argv = << >> <=> Arguments(ps) = {}
<1>1. Placed(Arguments(ps)) = Listed(c.argv) /\ c.argv \in Seq(Str)
  BY TranslatesIs DEF Simple
<1>2. Placed(Arguments(ps)) = {} <=> Arguments(ps) = {}
  BY DEF Placed
<1>3. Listed(c.argv) = {} <=> DOMAIN c.argv = {}
  BY DEF Listed
<1>4. DOMAIN c.argv = {} <=> c.argv = << >>
  <2>1. \A s \in Seq(Str) : DOMAIN s = {} <=> s = << >>
    OBVIOUS
  <2> QED
    BY <1>1, <2>1
<1> QED
  BY <1>1, <1>2, <1>3, <1>4

\* A word gets the next place in argv.
LEMMA NextPlace ==
  ASSUME NEW argv \in Seq(Str), NEW args \in SUBSET Nat, IsFiniteSet(args), NEW b \in Nat,
         tokens[b].value \in Str,
         \A q \in args : q < b, Placed(args) = Listed(argv), Len(argv) = Cardinality(args)
  PROVE  /\ Placed(args \cup {b}) = Listed(Append(argv, tokens[b].value))
         /\ Len(Append(argv, tokens[b].value)) = Cardinality(args \cup {b})
<1> DEFINE more == args \cup {b}
           w == tokens[b].value
           n == Len(argv)
<1>1. b \notin args /\ Cardinality(more) = Cardinality(args) + 1
  <2>1. b \notin args
    OBVIOUS
  <2> QED
    BY <2>1, FS_AddElement
<1>2. ASSUME NEW p \in args PROVE Rank(p, more) = Rank(p, args)
  <2>1. {q \in more : q <= p} = {q \in args : q <= p}
    OBVIOUS
  <2> QED
    BY <2>1 DEF Rank
<1>3. Rank(b, more) = n + 1
  <2>1. \A q \in more : q <= b
    <3>1. \A q \in args : q \in Nat /\ q <= b
      OBVIOUS
    <3> QED
      BY <3>1
  <2>2. {q \in more : q <= b} = more
    BY <2>1
  <2> QED
    BY <1>1, <2>2 DEF Rank
<1>4. Placed(more) = Placed(args) \cup {<<n + 1, w>>}
  <2>1. ASSUME NEW e \in Placed(more) PROVE e \in Placed(args) \cup {<<n + 1, w>>}
    <3>1. PICK p \in more : e = <<Rank(p, more), tokens[p].value>>
      BY <2>1 DEF Placed
    <3> QED
      BY <1>2, <1>3, <3>1 DEF Placed
  <2>2. ASSUME NEW e \in Placed(args) PROVE e \in Placed(more)
    <3>1. PICK p \in args : e = <<Rank(p, args), tokens[p].value>>
      BY <2>2 DEF Placed
    <3> QED
      BY <1>2, <3>1 DEF Placed
  <2>3. <<n + 1, w>> \in Placed(more)
    BY <1>3 DEF Placed
  <2> QED
    BY <2>1, <2>2, <2>3
<1> HIDE DEF w
<1>5. /\ DOMAIN argv = 1 .. n /\ n \in Nat
      /\ DOMAIN Append(argv, w) = 1 .. n + 1
      /\ Append(argv, w)[n + 1] = w
      /\ \A a \in 1 .. n : Append(argv, w)[a] = argv[a]
      /\ Len(Append(argv, w)) = n + 1
  BY DEF w
<1>6. Listed(Append(argv, w)) = Listed(argv) \cup {<<n + 1, w>>}
  BY <1>5 DEF Listed
<1> QED
  BY <1>1, <1>4, <1>5, <1>6 DEF w

LEMMA Positions ==
  ASSUME NEW a \in Nat \ {0}, NEW b \in Nat, a <= b
  PROVE  /\ a .. b = (a .. b - 1) \cup {b} /\ b \notin a .. b - 1
         /\ Arguments(a .. b - 1) \in SUBSET Nat /\ IsFiniteSet(Arguments(a .. b - 1))
         /\ \A q \in Arguments(a .. b - 1) : q < b
         /\ ArgumentAt(b) => Arguments(a .. b) = Arguments(a .. b - 1) \cup {b}
         /\ ~ ArgumentAt(b) => Arguments(a .. b) = Arguments(a .. b - 1)
         /\ \A type :
              IF FileNameAt(b) /\ tokens[b - 1].type = type
              THEN FileNames(type, a .. b) = FileNames(type, a .. b - 1) \cup {b}
              ELSE FileNames(type, a .. b) = FileNames(type, a .. b - 1)
<1>1. a .. b = (a .. b - 1) \cup {b} /\ b \notin a .. b - 1
  OBVIOUS
<1>2. Arguments(a .. b - 1) \in SUBSET (a .. b - 1)
  BY DEF Arguments
<1>3. IsFiniteSet(Arguments(a .. b - 1))
  BY <1>2, FS_Interval, FS_Subset
<1>4. /\ ArgumentAt(b) => Arguments(a .. b) = Arguments(a .. b - 1) \cup {b}
      /\ ~ ArgumentAt(b) => Arguments(a .. b) = Arguments(a .. b - 1)
  BY <1>1 DEF Arguments
<1>5. ASSUME NEW type
      PROVE  IF FileNameAt(b) /\ tokens[b - 1].type = type
             THEN FileNames(type, a .. b) = FileNames(type, a .. b - 1) \cup {b}
             ELSE FileNames(type, a .. b) = FileNames(type, a .. b - 1)
  BY <1>1 DEF FileNames
<1> QED
  BY <1>1, <1>2, <1>3, <1>4, <1>5

LEMMA WordOfOne ==
  ASSUME NEW b PROVE WordAt({b}) = tokens[b].value
BY DEF WordAt

LEMMA WordTranslates ==
  ASSUME NEW a \in Nat \ {0}, NEW b \in Nat, a <= b, NEW c \in Simple, tokens[b].value \in Str,
         ArgumentAt(b), Translates(c, a .. b - 1),
         Len(c.argv) = Cardinality(Arguments(a .. b - 1)),
         NEW d \in Simple, d = [c EXCEPT !.argv = Append(@, tokens[b].value)]
  PROVE  Translates(d, a .. b) /\ Len(d.argv) = Cardinality(Arguments(a .. b))
<1>1. /\ d.argv = Append(c.argv, tokens[b].value) /\ c.argv \in Seq(Str)
      /\ d.input_redirection = c.input_redirection
      /\ d.output_redirection = c.output_redirection
  BY DEF Simple
<1>2. Arguments(a .. b) = Arguments(a .. b - 1) \cup {b}
  BY Positions
<1>3. \A type : FileNames(type, a .. b) = FileNames(type, a .. b - 1)
  BY Positions DEF ArgumentAt
<1>4. /\ Placed(Arguments(a .. b)) = Listed(d.argv)
      /\ Len(d.argv) = Cardinality(Arguments(a .. b))
  <2> DEFINE args == Arguments(a .. b - 1)
  <2>1. Placed(args) = Listed(c.argv)
    BY TranslatesIs
  <2>2. args \in SUBSET Nat /\ IsFiniteSet(args) /\ \A q \in args : q < b
    BY Positions
  <2> HIDE DEF args
  <2>3. /\ Placed(args \cup {b}) = Listed(Append(c.argv, tokens[b].value))
        /\ Len(Append(c.argv, tokens[b].value)) = Cardinality(args \cup {b})
    <3> DEFINE argv == c.argv
    <3>1. Len(argv) = Cardinality(args) /\ argv \in Seq(Str)
      BY <1>1 DEF args
    <3>2. Placed(args) = Listed(argv)
      BY <2>1
    <3> HIDE DEF argv
    <3>3. /\ Placed(args \cup {b}) = Listed(Append(argv, tokens[b].value))
          /\ Len(Append(argv, tokens[b].value)) = Cardinality(args \cup {b})
      <4>1. b \in Nat /\ tokens[b].value \in Str
        OBVIOUS
      <4>2. args \in SUBSET Nat /\ IsFiniteSet(args)
        BY <2>2
      <4>3. \A q \in args : q < b
        BY <2>2
      <4> QED
        BY ONLY <4>1, <4>2, <4>3, <3>1, <3>2, NextPlace
    <3> QED
      BY <3>3 DEF argv
  <2> QED
    BY <1>1, <1>2, <2>3 DEF args
<1> QED
  BY <1>1, <1>3, <1>4, TranslatesIs

LEMMA OtherTranslates ==
  ASSUME NEW a \in Nat \ {0}, NEW b \in Nat, a <= b, NEW c, ~ ArgumentAt(b), ~ FileNameAt(b)
  PROVE  /\ Translates(c, a .. b - 1) => Translates(c, a .. b)
         /\ Arguments(a .. b) = Arguments(a .. b - 1)
<1>1. Arguments(a .. b) = Arguments(a .. b - 1)
  BY Positions
<1>2. \A type : FileNames(type, a .. b) = FileNames(type, a .. b - 1)
  BY Positions
<1> QED
  BY <1>1, <1>2, TranslatesIs

LEMMA FileTranslates ==
  ASSUME NEW a \in Nat \ {0}, NEW b \in Nat, a <= b, NEW c \in Simple, tokens[b].value \in Str,
         FileNameAt(b), Translates(c, a .. b - 1),
         FileNames(tokens[b - 1].type, a .. b - 1) = {},
         NEW d \in Simple,
         d = IF tokens[b - 1].type = "input_redir"
             THEN [c EXCEPT !.input_redirection = tokens[b].value]
             ELSE [c EXCEPT !.output_redirection = tokens[b].value]
  PROVE  Translates(d, a .. b) /\ Arguments(a .. b) = Arguments(a .. b - 1) /\ d.argv = c.argv
<1>1. Arguments(a .. b) = Arguments(a .. b - 1) /\ d.argv = c.argv
  BY Positions DEF ArgumentAt, Simple
<1>2. CASE tokens[b - 1].type = "input_redir"
  <2>1. /\ FileNames("input_redir", a .. b) = {b}
        /\ FileNames("output_redir", a .. b) = FileNames("output_redir", a .. b - 1)
    BY <1>2, Positions
  <2>2. /\ d.input_redirection = tokens[b].value
        /\ d.output_redirection = c.output_redirection
    BY <1>2 DEF Simple
  <2> QED
    BY <1>1, <2>1, <2>2, WordOfOne, TranslatesIs
<1>3. CASE tokens[b - 1].type = "output_redir"
  <2>1. /\ FileNames("output_redir", a .. b) = {b}
        /\ FileNames("input_redir", a .. b) = FileNames("input_redir", a .. b - 1)
    BY <1>3, Positions
  <2>2. /\ d.output_redirection = tokens[b].value
        /\ d.input_redirection = c.input_redirection
    BY <1>3 DEF Simple
  <2> QED
    BY <1>1, <2>1, <2>2, WordOfOne, TranslatesIs
<1> QED
  BY <1>1, <1>2, <1>3 DEF FileNameAt, IsRedirection

(***************************************************************************)
(* Every step of the parser.                                               *)
(***************************************************************************)

\* Conditions on tokens alone stay while these do not change.
LEMMA SameTokens ==
  ASSUME tokens' = tokens
  PROVE  /\ \A p : PipesBefore(p)' = PipesBefore(p)
         /\ \A n : OfCommand(n)' = OfCommand(n)
         /\ \A ps : Arguments(ps)' = Arguments(ps)
         /\ \A ps : Once(ps)' <=> Once(ps)
         /\ \A c, ps : Translates(c, ps)' <=> Translates(c, ps)
         /\ Grammatical' <=> Grammatical
<1>1. \A p : PipesBefore(p)' = PipesBefore(p)
  BY DEF PipesBefore
<1>2. \A n : OfCommand(n)' = OfCommand(n)
  BY <1>1 DEF OfCommand
<1>3. \A ps : Arguments(ps)' = Arguments(ps)
  BY DEF Arguments, ArgumentAt, FileNameAt
<1>4. \A ps : Once(ps)' <=> Once(ps)
  BY DEF Once
<1>5. \A c, ps : Translates(c, ps)' <=> Translates(c, ps)
  <2>1. \A type, ps : FileNames(type, ps)' = FileNames(type, ps)
    BY DEF FileNames, FileNameAt
  <2>2. \A ps : WordAt(ps)' = WordAt(ps)
    BY DEF WordAt
  <2> QED
    BY <1>3, <2>1, <2>2 DEF Translates
<1>6. Grammatical' <=> Grammatical
  BY <1>1, <1>2, <1>3, <1>4 DEF Grammatical
<1> QED
  BY <1>1, <1>2, <1>3, <1>4, <1>5, <1>6

LEMMA SamePipes ==
  ASSUME NEW a \in Nat \ {0}, NEW b \in Nat, a <= b, \A p \in a .. b - 1 : tokens[p].type # "PIPE"
  PROVE  PipesBefore(b) = PipesBefore(a)
<1>1. PipesUpTo(b) = PipesUpTo(a)
  BY DEF PipesUpTo
<1> QED
  BY <1>1, PipesAreFinite

LEMMA OnceMore ==
  ASSUME NEW a \in Nat, NEW b \in Nat, Once(a .. b - 1),
         IsRedirection(tokens[b]) => \A q \in a .. b - 1 : tokens[q].type # tokens[b].type
  PROVE  Once(a .. b)
<1> SUFFICES ASSUME NEW p \in a .. b, NEW q \in a .. b, IsRedirection(tokens[p]),
                    tokens[p].type = tokens[q].type
             PROVE  p = q
  BY DEF Once
<1>1. CASE p \in a .. b - 1 /\ q \in a .. b - 1
  BY <1>1 DEF Once
<1>2. CASE p = b
  BY <1>2
<1>3. CASE q = b /\ p # b
  BY <1>3 DEF IsRedirection
<1> QED
  BY <1>1, <1>2, <1>3

LEMMA NoFile ==
  ASSUME NEW ps, ps \subseteq DOMAIN tokens, \A p \in DOMAIN tokens : tokens[p].value # << >>,
         NEW type
  PROVE  WordAt(FileNames(type, ps)) = << >> <=> FileNames(type, ps) = {}
<1>1. FileNames(type, ps) \subseteq DOMAIN tokens
  BY DEF FileNames
<1> QED
  BY <1>1 DEF WordAt

\* Where the parser is
LEMMA Where ==
  ASSUME IInv, Parsed, at = "parse"
  PROVE  /\ tokens \in Seq(Tok) /\ Len(tokens) \in Nat /\ DOMAIN tokens = 1 .. Len(tokens)
         /\ start \in Nat \ {0} /\ pos \in Nat \ {0} /\ start <= pos /\ pos <= Len(tokens) + 1
         /\ simple \in Simple /\ simple.argv \in Seq(Str) /\ commands \in Seq(Simple)
         /\ Len(commands) \in Nat
         /\ \A p \in 1 .. Len(tokens) : tokens[p] \in Tok /\ tokens[p].value # << >>
         /\ start .. pos - 1 \subseteq DOMAIN tokens
         /\ Segment /\ Pending /\ Translated /\ quote = "none" /\ tokens # << >>
         /\ Len(commands) + 1 \in 1 .. PipesBefore(Len(tokens) + 1) + 1
<1>1. /\ tokens \in Seq(Tok) /\ Len(tokens) \in Nat /\ DOMAIN tokens = 1 .. Len(tokens)
      /\ commands \in Seq(Simple) /\ Len(commands) \in Nat /\ simple \in Simple
  BY DEF IInv, TypeOK, Tok
<1>2. /\ Segment /\ Pending /\ Translated /\ quote = "none" /\ tokens # << >>
      /\ start <= pos /\ start \in 1 .. Len(tokens) + 1 /\ pos \in 1 .. Len(tokens) + 1
  BY DEF Parsed, Segment, IInv, TypeOK
<1>3. start \in Nat \ {0} /\ pos \in Nat \ {0} /\ start .. pos - 1 \subseteq DOMAIN tokens /\ pos <= Len(tokens) + 1
  BY <1>1, <1>2
<1>4. \A p \in 1 .. Len(tokens) : tokens[p] \in Tok /\ tokens[p].value # << >>
  BY <1>1 DEF IInv
<1>5. Len(commands) <= PipesBefore(Len(tokens) + 1) /\ PipesBefore(Len(tokens) + 1) \in Nat
  <2>1. PipesBefore(start) = Len(commands) /\ start <= Len(tokens) + 1 /\ Len(tokens) + 1 \in Nat
    BY <1>1, <1>2, <1>3 DEF Segment
  <2> QED
    BY <1>3, <2>1, Pipes
<1>6. simple.argv \in Seq(Str)
  BY <1>1 DEF Simple
<1> QED
  BY <1>1, <1>2, <1>3, <1>4, <1>5, <1>6

LEMMA NothingParsed ==
  ASSUME Init PROVE Parsed
BY DEF Init, Parsed, AcceptsGrammar, CommandsMatchTokens

LEMMA TokenizeParsed ==
  ASSUME Parsed, Quoted \/ OpenQuote \/ Whitespace \/ Operator \/ Letter
  PROVE  Parsed'
<1>1. at = "tokenize" /\ at' = at /\ UNCHANGED <<commands, simple, redir_side>>
  BY DEF Quoted, OpenQuote, Whitespace, Operator, Letter, Tokenizing, parser
<1> QED
  BY <1>1 DEF Parsed, AcceptsGrammar, CommandsMatchTokens

LEMMA NothingTranslatesNext ==
  (Translates(Nothing, {}) /\ Len(Nothing.argv) = Cardinality(Arguments({})) /\ PipesBefore(1) = 0)'
<1>1. Translates(Nothing, {}) /\ Len(Nothing.argv) = Cardinality(Arguments({})) /\ PipesBefore(1) = 0
  BY NothingTranslates, Pipes
<1> QED
  BY <1>1, PTL

LEMMA EndOfLineParsed ==
  ASSUME IInv, Parsed, EndOfLine
  PROVE  Parsed'
<1>1. /\ at = "tokenize" /\ start = 1 /\ pos = 1
      /\ commands = << >> /\ simple = Nothing /\ redir_side = "NONE"
      /\ UNCHANGED <<quote, start, pos, redir_side, simple, commands>>
  BY DEF EndOfLine, IInv, Parsed, scanner, parser
<1>2. CASE at' = "rejected"
  <2>1. quote' # "none" \/ tokens' = << >>
    BY <1>1, <1>2 DEF EndOfLine
  <2> QED
    BY <1>2, <2>1 DEF Parsed, AcceptsGrammar, CommandsMatchTokens, Grammatical
<1>3. CASE at' # "rejected"
  <2>1. at' = "parse" /\ quote' = "none" /\ tokens' # << >>
    BY <1>1, <1>3 DEF EndOfLine
  <2>2. start' = 1 /\ pos' = 1 /\ commands' = << >> /\ simple' = Nothing /\ redir_side' = "NONE"
    BY <1>1
  <2>3. 1 .. 1 - 1 = {} /\ 1 .. 1 - 2 = {} /\ Len(<< >>) = 0 /\ DOMAIN << >> = {}
    OBVIOUS
  <2>4. Segment'
    BY <2>2, <2>3, NothingTranslatesNext DEF Segment
  <2>5. Pending'
    BY <2>2, <2>3 DEF Pending, Once
  <2>6. Translated'
    BY <2>2, <2>3, NothingTranslatesNext DEF Translated
  <2> QED
    BY <2>1, <2>4, <2>5, <2>6 DEF Parsed, AcceptsGrammar, CommandsMatchTokens
<1> QED
  BY <1>2, <1>3

\* What every action of parse_simple_command does
LEMMA InSegment ==
  ASSUME IInv, Parsed, Parsing
  PROVE  /\ at = "parse" /\ pos \in 1 .. Len(tokens) /\ tokens[pos].type # "PIPE" /\ pos' = pos + 1
         /\ UNCHANGED <<quote, tokens, start, commands>>
         /\ pos' - 1 = pos /\ pos' - 2 = pos - 1 /\ pos - 1 \in Nat
         /\ Segment'
<1>1. /\ at = "parse" /\ tokens[pos].type # "PIPE" /\ pos <= Len(tokens) /\ pos' = pos + 1
      /\ UNCHANGED <<quote, tokens, start, commands>>
  BY DEF Parsing, InSimple, Token, scanner
<1>2. /\ start <= pos /\ start \in Nat \ {0} /\ pos \in Nat \ {0} /\ Len(tokens) \in Nat
      /\ Segment
  BY <1>1, Where
<1>3. pos \in 1 .. Len(tokens) /\ pos' - 1 = pos /\ pos' - 2 = pos - 1 /\ pos - 1 \in Nat
  BY <1>1, <1>2
<1>4. Segment'
  <2>1. PipesBefore(start)' = PipesBefore(start)
    BY <1>1, SameTokens
  <2>2. \A p \in start .. pos' - 1 : p \in start .. pos - 1 \/ p = pos
    BY <1>2, <1>3
  <2> QED
    BY <1>1, <1>2, <1>3, <2>1, <2>2 DEF Segment
<1> QED
  BY <1>1, <1>3, <1>4

\* A token that is refused breaks the grammar.
LEMMA RejectParsed ==
  ASSUME Parsed, at' = "rejected", tokens' = tokens, ~ Grammatical
  PROVE  Parsed'
<1>1. ~ Grammatical'
  BY SameTokens
<1> QED
  BY <1>1 DEF Parsed, AcceptsGrammar, CommandsMatchTokens

\* A token that is neither a word nor the last of a simple command's
LEMMA StillParsed ==
  ASSUME IInv, Parsed, Parsing, at' = at, Pending',
         Translates(simple', start .. pos),
         Len(simple'.argv) = Cardinality(Arguments(start .. pos))
  PROVE  Parsed'
<1>1. /\ UNCHANGED <<quote, tokens, start, commands>> /\ pos' - 1 = pos /\ Segment' /\ at = "parse"
  BY InSegment
<1>2. quote = "none" /\ tokens # << >> /\ Translated
  BY <1>1, Where
<1>3. Translated'
  <2>1. Translates(simple, start .. pos - 1)' /\ Arguments(start .. pos - 1)' = Arguments(start .. pos)
    BY <1>1, SameTokens
  <2>2. Len(simple'.argv) = Cardinality(Arguments(start .. pos - 1)')
    BY <2>1
  <2>3. \A n \in DOMAIN commands :
          (Translates(commands[n], OfCommand(n)) /\ Arguments(OfCommand(n)) # {} /\ Once(OfCommand(n)))'
    BY <1>1, <1>2, SameTokens DEF Translated
  <2> QED
    BY <1>1, <2>1, <2>2, <2>3 DEF Translated
<1> QED
  BY <1>1, <1>2, <1>3 DEF Parsed, AcceptsGrammar, CommandsMatchTokens

\* The redirection before the position has its file name.
LEMMA NoneWaits ==
  ASSUME IInv, Parsed, at = "parse", redir_side = "NONE"
  PROVE  /\ \A p \in 1 .. pos - 1 : p = pos - 1 => ~ IsRedirection(tokens[p])
         /\ \A p \in 1 .. pos - 1 : IsRedirection(tokens[p]) => tokens[p + 1].type = "WORD" /\ p < pos - 1
         /\ Once(start .. pos - 1)
<1>1. Pending /\ pos \in Nat \ {0} /\ start \in Nat \ {0}
  BY Where
<1>2. \A p \in 1 .. pos - 1 : p = pos - 1 => ~ IsRedirection(tokens[p])
  BY <1>1 DEF Pending
<1>3. \A p \in 1 .. pos - 1 : p = pos - 1 \/ (p \in 1 .. pos - 2 /\ p < pos - 1)
  <2>1. pos \in Nat
    BY <1>1
  <2> QED
    BY ONLY <2>1
<1>4. Once(start .. pos - 1)
  <2>1. CASE start <= pos - 1
    <3> DEFINE b == pos - 1
    <3>1. b \in Nat /\ b - 1 = pos - 2 /\ b \in 1 .. pos - 1
      BY <1>1, <2>1
    <3>2. Once(start .. b - 1) /\ ~ IsRedirection(tokens[b])
      BY <1>1, <1>2, <3>1 DEF Pending
    <3> HIDE DEF b
    <3>3. Once(start .. b)
      BY <1>1, <3>1, <3>2, OnceMore
    <3> QED
      BY <3>3 DEF b
  <2>2. CASE ~ (start <= pos - 1)
    <3>1. start .. pos - 1 = {}
      BY <1>1, <2>2
    <3> QED
      BY <3>1 DEF Once
  <2> QED
    BY <2>1, <2>2
<1> QED
  BY <1>1, <1>2, <1>3, <1>4 DEF Pending

LEMMA WordParsed ==
  ASSUME IInv, Parsed, Word
  PROVE  Parsed'
<1>1. /\ Parsing /\ at = "parse" /\ redir_side = "NONE" /\ redir_side' = "NONE" /\ at' = at
      /\ tokens[pos].type = "WORD"
      /\ simple' = [simple EXCEPT !.argv = Append(@, tokens[pos].value)]
  BY DEF Word, Parsing, Token
<1>2. /\ start \in Nat \ {0} /\ pos \in Nat \ {0} /\ start <= pos /\ simple \in Simple
      /\ pos \in 1 .. Len(tokens) /\ tokens[pos].value \in Str
      /\ Pending /\ Translated
  BY <1>1, Where, InSegment DEF Tok
<1>3. ArgumentAt(pos)
  <2>1. pos > 1 => pos - 1 \in 1 .. pos - 1
    BY <1>2
  <2> QED
    BY <1>1, <2>1, NoneWaits DEF ArgumentAt, FileNameAt
<1>4. simple' \in Simple
  <2>1. IInv'
    BY SimpleStep
  <2> QED
    BY <2>1 DEF IInv, TypeOK
<1>5. /\ Translates(simple', start .. pos)
      /\ Len(simple'.argv) = Cardinality(Arguments(start .. pos))
  <2>1. Translates(simple, start .. pos - 1) /\ Len(simple.argv) = Cardinality(Arguments(start .. pos - 1))
    BY <1>2 DEF Translated
  <2> QED
    BY <1>1, <1>2, <1>3, <1>4, <2>1, WordTranslates
<1>6. Pending'
  <2>1. tokens' = tokens /\ start' = start /\ pos' - 1 = pos /\ pos' - 2 = pos - 1
    BY <1>1, InSegment
  <2>2. \A p \in 1 .. pos : p \in 1 .. pos - 1 \/ p = pos
    BY <1>2
  <2>3. \A p \in 1 .. pos : tokens[p].type # "BACKGROUND"
    BY <1>1, <1>2, <2>2 DEF Pending
  <2>4. Once(start .. pos - 2)'
    BY <1>1, <2>1, NoneWaits, SameTokens
  <2> QED
    BY <1>1, <2>1, <2>3, <2>4, NoneWaits DEF Pending, IsRedirection
<1> QED
  BY <1>1, <1>5, <1>6, StillParsed

LEMMA RedirectionParsed ==
  ASSUME IInv, Parsed, Redirection
  PROVE  Parsed'
<1>1. /\ Parsing /\ at = "parse" /\ redir_side = "NONE" /\ at' = at /\ simple' = simple
      /\ IsRedirection(tokens[pos]) /\ redir_side' = Side(tokens[pos].type)
  BY DEF Redirection, Parsing, Token, IsRedirection, Side
<1>2. /\ start \in Nat \ {0} /\ pos \in Nat \ {0} /\ start <= pos
      /\ pos \in 1 .. Len(tokens) /\ Pending /\ Translated
  BY <1>1, Where, InSegment
<1>3. ~ ArgumentAt(pos) /\ ~ FileNameAt(pos)
  BY <1>1 DEF ArgumentAt, FileNameAt, IsRedirection
<1>4. /\ Translates(simple', start .. pos)
      /\ Len(simple'.argv) = Cardinality(Arguments(start .. pos))
  BY <1>1, <1>2, <1>3, OtherTranslates DEF Translated
<1>5. Pending'
  <2>1. tokens' = tokens /\ start' = start /\ pos' - 1 = pos /\ pos' - 2 = pos - 1 /\ start' < pos'
    BY <1>1, <1>2, InSegment
  <2>2. \A p \in 1 .. pos : p \in 1 .. pos - 1 \/ p = pos
    BY <1>2
  <2>3. \A p \in 1 .. pos : tokens[p].type # "BACKGROUND"
    BY <1>1, <1>2, <2>2 DEF Pending, IsRedirection
  <2>4. Once(start .. pos - 2)'
    BY <1>1, <2>1, NoneWaits, SameTokens
  <2>5. redir_side' # "NONE"
    BY <1>1 DEF Side
  <2> QED
    BY <1>1, <2>1, <2>3, <2>4, <2>5, NoneWaits DEF Pending, IsRedirection
<1> QED
  BY <1>1, <1>4, <1>5, StillParsed

LEMMA AmpersandParsed ==
  ASSUME IInv, Parsed, Ampersand
  PROVE  Parsed'
<1>1. Parsing /\ at' = "rejected" /\ tokens[pos].type = "BACKGROUND"
  BY DEF Ampersand, Reject, Token
<1>2. at = "parse" /\ pos \in 1 .. Len(tokens) /\ tokens' = tokens
  BY <1>1, InSegment
<1>3. pos \in DOMAIN tokens
  BY <1>2, Where
<1>4. ~ Grammatical
  BY <1>1, <1>3 DEF Grammatical
<1> QED
  BY <1>1, <1>2, <1>4, RejectParsed

\* The redirection that waits, and whether its kind was given before
LEMMA Waiting ==
  ASSUME IInv, Parsed, at = "parse", redir_side # "NONE"
  PROVE  /\ pos - 1 \in start .. pos - 1 /\ pos - 1 \in Nat \ {0} /\ IsRedirection(tokens[pos - 1])
         /\ redir_side = Side(tokens[pos - 1].type)
         /\ Given <=> FileNames(tokens[pos - 1].type, start .. pos - 1) # {}
<1>1. /\ start \in Nat \ {0} /\ pos \in Nat \ {0} /\ Pending /\ Translated
      /\ start .. pos - 1 \subseteq DOMAIN tokens
      /\ \A p \in DOMAIN tokens : tokens[p].value # << >>
  BY Where DEF IInv
<1>2. start < pos /\ IsRedirection(tokens[pos - 1]) /\ redir_side = Side(tokens[pos - 1].type)
  BY <1>1 DEF Pending
<1>3. pos - 1 \in start .. pos - 1 /\ pos - 1 \in Nat \ {0}
  <2>1. start \in Nat \ {0} /\ pos \in Nat /\ start < pos
    BY <1>1, <1>2
  <2> QED
    BY ONLY <2>1
<1>4. /\ simple.input_redirection = WordAt(FileNames("input_redir", start .. pos - 1))
      /\ simple.output_redirection = WordAt(FileNames("output_redir", start .. pos - 1))
  BY <1>1, TranslatesIs DEF Translated
<1>5. Given <=> FileNames(tokens[pos - 1].type, start .. pos - 1) # {}
  <2>1. CASE tokens[pos - 1].type = "input_redir"
    <3>1. Given <=> simple.input_redirection # << >>
      BY <1>2, <2>1 DEF Side, Given
    <3> QED
      BY <1>1, <1>4, <2>1, <3>1, NoFile
  <2>2. CASE tokens[pos - 1].type = "output_redir"
    <3>1. Given <=> simple.output_redirection # << >>
      BY <1>2, <2>2 DEF Side, Given
    <3> QED
      BY <1>1, <1>4, <2>2, <3>1, NoFile
  <2> QED
    BY <1>2, <2>1, <2>2 DEF IsRedirection
<1> QED
  BY <1>2, <1>3, <1>5

\* A redirection that is given twice is one of the same simple command.
LEMMA TwiceIsWrong ==
  ASSUME IInv, Parsed, at = "parse", redir_side # "NONE", Given
  PROVE  ~ Grammatical
<1> DEFINE b == pos - 1
           type == tokens[b].type
           n == Len(commands) + 1
<1>1. /\ tokens \in Seq(Tok) /\ DOMAIN tokens = 1 .. Len(tokens) /\ Len(tokens) \in Nat
      /\ start \in Nat \ {0} /\ pos \in Nat \ {0} /\ start .. pos - 1 \subseteq DOMAIN tokens
      /\ Segment /\ n \in 1 .. PipesBefore(Len(tokens) + 1) + 1 /\ Len(commands) \in Nat
  BY Where
<1>2. b \in start .. pos - 1 /\ b \in Nat \ {0} /\ IsRedirection(tokens[b])
  BY Waiting
<1>3. PICK f \in start .. pos - 1 : f > 1 /\ IsRedirection(tokens[f - 1]) /\ tokens[f - 1].type = type /\ tokens[f].type = "WORD"
  BY Waiting DEF FileNames, FileNameAt
<1>4. f # start
  BY <1>1, <1>3 DEF Segment, IsRedirection
<1>5. f - 1 \in start .. pos - 1 /\ f - 1 # b
  BY <1>1, <1>3, <1>4
<1>6. ASSUME NEW p \in start .. pos - 1 PROVE p \in OfCommand(n)
  <2>1. p \in DOMAIN tokens /\ tokens[p].type # "PIPE" /\ \A q \in start .. p - 1 : tokens[q].type # "PIPE"
    BY <1>1 DEF Segment
  <2>2. PipesBefore(p) = PipesBefore(start)
    <3>1. p \in Nat /\ start <= p
      BY <1>1
    <3> QED
      BY <1>1, <2>1, <3>1, SamePipes
  <2>3. PipesBefore(p) = n - 1
    BY <1>1, <2>2 DEF Segment
  <2> QED
    BY <2>1, <2>3 DEF OfCommand
<1>7. f - 1 \in OfCommand(n) /\ b \in OfCommand(n)
  BY <1>2, <1>5, <1>6
<1> HIDE DEF n, b
<1>8. ~ Once(OfCommand(n))
  BY <1>2, <1>3, <1>5, <1>7 DEF Once
<1> QED
  BY <1>1, <1>8 DEF Grammatical

LEMMA FileNameParsed ==
  ASSUME IInv, Parsed, FileName
  PROVE  Parsed'
<1> DEFINE b == pos - 1
           type == tokens[b].type
<1>1. Parsing /\ at = "parse" /\ redir_side # "NONE"
  BY DEF FileName, Parsing
<1>2. /\ start \in Nat \ {0} /\ pos \in Nat \ {0} /\ start <= pos /\ simple \in Simple
      /\ pos \in 1 .. Len(tokens) /\ tokens[pos].value \in Str /\ tokens' = tokens
      /\ Pending /\ Translated /\ Segment
      /\ DOMAIN tokens = 1 .. Len(tokens) /\ Len(tokens) \in Nat
  BY <1>1, Where, InSegment DEF Tok
<1>3. /\ b \in start .. pos - 1 /\ b \in Nat \ {0} /\ IsRedirection(tokens[b]) /\ b + 1 = pos
      /\ redir_side = Side(type)
      /\ Given <=> FileNames(type, start .. pos - 1) # {}
  BY <1>1, <1>2, Waiting
<1>4. CASE tokens[pos].type # "WORD"
  <2>1. b \in DOMAIN tokens /\ tokens[b + 1].type # "WORD"
    BY <1>2, <1>3, <1>4
  <2>2. ~ Grammatical
    BY <1>3, <2>1 DEF Grammatical
  <2>3. at' = "rejected"
    BY <1>4 DEF FileName, Reject, Token
  <2> QED
    BY <1>2, <2>2, <2>3, RejectParsed
<1>5. CASE Given
  <2>1. at' = "rejected"
    BY <1>5 DEF FileName, Reject
  <2> QED
    BY <1>1, <1>2, <1>5, <2>1, TwiceIsWrong, RejectParsed
<1>6. CASE tokens[pos].type = "WORD" /\ ~ Given
  <2>1. /\ at' = at /\ redir_side' = "NONE"
        /\ simple' = IF redir_side = "IN"
                     THEN [simple EXCEPT !.input_redirection = tokens[pos].value]
                     ELSE [simple EXCEPT !.output_redirection = tokens[pos].value]
    BY <1>6 DEF FileName, Token
  <2>2. redir_side = "IN" <=> type = "input_redir"
    BY <1>3 DEF Side
  <2>3. simple' \in Simple
    <3>1. IInv'
      BY SimpleStep
    <3> QED
      BY <3>1 DEF IInv, TypeOK
  <2>4. FileNameAt(pos) /\ FileNames(type, start .. pos - 1) = {}
    BY <1>2, <1>3, <1>6 DEF FileNameAt
  <2>5. /\ Translates(simple', start .. pos)
        /\ Arguments(start .. pos) = Arguments(start .. pos - 1) /\ simple'.argv = simple.argv
    BY <1>2, <2>1, <2>2, <2>3, <2>4, FileTranslates DEF Translated
  <2>6. Len(simple'.argv) = Cardinality(Arguments(start .. pos))
    BY <1>2, <2>5 DEF Translated
  <2>7. Once(start .. b)
    <3>1. ASSUME NEW q \in start .. b - 1, tokens[q].type = type PROVE FALSE
      <4>1. IsRedirection(tokens[q]) /\ q \in 1 .. pos - 2 /\ q \in Nat
        BY <1>2, <1>3, <3>1 DEF IsRedirection
      <4>2. tokens[q + 1].type = "WORD"
        BY <1>2, <4>1 DEF Pending
      <4>3. q + 1 > 1 /\ q + 1 - 1 = q /\ q + 1 \in start .. pos - 1
        BY <1>2, <1>3, <4>1
      <4>4. FileNameAt(q + 1) /\ tokens[q + 1 - 1].type = type
        BY <3>1, <4>1, <4>2, <4>3 DEF FileNameAt
      <4>5. q + 1 \in FileNames(type, start .. pos - 1)
        BY <4>3, <4>4 DEF FileNames
      <4> QED
        BY <2>4, <4>5
    <3>2. b - 1 = pos - 2 /\ Once(start .. pos - 2)
      BY <1>2 DEF Pending
    <3> HIDE DEF b
    <3> QED
      BY <1>2, <1>3, <3>1, <3>2, OnceMore
  <2>8. Pending'
    <3>1. start' = start /\ pos' - 1 = pos /\ pos' - 2 = pos - 1
      BY <1>1, InSegment
    <3>2. \A p \in 1 .. pos : p \in 1 .. pos - 1 \/ p = pos
      BY <1>2
    <3>3. \A p \in 1 .. pos : tokens[p].type # "BACKGROUND"
      BY <1>2, <1>6, <3>2 DEF Pending
    <3>4. \A p \in 1 .. pos - 1 : p \in 1 .. pos - 2 \/ p = pos - 1
      BY <1>2
    <3>5. \A p \in 1 .. pos - 1 : IsRedirection(tokens[p]) => tokens[p + 1].type = "WORD"
      BY <1>2, <1>3, <1>6, <3>4 DEF Pending
    <3>6. Once(start .. pos - 2)'
      BY <1>2, <2>7, <3>1, SameTokens
    <3> QED
      BY <1>2, <1>6, <2>1, <3>1, <3>3, <3>5, <3>6 DEF Pending, IsRedirection
  <2> QED
    BY <1>1, <2>1, <2>5, <2>6, <2>8, StillParsed
<1> QED
  BY <1>4, <1>5, <1>6

\* The tokens of the simple command end at the position.
LEMMA AtItsEnd ==
  ASSUME IInv, Parsed, at = "parse", ~ InSimple
  PROVE  /\ pos <= Len(tokens) => tokens[pos].type = "PIPE"
         /\ PipesBefore(pos) = Len(commands)
         /\ OfCommand(Len(commands) + 1) = start .. pos - 1
<1>1. pos <= Len(tokens) => tokens[pos].type = "PIPE"
  BY DEF InSimple, Token
<1>2. /\ tokens \in Seq(Tok) /\ start \in 1 .. Len(tokens) + 1 /\ pos \in start .. Len(tokens) + 1
      /\ Segment
  BY Where
<1> QED
  BY <1>1, <1>2, SegmentIs DEF Segment

\* The tokens of a simple command that is refused break the grammar.
LEMMA BadSimple ==
  ASSUME IInv, Parsed, at = "parse", ~ InSimple,
         pos = start \/ redir_side # "NONE" \/ simple.argv = << >>
  PROVE  ~ Grammatical
<1> DEFINE n == Len(commands) + 1
<1>1. /\ n \in 1 .. PipesBefore(Len(tokens) + 1) + 1 /\ Translated /\ simple \in Simple
      /\ start \in Nat \ {0} /\ pos \in Nat \ {0} /\ pos <= Len(tokens) + 1
      /\ DOMAIN tokens = 1 .. Len(tokens) /\ Len(tokens) \in Nat
      /\ start .. pos - 1 \subseteq DOMAIN tokens
  BY Where
<1>2. OfCommand(n) = start .. pos - 1 /\ (pos <= Len(tokens) => tokens[pos].type = "PIPE")
  BY AtItsEnd
<1> HIDE DEF n
<1>3. ASSUME Arguments(start .. pos - 1) = {} PROVE ~ Grammatical
  BY <1>1, <1>2, <1>3 DEF Grammatical
<1>4. CASE pos = start
  <2>1. start .. pos - 1 = {}
    BY <1>1, <1>4
  <2> QED
    BY <1>3, <2>1 DEF Arguments
<1>5. CASE redir_side # "NONE"
  <2> DEFINE b == pos - 1
  <2>1. b \in DOMAIN tokens /\ IsRedirection(tokens[b]) /\ b + 1 = pos
    BY <1>1, <1>5, Waiting
  <2>2. b < Len(tokens) => tokens[b + 1].type # "WORD"
    BY <1>1, <1>2, <2>1
  <2> HIDE DEF b
  <2> QED
    BY <2>1, <2>2 DEF Grammatical
<1>6. CASE simple.argv = << >>
  BY <1>1, <1>3, <1>6, ArgumentsOrNot DEF Translated
<1> QED
  BY <1>4, <1>5, <1>6

\* The simple command that is added is the translation of its tokens.
LEMMA OneMore ==
  ASSUME IInv, Parsed, EndOfSimple, commands' # commands
  PROVE  /\ at = "parse" /\ ~ InSimple /\ redir_side = "NONE"
         /\ UNCHANGED <<quote, tokens, redir_side>>
         /\ commands' = Append(commands, simple) /\ Len(commands') = Len(commands) + 1
         /\ \A n \in DOMAIN commands' :
              /\ Translates(commands'[n], OfCommand(n))
              /\ Arguments(OfCommand(n)) # {} /\ Once(OfCommand(n))
<1>1. /\ at = "parse" /\ ~ InSimple /\ redir_side = "NONE" /\ simple.argv # << >>
      /\ UNCHANGED <<quote, tokens, redir_side>> /\ commands' = Append(commands, simple)
  BY DEF EndOfSimple, scanner
<1>2. commands \in Seq(Simple) /\ simple \in Simple /\ Translated
  BY <1>1, Where
<1>3. /\ Len(commands') = Len(commands) + 1
      /\ \A n \in DOMAIN commands' :
           \/ n \in DOMAIN commands /\ commands'[n] = commands[n]
           \/ n = Len(commands) + 1 /\ commands'[n] = simple
  BY <1>1, <1>2
<1>4. /\ Translates(simple, OfCommand(Len(commands) + 1))
      /\ Arguments(OfCommand(Len(commands) + 1)) # {} /\ Once(OfCommand(Len(commands) + 1))
  BY <1>1, <1>2, AtItsEnd, NoneWaits, ArgumentsOrNot DEF Translated
<1> QED
  BY <1>1, <1>2, <1>3, <1>4 DEF Translated

LEMMA AcceptedParsed ==
  ASSUME IInv, Parsed, EndOfSimple, commands' # commands, pos > Len(tokens)
  PROVE  Parsed'
<1>1. /\ at = "parse" /\ redir_side = "NONE" /\ UNCHANGED <<quote, tokens>>
      /\ Len(commands') = Len(commands) + 1 /\ PipesBefore(pos) = Len(commands)
      /\ \A n \in DOMAIN commands' :
           /\ Translates(commands'[n], OfCommand(n))
           /\ Arguments(OfCommand(n)) # {} /\ Once(OfCommand(n))
  BY OneMore, AtItsEnd
<1>2. at' = "accepted"
  BY DEF EndOfSimple
<1>3. /\ quote = "none" /\ tokens # << >> /\ Pending /\ pos = Len(tokens) + 1 /\ pos - 1 = Len(tokens)
      /\ DOMAIN tokens = 1 .. Len(tokens) /\ Len(tokens) \in Nat
  BY <1>1, Where
<1>4. DOMAIN commands' = 1 .. Len(commands')
  <2>1. IInv'
    BY EndOfSimpleStep
  <2> QED
    BY <2>1 DEF IInv, TypeOK
<1>5. Grammatical
  <2>1. \A p \in DOMAIN tokens : tokens[p].type # "BACKGROUND"
    BY <1>3 DEF Pending
  <2>2. \A p \in DOMAIN tokens : IsRedirection(tokens[p]) => p < Len(tokens) /\ tokens[p + 1].type = "WORD"
    BY <1>1, <1>3, NoneWaits
  <2>3. \A n \in 1 .. PipesBefore(Len(tokens) + 1) + 1 : Arguments(OfCommand(n)) # {} /\ Once(OfCommand(n))
    BY <1>1, <1>3, <1>4
  <2> QED
    BY <1>3, <2>1, <2>2, <2>3 DEF Grammatical
<1>6. AcceptsGrammar'
  BY <1>1, <1>2, <1>3, <1>5, SameTokens DEF AcceptsGrammar
<1>7. CommandsMatchTokens'
  BY <1>1, <1>3, SameTokens DEF CommandsMatchTokens
<1> QED
  BY <1>2, <1>6, <1>7 DEF Parsed

LEMMA PipeParsed ==
  ASSUME IInv, Parsed, EndOfSimple, commands' # commands, pos <= Len(tokens)
  PROVE  Parsed'
<1>1. /\ at = "parse" /\ redir_side = "NONE" /\ redir_side' = "NONE" /\ UNCHANGED <<quote, tokens>>
      /\ Len(commands') = Len(commands) + 1 /\ PipesBefore(pos) = Len(commands)
      /\ tokens[pos].type = "PIPE"
      /\ \A n \in DOMAIN commands' :
           /\ Translates(commands'[n], OfCommand(n))
           /\ Arguments(OfCommand(n)) # {} /\ Once(OfCommand(n))
  BY OneMore, AtItsEnd
<1>2. /\ quote = "none" /\ tokens # << >> /\ Pending /\ pos \in Nat \ {0} /\ Len(commands) \in Nat
      /\ Len(tokens) \in Nat
  BY <1>1, Where
<1>3. at' = "parse" /\ start' = pos + 1 /\ pos' = pos + 1 /\ simple' = Nothing
  BY <1>1, <1>2 DEF EndOfSimple, AfterPipe
<1>4. /\ pos' - 1 = pos /\ pos' - 2 = pos - 1 /\ start' - 1 = pos /\ start' > 1
      /\ start' .. pos' - 1 = {} /\ start' .. pos' - 2 = {}
  <2>1. ASSUME NEW n \in Nat \ {0}
        PROVE  /\ n + 1 - 1 = n /\ n + 1 - 2 = n - 1 /\ n + 1 > 1
               /\ (n + 1) .. n = {} /\ (n + 1) .. n - 1 = {}
    OBVIOUS
  <2> QED
    BY <1>2, <1>3, <2>1
<1>5. Segment'
  <2>1. PipesBefore(start') = Len(commands')
    BY <1>1, <1>2, <1>3, Pipes
  <2>2. PipesBefore(start)' = Len(commands')
    BY <1>1, <2>1, SameTokens
  <2>3. start' <= pos' /\ \A p \in start' .. pos' - 1 : FALSE
    BY <1>2, <1>3, <1>4
  <2>4. tokens'[start' - 1].type = "PIPE"
    BY <1>1, <1>4
  <2> QED
    BY <2>2, <2>3, <2>4 DEF Segment
<1>6. Pending'
  <2>1. \A p \in 1 .. pos : p \in 1 .. pos - 1 \/ p = pos
    BY <1>2
  <2>2. \A p \in 1 .. pos : tokens[p].type # "BACKGROUND"
    BY <1>1, <1>2, <2>1 DEF Pending
  <2>3. Once(start .. pos - 2)'
    BY <1>4 DEF Once
  <2> QED
    BY <1>1, <1>4, <2>2, <2>3, NoneWaits DEF Pending, IsRedirection
<1>7. Translated'
  <2>1. \A n \in DOMAIN commands' :
          Translates(commands[n], OfCommand(n))' /\ Arguments(OfCommand(n))' # {} /\ Once(OfCommand(n))'
    BY <1>1, SameTokens
  <2> QED
    BY <1>3, <1>4, <2>1, NothingTranslatesNext DEF Translated
<1> QED
  BY <1>1, <1>2, <1>3, <1>5, <1>6, <1>7 DEF Parsed, AcceptsGrammar, CommandsMatchTokens

LEMMA EndOfSimpleParsed ==
  ASSUME IInv, Parsed, EndOfSimple
  PROVE  Parsed'
<1>1. commands \in Seq(Simple) /\ Append(commands, simple) # commands
  BY Where DEF EndOfSimple
<1>2. CASE pos = start \/ redir_side # "NONE" \/ simple.argv = << >>
  <2>1. at = "parse" /\ ~ InSimple /\ at' = "rejected" /\ tokens' = tokens
    BY <1>2 DEF EndOfSimple
  <2> QED
    BY <1>2, <2>1, BadSimple, RejectParsed
<1>3. CASE ~ (pos = start \/ redir_side # "NONE" \/ simple.argv = << >>)
  <2>1. commands' # commands
    BY <1>1, <1>3 DEF EndOfSimple
  <2>2. pos \in Nat /\ Len(tokens) \in Nat
    BY Where DEF EndOfSimple
  <2> QED
    BY <2>1, <2>2, AcceptedParsed, PipeParsed
<1> QED
  BY <1>2, <1>3

LEMMA ParsedInvariant ==
  Spec => []Parsed
<1>1. Init => Parsed
  BY NothingParsed
<1>2. IInv /\ Parsed /\ [Next]_vars => Parsed'
  <2> SUFFICES ASSUME IInv, Parsed, [Next]_vars PROVE Parsed'
    OBVIOUS
  <2>1. CASE Quoted \/ OpenQuote \/ Whitespace \/ Operator \/ Letter
    BY <2>1, TokenizeParsed
  <2>2. CASE EndOfLine \/ Word \/ Redirection \/ Ampersand \/ FileName \/ EndOfSimple
    BY <2>2, EndOfLineParsed, WordParsed, RedirectionParsed, AmpersandParsed, FileNameParsed, EndOfSimpleParsed
  <2>3. CASE UNCHANGED vars
    <3>1. /\ UNCHANGED <<tokens, commands, simple, redir_side, start, pos, quote, at>>
      BY <2>3 DEF vars, scanner, parser
    <3>2. Segment' = Segment /\ Pending' = Pending
      BY <3>1 DEF Segment, Pending, PipesBefore, Once
    <3> QED
      BY <3>1, <3>2, SameTokens DEF Parsed, Translated, AcceptsGrammar, CommandsMatchTokens
  <2> QED
    BY <2>1, <2>2, <2>3 DEF Next
<1> QED
  BY <1>1, <1>2, Invariant, PTL DEF Spec

\* Whatever line is typed, it is accepted exactly if its quotes are closed and its
\* tokens follow the grammar (parse_command, parse_simple_command).
THEOREM GrammarIsAccepted == Spec => []AcceptsGrammar
<1>1. Parsed => AcceptsGrammar
  BY DEF Parsed
<1> QED
  BY <1>1, ParsedInvariant, PTL

\* Every argument and file name of an accepted command is where it was written, for
\* any number of commands, arguments and redirections (parse_simple_command).
THEOREM TokensAreTranslated == Spec => []CommandsMatchTokens
<1>1. Parsed => CommandsMatchTokens
  BY DEF Parsed
<1> QED
  BY <1>1, ParsedInvariant, PTL

(***************************************************************************)
(* Recursive functions, by induction over sets of numbers: no character of *)
(* the line is lost.                                                       *)
(***************************************************************************)

LEMMA LeastElement ==
  ASSUME NEW T, T \subseteq Nat, T # {} PROVE \E n \in T : \A k \in T : n <= k
<1>1. IsWellFoundedOn(OpToRel(<, Nat), Nat)
  BY NatLessThanWellFounded
<1>2. PICK n \in T : \A k \in T : <<k, n>> \notin OpToRel(<, Nat)
  BY <1>1, WFMin
<1>3. \A k, m \in Nat : k < m => <<k, m>> \in OpToRel(<, Nat)
  BY DEF OpToRel
<1>4. ASSUME NEW k \in T PROVE n <= k
  <2>1. k \in Nat /\ n \in Nat /\ ~ (k < n)
    BY <1>2, <1>3
  <2> QED
    BY <2>1
<1> QED
  BY <1>4

LEMMA Numbers ==
  ASSUME NEW S, 0 \in S, \A n \in Nat : n \in S => n + 1 \in S PROVE \A n \in Nat : n \in S
<1> SUFFICES ASSUME ~ (Nat \subseteq S) PROVE FALSE
  OBVIOUS
<1>1. PICK n \in Nat \ S : \A k \in Nat \ S : n <= k
  BY LeastElement
<1>2. n - 1 \in Nat /\ n - 1 + 1 = n /\ ~ (n <= n - 1)
  OBVIOUS
<1>3. n - 1 \in S
  BY <1>1, <1>2
<1> QED
  BY <1>2, <1>3

\* f is what FlattenSeq makes of the first n elements of ss, one after the other.
Flattens(ss, n, f) == f = [k \in 1 .. n |-> IF k = 1 THEN ss[k] ELSE f[k - 1] \o ss[k]]

LEMMA FlattenExists ==
  ASSUME NEW ss, NEW n \in Nat PROVE \E f : Flattens(ss, n, f)
<1> DEFINE S == {m \in Nat : \E f : Flattens(ss, m, f)}
<1>1. 0 \in S
  <2> DEFINE f == [k \in 1 .. 0 |-> 0]
  <2>1. f = [k \in 1 .. 0 |-> IF k = 1 THEN ss[k] ELSE f[k - 1] \o ss[k]]
    OBVIOUS
  <2> QED
    BY <2>1 DEF Flattens
<1>2. ASSUME NEW m \in Nat, m \in S PROVE m + 1 \in S
  <2>1. PICK f : Flattens(ss, m, f)
    BY <1>2
  <2>2. \A k \in 1 .. m : f[k] = IF k = 1 THEN ss[k] ELSE f[k - 1] \o ss[k]
    BY <2>1 DEF Flattens
  <2> DEFINE g == [k \in 1 .. m + 1 |->
                     IF k <= m THEN f[k] ELSE IF k = 1 THEN ss[k] ELSE f[k - 1] \o ss[k]]
  <2>3. ASSUME NEW k \in 1 .. m + 1 PROVE g[k] = IF k = 1 THEN ss[k] ELSE g[k - 1] \o ss[k]
    <3>1. k # 1 => k - 1 \in 1 .. m + 1 /\ k - 1 <= m
      OBVIOUS
    <3>2. k # 1 => g[k - 1] = f[k - 1]
      BY <3>1
    <3>3. g[k] = IF k = 1 THEN ss[k] ELSE f[k - 1] \o ss[k]
      BY <2>2
    <3> HIDE DEF g
    <3> QED
      BY <3>2, <3>3
  <2>4. g = [k \in 1 .. m + 1 |-> g[k]]
    OBVIOUS
  <2> HIDE DEF g
  <2>5. Flattens(ss, m + 1, g)
    BY <2>3, <2>4 DEF Flattens
  <2> QED
    BY <2>5
<1> HIDE DEF S
<1>3. n \in S
  BY <1>1, <1>2, Numbers
<1> QED
  BY <1>3 DEF S

LEMMA FlattenIs ==
  ASSUME NEW ss, Len(ss) \in Nat \ {0}
  PROVE  \E f : Flattens(ss, Len(ss), f) /\ FlattenSeq(ss) = f[Len(ss)]
<1> DEFINE F == CHOOSE f : Flattens(ss, Len(ss), f)
<1>1. Flattens(ss, Len(ss), F)
  BY FlattenExists
<1>2. FlattenSeq(ss) = F[Len(ss)]
  BY DEF FlattenSeq, Flattens
<1> QED
  BY <1>1, <1>2

LEMMA FlattensSteps ==
  ASSUME NEW ss, NEW n \in Nat \ {0}, NEW f, Flattens(ss, n, f)
  PROVE  f[1] = ss[1] /\ \A k \in Nat \ {0} : k < n => f[k + 1] = f[k] \o ss[k + 1]
<1> DEFINE Rhs(k) == IF k = 1 THEN ss[k] ELSE f[k - 1] \o ss[k]
<1>1. ASSUME NEW k \in 1 .. n PROVE f[k] = Rhs(k)
  <2>1. f = [j \in 1 .. n |-> Rhs(j)]
    BY DEF Flattens
  <2> HIDE DEF Rhs
  <2> QED
    BY <2>1
<1>2. f[1] = ss[1]
  BY <1>1
<1>3. ASSUME NEW k \in Nat \ {0}, k < n PROVE f[k + 1] = f[k] \o ss[k + 1]
  <2>1. PICK m \in 1 .. n : m = k + 1 /\ m # 1 /\ m - 1 = k
    BY <1>3
  <2>2. f[m] = Rhs(m)
    BY <1>1
  <2>3. Rhs(m) = f[m - 1] \o ss[m]
    BY ONLY <2>1
  <2> HIDE DEF Rhs
  <2> QED
    BY ONLY <2>1, <2>2, <2>3, Zenon
<1> QED
  BY <1>2, <1>3

\* What is added at the end comes at the end.
LEMMA FlattenAppend ==
  ASSUME NEW S, NEW ss \in Seq(Seq(S)), NEW s \in Seq(S)
  PROVE  /\ FlattenSeq(ss) \in Seq(S)
         /\ FlattenSeq(Append(ss, s)) = FlattenSeq(ss) \o s
<1> DEFINE n == Len(ss)
           more == Append(ss, s)
<1>1. /\ n \in Nat /\ Len(more) = n + 1 /\ more[n + 1] = s
      /\ \A k \in 1 .. n : more[k] = ss[k] /\ ss[k] \in Seq(S)
  OBVIOUS
<1> HIDE DEF more
<1>2. PICK g : Flattens(more, n + 1, g) /\ FlattenSeq(more) = g[n + 1]
  <2>1. Len(more) \in Nat \ {0}
    BY <1>1
  <2>2. PICK g : Flattens(more, Len(more), g) /\ FlattenSeq(more) = g[Len(more)]
    BY ONLY <2>1, FlattenIs, Zenon
  <2>3. Len(more) = n + 1
    BY <1>1
  <2> QED
    BY ONLY <2>2, <2>3, Zenon
<1>3. g[1] = more[1] /\ \A k \in Nat \ {0} : k < n + 1 => g[k + 1] = g[k] \o more[k + 1]
  <2>1. PICK l \in Nat \ {0} : l = n + 1
    BY <1>1
  <2>2. Flattens(more, l, g)
    BY <1>2, <2>1
  <2>3. g[1] = more[1] /\ \A k \in Nat \ {0} : k < l => g[k + 1] = g[k] \o more[k + 1]
    BY <2>2, FlattensSteps, Zenon
  <2> QED
    BY <2>1, <2>3
<1>4. CASE n = 0
  <2>1. ss = << >> /\ FlattenSeq(ss) = << >>
    BY <1>4 DEF FlattenSeq
  <2>2. FlattenSeq(more) = s
    BY <1>1, <1>2, <1>3, <1>4
  <2>3. << >> \in Seq(S) /\ << >> \o s = s
    OBVIOUS
  <2> QED
    BY <2>1, <2>2, <2>3 DEF more
<1>5. CASE n # 0
  <2>1. PICK f : Flattens(ss, n, f) /\ FlattenSeq(ss) = f[n]
    BY <1>1, <1>5, FlattenIs
  <2>2. f[1] = ss[1] /\ \A k \in Nat \ {0} : k < n => f[k + 1] = f[k] \o ss[k + 1]
    <3>1. PICK l \in Nat \ {0} : l = n
      BY <1>1, <1>5
    <3>2. Flattens(ss, l, f)
      BY <2>1, <3>1
    <3>3. f[1] = ss[1] /\ \A k \in Nat \ {0} : k < l => f[k + 1] = f[k] \o ss[k + 1]
      BY <3>2, FlattensSteps, Zenon
    <3> QED
      BY <3>1, <3>3
  <2> DEFINE Same == {k \in Nat : k + 1 <= n => g[k + 1] = f[k + 1] /\ f[k + 1] \in Seq(S)}
  <2>3. 0 \in Same
    BY <1>1, <1>3, <2>2
  <2>4. ASSUME NEW k \in Nat, k \in Same PROVE k + 1 \in Same
    <3> SUFFICES ASSUME k + 1 + 1 <= n PROVE g[k + 1 + 1] = f[k + 1 + 1] /\ f[k + 1 + 1] \in Seq(S)
      OBVIOUS
    <3> DEFINE m == k + 1
    <3>1. m \in Nat \ {0} /\ m < n /\ m < n + 1 /\ m + 1 \in 1 .. n
      BY <1>1
    <3>2. g[m] = f[m] /\ f[m] \in Seq(S)
      BY <1>1, <2>4
    <3> HIDE DEF m
    <3>3. more[m + 1] = ss[m + 1] /\ ss[m + 1] \in Seq(S)
      BY <1>1, <3>1
    <3>4. g[m + 1] = g[m] \o more[m + 1] /\ f[m + 1] = f[m] \o ss[m + 1]
      BY <1>3, <2>2, <3>1
    <3>5. g[m + 1] = f[m + 1] /\ f[m + 1] \in Seq(S)
      BY <3>2, <3>3, <3>4
    <3> QED
      BY <3>5 DEF m
  <2> HIDE DEF Same
  <2>5. n - 1 \in Nat /\ n - 1 + 1 = n
    BY <1>1, <1>5
  <2>6. n - 1 \in Same
    BY <2>3, <2>4, <2>5, Numbers
  <2>7. g[n] = f[n] /\ f[n] \in Seq(S)
    BY <2>5, <2>6 DEF Same
  <2>8. g[n + 1] = g[n] \o s
    <3>1. n \in Nat \ {0} /\ n < n + 1 /\ more[n + 1] = s
      BY <1>1, <1>5
    <3> QED
      BY ONLY <1>3, <3>1, Zenon
  <2> QED
    BY <1>2, <2>1, <2>7, <2>8 DEF more
<1> QED
  BY <1>4, <1>5

\* The quote that is open after character c when q was open before it
After(q, c) ==
  IF q = "none" THEN IF c \in Quotes THEN c ELSE "none" ELSE IF c = q THEN "none" ELSE q

Opens(n, f) == f = [j \in 1 .. n |-> IF j = 1 THEN "none" ELSE After(f[j - 1], line[j - 1])]

LEMMA OpensExists ==
  ASSUME NEW n \in Nat PROVE \E f : Opens(n, f)
<1> DEFINE S == {m \in Nat : \E f : Opens(m, f)}
<1>1. 0 \in S
  <2> DEFINE f == [j \in 1 .. 0 |-> 0]
  <2>1. f = [j \in 1 .. 0 |-> IF j = 1 THEN "none" ELSE After(f[j - 1], line[j - 1])]
    OBVIOUS
  <2> QED
    BY <2>1 DEF Opens
<1>2. ASSUME NEW m \in Nat, m \in S PROVE m + 1 \in S
  <2>1. PICK f : Opens(m, f)
    BY <1>2
  <2>2. \A j \in 1 .. m : f[j] = IF j = 1 THEN "none" ELSE After(f[j - 1], line[j - 1])
    BY <2>1 DEF Opens
  <2> DEFINE g == [j \in 1 .. m + 1 |->
                     IF j <= m THEN f[j] ELSE IF j = 1 THEN "none" ELSE After(f[j - 1], line[j - 1])]
  <2>3. ASSUME NEW j \in 1 .. m + 1
        PROVE  g[j] = IF j = 1 THEN "none" ELSE After(g[j - 1], line[j - 1])
    <3>1. j # 1 => j - 1 \in 1 .. m + 1 /\ j - 1 <= m
      OBVIOUS
    <3>2. j # 1 => g[j - 1] = f[j - 1]
      BY <3>1
    <3>3. g[j] = IF j = 1 THEN "none" ELSE After(f[j - 1], line[j - 1])
      BY <2>2
    <3> HIDE DEF g
    <3> QED
      BY <3>2, <3>3
  <2>4. g = [j \in 1 .. m + 1 |-> g[j]]
    OBVIOUS
  <2> HIDE DEF g
  <2>5. Opens(m + 1, g)
    BY <2>3, <2>4 DEF Opens
  <2> QED
    BY <2>5
<1> HIDE DEF S
<1>3. n \in S
  BY <1>1, <1>2, Numbers
<1> QED
  BY <1>3 DEF S

LEMMA OpenSteps ==
  ASSUME line \in Seq(Chars)
  PROVE  /\ OpenAt[1] = "none"
         /\ \A j \in 1 .. Len(line) : OpenAt[j + 1] = After(OpenAt[j], line[j])
<1> DEFINE n == Len(line) + 1
           Rhs(j) == IF j = 1 THEN "none" ELSE After(OpenAt[j - 1], line[j - 1])
<1>1. n \in Nat /\ 1 \in 1 .. n
  OBVIOUS
<1>2. OpenAt = CHOOSE f : Opens(n, f)
  BY DEF OpenAt, Opens, After
<1>3. Opens(n, OpenAt)
  BY <1>1, <1>2, OpensExists
<1>4. ASSUME NEW j \in 1 .. n PROVE OpenAt[j] = Rhs(j)
  <2>1. OpenAt = [k \in 1 .. n |-> Rhs(k)]
    BY <1>3 DEF Opens
  <2> HIDE DEF Rhs, n
  <2> QED
    BY <2>1
<1>5. ASSUME NEW j \in 1 .. Len(line) PROVE OpenAt[j + 1] = After(OpenAt[j], line[j])
  <2>1. PICK k \in 1 .. n : k = j + 1 /\ k # 1 /\ k - 1 = j
    OBVIOUS
  <2>2. OpenAt[k] = Rhs(k)
    BY <1>4
  <2>3. Rhs(k) = After(OpenAt[k - 1], line[k - 1])
    BY ONLY <2>1
  <2> HIDE DEF Rhs
  <2> QED
    BY ONLY <2>1, <2>2, <2>3, Zenon
<1> QED
  BY <1>1, <1>4, <1>5

(***************************************************************************)
(* The text of the tokens and of the line.                                 *)
(***************************************************************************)

Marks == Chars \X BOOLEAN
TextOf(ts) == [n \in DOMAIN ts |-> Marked(ts[n].value, ts[n].type # "WORD")]

LEMMA MarkedText ==
  ASSUME NEW s \in Seq(Chars), NEW b \in BOOLEAN
  PROVE  /\ Marked(s, b) \in Seq(Marks)
         /\ Marked(<< >>, b) = << >>
         /\ \A c \in Chars : Marked(Append(s, c), b) = Marked(s, b) \o << <<c, b>> >>
<1> DEFINE n == Len(s)
<1>1. n \in Nat /\ DOMAIN s = 1 .. n /\ \A k \in 1 .. n : s[k] \in Chars
  OBVIOUS
<1>2. Marked(s, b) \in Seq(Marks) /\ Len(Marked(s, b)) = n /\ \A k \in 1 .. n : Marked(s, b)[k] = <<s[k], b>>
  BY <1>1 DEF Marked, Marks
<1>3. ASSUME NEW c \in Chars PROVE Marked(Append(s, c), b) = Marked(s, b) \o << <<c, b>> >>
  <2> DEFINE l == Marked(Append(s, c), b)
             r == Marked(s, b) \o << <<c, b>> >>
  <2>1. /\ DOMAIN l = 1 .. n + 1
        /\ l[n + 1] = <<c, b>>
        /\ \A k \in 1 .. n : l[k] = <<s[k], b>>
    BY <1>1 DEF Marked
  <2>2. l \in [1 .. n + 1 -> Marks]
    BY <1>1 DEF Marked, Marks
  <2>3. << <<c, b>> >> \in Seq(Marks) /\ Len(<< <<c, b>> >>) = 1 /\ << <<c, b>> >>[1] = <<c, b>>
    BY DEF Marks
  <2>4. /\ r \in Seq(Marks) /\ Len(r) = n + 1
        /\ r[n + 1] = <<c, b>>
        /\ \A k \in 1 .. n : r[k] = <<s[k], b>>
    BY <1>1, <1>2, <2>3
  <2> HIDE DEF l, r
  <2>5. r \in [1 .. n + 1 -> Marks]
    BY <1>1, <2>4
  <2>6. ASSUME NEW k \in 1 .. n + 1 PROVE l[k] = r[k]
    <3>1. k \in 1 .. n \/ k = n + 1
      BY <1>1
    <3>2. CASE k \in 1 .. n
      BY ONLY <3>2, <2>1, <2>4
    <3>3. CASE k = n + 1
      BY ONLY <3>3, <2>1, <2>4
    <3> QED
      BY <3>1, <3>2, <3>3
  <2> QED
    BY <2>2, <2>5, <2>6 DEF l, r
<1>4. Marked(<< >>, b) = << >>
  BY DEF Marked
<1> QED
  BY <1>2, <1>3, <1>4

LEMMA TextAppend ==
  ASSUME NEW ts \in Seq(Tok), NEW t \in Tok
  PROVE  /\ TextOf(ts) \in Seq(Seq(Marks)) /\ FlattenSeq(TextOf(ts)) \in Seq(Marks)
         /\ FlattenSeq(TextOf(Append(ts, t))) = FlattenSeq(TextOf(ts)) \o Marked(t.value, t.type # "WORD")
<1> DEFINE n == Len(ts)
           m == Marked(t.value, t.type # "WORD")
<1>1. \A u \in Tok : Marked(u.value, u.type # "WORD") \in Seq(Marks)
  BY MarkedText DEF Tok, Str
<1>2. n \in Nat /\ DOMAIN ts = 1 .. n /\ \A k \in 1 .. n : ts[k] \in Tok
  OBVIOUS
<1>3. TextOf(ts) \in Seq(Seq(Marks)) /\ Len(TextOf(ts)) = n
  BY <1>1, <1>2 DEF TextOf
<1>4. TextOf(Append(ts, t)) = Append(TextOf(ts), m)
  <2> DEFINE l == TextOf(Append(ts, t))
             r == Append(TextOf(ts), m)
  <2>1. /\ l = [k \in 1 .. n + 1 |-> Marked(Append(ts, t)[k].value, Append(ts, t)[k].type # "WORD")]
        /\ Append(ts, t)[n + 1] = t /\ \A k \in 1 .. n : Append(ts, t)[k] = ts[k]
    BY <1>2 DEF TextOf
  <2>2. l[n + 1] = m /\ \A k \in 1 .. n : l[k] = TextOf(ts)[k]
    BY <1>2, <2>1 DEF TextOf
  <2>3. /\ DOMAIN r = 1 .. n + 1 /\ r[n + 1] = m /\ \A k \in 1 .. n : r[k] = TextOf(ts)[k]
        /\ r = [k \in 1 .. n + 1 |-> r[k]]
    BY <1>1, <1>2, <1>3
  <2> HIDE DEF r, m
  <2>4. l = [k \in 1 .. n + 1 |-> l[k]]
    BY <2>1
  <2> HIDE DEF l
  <2>5. ASSUME NEW k \in 1 .. n + 1 PROVE l[k] = r[k]
    <3>1. k \in 1 .. n \/ k = n + 1
      BY <1>2
    <3>2. CASE k \in 1 .. n
      BY ONLY <3>2, <2>2, <2>3
    <3>3. CASE k = n + 1
      BY ONLY <3>3, <2>2, <2>3
    <3> QED
      BY <3>1, <3>2, <3>3
  <2> QED
    BY <2>3, <2>4, <2>5 DEF l, r
<1>5. m \in Seq(Marks)
  BY <1>1
<1> HIDE DEF m
<1>6. /\ FlattenSeq(TextOf(ts)) \in Seq(Marks)
      /\ FlattenSeq(Append(TextOf(ts), m)) = FlattenSeq(TextOf(ts)) \o m
  BY <1>3, <1>5, FlattenAppend
<1> QED
  BY <1>3, <1>4, <1>6 DEF m

\* The word that was collected becomes a token with the same text.
LEMMA PushText ==
  ASSUME IInv
  PROVE  /\ push_word_if_any \in Seq(Tok)
         /\ FlattenSeq(TextOf(push_word_if_any)) = FlattenSeq(TextOf(tokens)) \o Marked(current, FALSE)
         /\ FlattenSeq(TextOf(push_word_if_any)) \in Seq(Marks)
<1>1. tokens \in Seq(Tok) /\ current \in Seq(Chars)
  BY DEF IInv, TypeOK, Tok, Str
<1> DEFINE x == FlattenSeq(TextOf(tokens))
<1>2. push_word_if_any \in Seq(Tok)
  BY PushWord
<1>3. FlattenSeq(TextOf(push_word_if_any)) \in Seq(Marks) /\ x \in Seq(Marks)
  <2>1. \E t : t \in Tok
    <3>1. [type |-> "WORD", value |-> << >>] \in Tok
      BY DEF Tok, Types, Str
    <3> QED
      BY <3>1
  <2> QED
    BY <1>1, <1>2, <2>1, TextAppend
<1> HIDE DEF x
<1>4. CASE current = << >>
  <2>1. push_word_if_any = tokens
    BY <1>4 DEF push_word_if_any
  <2>2. Marked(current, FALSE) = << >>
    BY <1>1, <1>4, MarkedText
  <2>3. x = x \o << >>
    BY <1>3
  <2> QED
    BY <1>2, <1>3, <2>1, <2>2, <2>3 DEF x
<1>5. CASE current # << >>
  <2> DEFINE w == [type |-> "WORD", value |-> current]
  <2>1. w \in Tok /\ w.value = current /\ (w.type # "WORD") = FALSE
    BY <1>1 DEF Tok, Types, Str
  <2>2. push_word_if_any = Append(tokens, w)
    BY <1>5 DEF push_word_if_any
  <2> HIDE DEF w
  <2>3. FlattenSeq(TextOf(Append(tokens, w))) = x \o Marked(w.value, w.type # "WORD")
    BY <1>1, <2>1, TextAppend DEF x
  <2> QED
    BY <1>2, <1>3, <2>1, <2>2, <2>3 DEF x
<1> QED
  BY <1>4, <1>5

\* What the user meant, of the first n characters of the line l
OpenOf(l) == CHOOSE f : f = [j \in 1 .. Len(l) + 1 |->
                               IF j = 1 THEN "none" ELSE After(f[j - 1], l[j - 1])]
MeantOf(l, j) ==
  LET open == OpenOf(l)[j]
      kept == IF open = "none" THEN l[j] \notin Quotes \cup {Space} ELSE l[j] # open
  IN  IF kept THEN << <<l[j], open = "none" /\ l[j] \in Operators>> >> ELSE << >>
MeantUpTo(l, n) == FlattenSeq([j \in 1 .. n |-> MeantOf(l, j)])

LEMMA MeantIs ==
  Meant = MeantUpTo(line, i - 1) /\ OpenAt = OpenOf(line) /\ \A j : MeantAt(j) = MeantOf(line, j)
<1>1. OpenAt = OpenOf(line)
  BY DEF OpenAt, OpenOf, After
<1>2. \A j : MeantAt(j) = MeantOf(line, j)
  BY <1>1 DEF MeantAt, MeantOf
<1> QED
  BY <1>1, <1>2 DEF Meant, MeantUpTo

\* The next character of the line
LEMMA MeantNext ==
  ASSUME line \in Seq(Chars), NEW n \in 1 .. Len(line)
  PROVE  /\ MeantUpTo(line, n) = MeantUpTo(line, n - 1) \o MeantAt(n)
         /\ MeantUpTo(line, n - 1) \in Seq(Marks)
<1>1. ASSUME NEW j \in 1 .. Len(line) PROVE MeantOf(line, j) \in Seq(Marks)
  <2>1. \A b \in BOOLEAN : << <<line[j], b>> >> \in Seq(Marks)
    BY DEF Marks
  <2>2. << >> \in Seq(Marks)
    OBVIOUS
  <2> DEFINE b == OpenOf(line)[j] = "none" /\ line[j] \in Operators
  <2>3. MeantOf(line, j) = << >> \/ MeantOf(line, j) = << <<line[j], b>> >>
    BY DEF MeantOf
  <2>4. b \in BOOLEAN
    OBVIOUS
  <2> QED
    BY <2>1, <2>2, <2>3, <2>4, Zenon
<1> DEFINE M(k) == MeantOf(line, k)
           ss == [j \in 1 .. n - 1 |-> M(j)]
           more == [j \in 1 .. n |-> M(j)]
<1>2. n \in Nat /\ n - 1 \in Nat /\ \A j \in 1 .. n : M(j) \in Seq(Marks)
  BY <1>1
<1> HIDE DEF M
<1>3. ss \in Seq(Seq(Marks)) /\ Len(ss) = n - 1 /\ M(n) \in Seq(Marks)
  BY <1>2
<1>4. more = Append(ss, M(n))
  <2>1. more \in Seq(Seq(Marks)) /\ Len(more) = n /\ \A j \in 1 .. n : more[j] = M(j)
    BY <1>2
  <2>2. /\ Append(ss, M(n)) \in Seq(Seq(Marks)) /\ Len(Append(ss, M(n))) = n
        /\ \A j \in 1 .. n : Append(ss, M(n))[j] = M(j)
    BY <1>2, <1>3
  <2> HIDE DEF ss, more
  <2> QED
    BY <1>2, <2>1, <2>2
<1> HIDE DEF ss, more
<1>5. FlattenSeq(ss) \in Seq(Marks) /\ FlattenSeq(Append(ss, M(n))) = FlattenSeq(ss) \o M(n)
  BY <1>3, FlattenAppend
<1>6. MeantUpTo(line, n) = FlattenSeq(more) /\ MeantUpTo(line, n - 1) = FlattenSeq(ss)
  BY DEF MeantUpTo, ss, more, M
<1>7. MeantAt(n) = M(n)
  BY MeantIs DEF M
<1> QED
  BY <1>4, <1>5, <1>6, <1>7

\* An & that is an operator has itself as its text.
Ampersands(ts) == \A n \in DOMAIN ts : ts[n].type = "BACKGROUND" => ts[n].value = << "&" >>

\* While the line is tokenized, the quote is the one that is open there.
TextInv ==
  /\ at = "tokenize" => quote = OpenAt[i] /\ Ampersands(tokens)
  /\ TextIsKept

LEMMA TextInitially ==
  ASSUME Init PROVE TextInv
<1>1. /\ line \in Seq(Chars) /\ i = 1 /\ quote = "none" /\ tokens = << >> /\ current = << >>
      /\ at = "tokenize"
  BY LinesAssumption DEF Init
<1>2. OpenAt[1] = "none"
  BY <1>1, OpenSteps
<1>3. Meant = << >>
  <2> DEFINE ss == [j \in 1 .. i - 1 |-> MeantAt(j)]
  <2>1. ss = << >>
    BY <1>1
  <2> HIDE DEF ss
  <2>2. FlattenSeq(ss) = << >>
    BY <2>1 DEF FlattenSeq
  <2> QED
    BY <2>2 DEF Meant, ss
<1>4. Taken = << >>
  <2>1. TextOf(tokens) = << >> /\ Marked(current, FALSE) = << >>
    BY <1>1 DEF TextOf, Marked
  <2>2. FlattenSeq(TextOf(tokens)) = << >>
    BY <2>1 DEF FlattenSeq
  <2>3. Taken = FlattenSeq(TextOf(tokens)) \o Marked(current, FALSE)
    BY <1>1 DEF Taken, Rest, TextOf
  <2>4. << >> \o << >> = << >>
    OBVIOUS
  <2> QED
    BY ONLY <2>1, <2>2, <2>3, <2>4, Zenon
<1> QED
  BY <1>1, <1>2, <1>3, <1>4 DEF TextInv, TextIsKept, Ampersands

LEMMA PushedAmpersands ==
  ASSUME IInv, Ampersands(tokens)
  PROVE  Ampersands(push_word_if_any)
<1>1. tokens \in Seq(Tok) /\ [type |-> "WORD", value |-> current] \in Tok
  BY DEF IInv, TypeOK, Tok, Types
<1> QED
  BY <1>1 DEF Ampersands, push_word_if_any

\* One character of the line
LEMMA TextTokenize ==
  ASSUME IInv, TextInv, Quoted \/ OpenQuote \/ Whitespace \/ Operator \/ Letter
  PROVE  TextInv'
<1> DEFINE x == FlattenSeq(TextOf(tokens))
           w == Marked(current, FALSE)
<1>1. at = "tokenize" /\ at' = at /\ line' = line /\ i' = i + 1 /\ i <= Len(line)
  BY DEF Quoted, OpenQuote, Whitespace, Operator, Letter, Tokenizing
<1>2. /\ line \in Seq(Chars) /\ i \in 1 .. Len(line) /\ Char \in Chars /\ Char = line[i]
      /\ current \in Seq(Chars) /\ tokens \in Seq(Tok)
  BY <1>1, LinesAssumption DEF IInv, TypeOK, Char, Str, Tok
<1>3. quote = OpenAt[i] /\ Taken = Meant /\ Ampersands(tokens)
  BY <1>1 DEF TextInv, TextIsKept
<1>4. quote' = OpenAt'[i']
  <2>1. OpenAt[i + 1] = After(quote, Char)
    BY <1>2, <1>3, OpenSteps
  <2>2. OpenAt' = OpenOf(line') /\ OpenAt = OpenOf(line)
    BY MeantIs DEF OpenAt, OpenOf, After
  <2>3. quote' = After(quote, Char)
    BY <1>2, LinesAssumption DEF Quoted, OpenQuote, Whitespace, Operator, Letter, After, Quotes, Operators, Space
  <2> QED
    BY <1>1, <2>1, <2>2, <2>3
<1>5. Meant' = Meant \o MeantAt(i)
  <2>1. Meant' = MeantUpTo(line', i' - 1)
    BY DEF Meant, MeantUpTo, MeantAt, MeantOf, OpenAt, OpenOf, After
  <2>2. MeantUpTo(line', i' - 1) = MeantUpTo(line, i)
    BY <1>1, <1>2
  <2> QED
    BY <1>2, <2>1, <2>2, MeantIs, MeantNext
<1>6. Taken = x \o w /\ Taken' = FlattenSeq(TextOf(tokens')) \o Marked(current', FALSE)
  BY <1>1 DEF Taken, Rest, TextOf
<1>7. /\ x \in Seq(Marks) /\ w \in Seq(Marks) /\ Marked(<< >>, FALSE) = << >>
      /\ push_word_if_any \in Seq(Tok) /\ FlattenSeq(TextOf(push_word_if_any)) = x \o w
      /\ \A b \in BOOLEAN : Marked(Append(current, Char), b) = Marked(current, b) \o << <<Char, b>> >>
  <2>1. w \in Seq(Marks) /\ Marked(<< >>, FALSE) = << >>
    BY <1>2, MarkedText
  <2>2. \A b \in BOOLEAN : Marked(Append(current, Char), b) = Marked(current, b) \o << <<Char, b>> >>
    BY <1>2, MarkedText
  <2>3. push_word_if_any \in Seq(Tok) /\ FlattenSeq(TextOf(push_word_if_any)) = x \o w
    BY PushText
  <2>4. x \in Seq(Marks)
    <3>1. [type |-> "WORD", value |-> << >>] \in Tok
      BY DEF Tok, Types, Str
    <3> QED
      BY <1>2, <3>1, TextAppend
  <2> QED
    BY <2>1, <2>2, <2>3, <2>4
<1>8. MeantAt(i) = LET kept == IF quote = "none" THEN Char \notin Quotes \cup {Space} ELSE Char # quote
                   IN  IF kept THEN << <<Char, quote = "none" /\ Char \in Operators>> >> ELSE << >>
  BY <1>2, <1>3 DEF MeantAt
<1>9. Taken' = Taken \o MeantAt(i)
  <2> DEFINE y == FlattenSeq(TextOf(tokens'))
  <2> HIDE DEF x, w, y
  <2>1. Taken = x \o w /\ Taken' = y \o Marked(current', FALSE)
    BY <1>6 DEF x, w, y
  <2>2. (tokens' = tokens => y = x) /\ (current' = current => Marked(current', FALSE) = w)
    BY DEF x, w, y
  <2>3. \A b \in BOOLEAN : << <<Char, b>> >> \in Seq(Marks)
    BY <1>2 DEF Marks
  <2>4. Marked(Append(current, Char), FALSE) = w \o << <<Char, FALSE>> >>
    BY <1>7 DEF w
  <2>5. (x \o w) \o << >> = x \o w /\ (x \o w) \o << <<Char, FALSE>> >> = x \o (w \o << <<Char, FALSE>> >>)
    BY <1>7, <2>3
  <2>6. CASE UNCHANGED tokens /\ current' = Append(current, Char) /\ MeantAt(i) = << <<Char, FALSE>> >>
    BY ONLY <2>1, <2>2, <2>4, <2>5, <2>6
  <2>7. CASE UNCHANGED <<tokens, current>> /\ MeantAt(i) = << >>
    BY ONLY <2>1, <2>2, <2>5, <2>7
  <2>8. CASE Quoted
    <3>1. quote # "none" /\ UNCHANGED tokens
      BY <2>8 DEF Quoted
    <3>2. CASE Char = quote
      BY <1>8, <2>7, <2>8, <3>1, <3>2 DEF Quoted
    <3>3. CASE Char # quote
      <4>1. current' = Append(current, Char)
        BY <2>8, <3>3 DEF Quoted
      <4>2. (quote = "none" /\ Char \in Operators) = FALSE
        BY <3>1
      <4> QED
        BY <1>8, <2>6, <3>1, <3>3, <4>1, <4>2
    <3> QED
      BY <3>2, <3>3
  <2>9. CASE OpenQuote
    BY <1>8, <2>7, <2>9 DEF OpenQuote
  <2>10. CASE Letter
    <3>1. quote = "none" /\ UNCHANGED tokens /\ current' = Append(current, Char) /\ Char \in Letters
      BY <2>10 DEF Letter
    <3>2. Char \notin Quotes \cup {Space} /\ Char \notin Operators
      BY <3>1, LinesAssumption
    <3> QED
      BY <1>8, <2>6, <3>1, <3>2
  <2>11. CASE Whitespace
    <3>1. quote = "none" /\ Char = Space /\ tokens' = push_word_if_any /\ current' = << >>
      BY <2>11 DEF Whitespace
    <3>2. MeantAt(i) = << >>
      BY <1>8, <3>1
    <3>3. y = x \o w
      BY <1>7, <3>1 DEF x, w, y
    <3> QED
      BY <1>7, <2>1, <3>1, <3>2, <3>3
  <2>12. CASE Operator
    <3> DEFINE t == [type |-> TokenType(Char), value |-> << Char >>]
    <3>1. /\ quote = "none" /\ Char \in Operators /\ tokens' = Append(push_word_if_any, t)
          /\ current' = << >>
      BY <2>12 DEF Operator
    <3>2. Char \notin Quotes \cup {Space} /\ TokenType(Char) \in Types \ {"WORD"}
      BY <3>1 DEF Operators, Quotes, Space, TokenType, Types
    <3>3. t \in Tok /\ t.value = << Char >> /\ t.type # "WORD"
      BY <1>2, <3>2 DEF Tok, Str
    <3>4. MeantAt(i) = << <<Char, TRUE>> >>
      BY <1>8, <3>1, <3>2
    <3>5. Marked(t.value, TRUE) = << <<Char, TRUE>> >> /\ << <<Char, TRUE>> >> \in Seq(Marks)
      <4> DEFINE u == << <<Char, TRUE>> >>
      <4>1. u \in Seq(Marks)
        BY <2>3
      <4>2. Marked(Append(<< >>, Char), TRUE) = Marked(<< >>, TRUE) \o u /\ Marked(<< >>, TRUE) = << >>
        <5>1. << >> \in Seq(Chars)
          OBVIOUS
        <5> QED
          BY <1>2, <5>1, MarkedText
      <4> HIDE DEF u
      <4>3. Append(<< >>, Char) = << Char >> /\ << >> \o u = u
        BY <4>1
      <4> QED
        BY <3>3, <4>1, <4>2, <4>3 DEF u
    <3> HIDE DEF t
    <3>6. FlattenSeq(TextOf(Append(push_word_if_any, t)))
            = FlattenSeq(TextOf(push_word_if_any)) \o Marked(t.value, t.type # "WORD")
      BY <1>7, <3>3, TextAppend
    <3>7. (t.type # "WORD") = TRUE
      BY <3>3
    <3>8. y = (x \o w) \o << <<Char, TRUE>> >>
      BY <1>7, <3>1, <3>5, <3>6, <3>7 DEF x, w, y
    <3> DEFINE u == << <<Char, TRUE>> >>
    <3> HIDE DEF u
    <3>9. u \in Seq(Marks) /\ y = (x \o w) \o u /\ MeantAt(i) = u
      BY <3>4, <3>5, <3>8 DEF u
    <3>10. y \o << >> = y
      BY <1>7, <3>9
    <3> QED
      BY <1>7, <2>1, <3>1, <3>9, <3>10
  <2> QED
    BY <2>8, <2>9, <2>10, <2>11, <2>12
<1>10. Ampersands(tokens')
  <2>1. \A t \in Tok : Ampersands(push_word_if_any) /\ (t.type = "BACKGROUND" => t.value = << "&" >>)
                       => Ampersands(Append(push_word_if_any, t))
    BY <1>7 DEF Ampersands
  <2>2. CASE Quoted \/ OpenQuote \/ Letter
    BY <1>3, <2>2 DEF Quoted, OpenQuote, Letter
  <2>3. CASE Whitespace
    BY <1>3, <2>3, PushedAmpersands DEF Whitespace
  <2>4. CASE Operator
    <3> DEFINE t == [type |-> TokenType(Char), value |-> << Char >>]
    <3>1. Char \in Operators /\ tokens' = Append(push_word_if_any, t)
      BY <2>4 DEF Operator
    <3>2. t \in Tok
      BY <1>2, <3>1 DEF Tok, Str, Types, TokenType, Operators
    <3>3. t.type = "BACKGROUND" => t.value = << "&" >>
      BY <3>1 DEF TokenType, Operators
    <3> HIDE DEF t
    <3> QED
      BY <1>3, <2>1, <3>1, <3>2, <3>3, PushedAmpersands
  <2> QED
    BY <2>2, <2>3, <2>4
<1> QED
  BY <1>3, <1>4, <1>5, <1>9, <1>10 DEF TextInv, TextIsKept

\* The end of the line: the last word is a token, and the & that is taken off is
\* remembered.
LEMMA TextFlush ==
  ASSUME IInv, TextInv, EndOfLine
  PROVE  TextInv'
<1> DEFINE ts == Flushed
           x == FlattenSeq(TextOf(tokens))
<1>1. /\ at = "tokenize" /\ at' # "tokenize" /\ line' = line /\ i' = i /\ quote' = quote
      /\ Taken = Meant /\ Ampersands(tokens)
  BY DEF EndOfLine, scanner, TextInv, TextIsKept
<1>2. SUFFICES ASSUME quote = "none" PROVE Taken' = Meant
  <2>1. Meant' = MeantUpTo(line', i' - 1)
    BY DEF Meant, MeantUpTo, MeantAt, MeantOf, OpenAt, OpenOf, After
  <2> QED
    BY <1>1, <2>1, MeantIs DEF TextInv, TextIsKept
<1>3. ts \in Seq(Tok) /\ FlattenSeq(TextOf(ts)) = Taken /\ Taken \in Seq(Marks) /\ Ampersands(ts)
  BY <1>1, PushText, PushedAmpersands DEF Flushed, Taken, Rest, TextOf
<1> HIDE DEF ts
<1>4. Taken' = FlattenSeq(TextOf(tokens')) \o (IF background' THEN << <<"&", TRUE>> >> ELSE << >>)
  BY <1>1 DEF Taken, Rest, TextOf
<1>5. CASE ts # << >> /\ Last(ts).type = "BACKGROUND"
  <2> DEFINE n == Len(ts)
             t == ts[n]
  <2>1. tokens' = SubSeq(ts, 1, n - 1) /\ background' = TRUE /\ t.type = "BACKGROUND"
    BY <1>2, <1>5 DEF EndOfLine, ts, Last
  <2>2. n \in Nat \ {0} /\ t \in Tok /\ t.value = << "&" >>
    BY <1>3, <1>5, <2>1 DEF Ampersands
  <2>3. tokens' \in Seq(Tok) /\ ts = Append(tokens', t)
    BY <1>3, <2>1, <2>2
  <2> HIDE DEF t, n
  <2>4. Marked(t.value, t.type # "WORD") = << <<"&", TRUE>> >>
    <3>1. (t.type # "WORD") = TRUE
      BY <2>1
    <3>2. Marked(<< "&" >>, TRUE) = << <<"&", TRUE>> >>
      <4> DEFINE u == << <<"&", TRUE>> >>
      <4>1. << >> \in Seq(Chars) /\ "&" \in Chars /\ u \in Seq(Marks)
        <5>1. "&" \in Chars /\ <<"&", TRUE>> \in Marks
          BY DEF Chars, Operators, Marks
        <5> QED
          BY <5>1
      <4>2. Marked(Append(<< >>, "&"), TRUE) = Marked(<< >>, TRUE) \o u /\ Marked(<< >>, TRUE) = << >>
        BY <4>1, MarkedText
      <4> HIDE DEF u
      <4>3. Append(<< >>, "&") = << "&" >> /\ << >> \o u = u
        BY <4>1
      <4> QED
        BY <4>2, <4>3 DEF u
    <3> QED
      BY <2>2, <3>1, <3>2
  <2>5. FlattenSeq(TextOf(ts)) = FlattenSeq(TextOf(tokens')) \o << <<"&", TRUE>> >>
    BY <2>2, <2>3, <2>4, TextAppend
  <2> QED
    BY <1>1, <1>3, <1>4, <2>1, <2>5
<1>6. CASE ~ (ts # << >> /\ Last(ts).type = "BACKGROUND")
  <2>1. tokens' = ts /\ background' = FALSE
    BY <1>2, <1>6 DEF EndOfLine, ts
  <2>2. Taken \o << >> = Taken
    BY <1>3
  <2> QED
    BY <1>1, <1>3, <1>4, <2>1, <2>2
<1> QED
  BY <1>5, <1>6

\* No character of a line of any length is lost, doubled or moved, quoted operators
\* are text and unquoted ones are tokens, in every iteration of tokenize and, but
\* for a line whose quote is left open, in the tokens the parser gets: the last word
\* is flushed, and only a final & is taken off, which is remembered.
THEOREM TextStays == Spec => []TextIsKept
<1>1. Init => TextInv
  BY TextInitially
<1>2. IInv /\ TextInv /\ [Next]_vars => TextInv'
  <2> SUFFICES ASSUME IInv, TextInv, [Next]_vars PROVE TextInv'
    OBVIOUS
  <2>1. CASE Quoted \/ OpenQuote \/ Whitespace \/ Operator \/ Letter
    BY <2>1, TextTokenize
  <2>2. CASE EndOfLine
    BY <2>2, TextFlush
  <2>3. CASE Word \/ Redirection \/ Ampersand \/ FileName \/ EndOfSimple \/ UNCHANGED vars
    <3>1. line' = line /\ i' = i /\ quote' = quote /\ tokens' = tokens /\ background' = background
      BY <2>3 DEF Word, Redirection, Ampersand, FileName, EndOfSimple, Parsing, vars, scanner
    <3>2. (at # "tokenize" /\ at' # "tokenize") \/ (at' = at /\ current' = current)
      BY <2>3 DEF Word, Redirection, Ampersand, FileName, EndOfSimple, Parsing, Reject, vars, scanner
    <3>3. OpenAt' = OpenOf(line') /\ Meant' = MeantUpTo(line', i' - 1)
      BY DEF Meant, MeantUpTo, MeantAt, MeantOf, OpenAt, OpenOf, After
    <3>4. Rest' = Rest
      BY <3>1, <3>2 DEF Rest, Marked
    <3>5. Taken' = FlattenSeq(TextOf(tokens')) \o Rest' /\ Taken = FlattenSeq(TextOf(tokens)) \o Rest
      BY DEF Taken, TextOf
    <3>6. Taken' = Taken /\ Meant' = Meant /\ OpenAt' = OpenAt
      BY <3>1, <3>3, <3>4, <3>5, MeantIs
    <3> QED
      BY <3>1, <3>2, <3>6 DEF TextInv, TextIsKept
  <2> QED
    BY <2>1, <2>2, <2>3 DEF Next
<1>3. TextInv => TextIsKept
  BY DEF TextInv
<1>4. Spec => []IInv
  BY Invariant
<1> QED
  BY <1>1, <1>2, <1>3, <1>4, PTL DEF Spec

===============================================================================
