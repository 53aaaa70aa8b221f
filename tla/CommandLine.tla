------------------------------ MODULE CommandLine ------------------------------
(***************************************************************************)
(* The command line parser: tokenize, parse_simple_command and             *)
(* parse_command of src/shell/src/parser.cpp, one action per iteration of  *)
(* their loops.  A string is a sequence of characters; the text of the     *)
(* error messages is left out.                                             *)
(***************************************************************************)
EXTENDS Integers, SequencesExt

CONSTANTS
  Letters,   \* the characters without a meaning of their own
  Lines      \* the lines that are typed

Quotes == {"'", "\""}
Space == " "
Operators == {"<", ">", "|", "&"}
Chars == Letters \cup Quotes \cup Operators \cup {Space}

ASSUME LinesAssumption ==
  /\ Letters \cap (Quotes \cup Operators \cup {Space, "none"}) = {}
  /\ Lines \subseteq Seq(Chars)

VARIABLES
  line,
  i,            \* the position of tokenize in the line
  current,      \* the word that is being collected
  quote,        \* in_single, in_double: the quote that is open, or "none"
  tokens,
  background,
  start,        \* segment_start: where the simple command begins
  pos,          \* the position of the parser in the tokens
  redir_side,   \* the redirection whose file name must follow, or "NONE"
  simple,       \* the SimpleCommand that is being made
  commands,     \* Command.commands
  at            \* "tokenize", "parse", "accepted", "rejected"

scanner == <<i, current, quote>>
parser == <<start, pos, redir_side, simple, commands>>
vars == <<line, scanner, tokens, background, parser, at>>

Nothing == [argv |-> << >>, input_redirection |-> << >>, output_redirection |-> << >>]

Init ==
  /\ line \in Lines
  /\ i = 1 /\ current = << >> /\ quote = "none"
  /\ tokens = << >>
  /\ background = FALSE
  /\ start = 1 /\ pos = 1 /\ redir_side = "NONE"
  /\ simple = Nothing
  /\ commands = << >>
  /\ at = "tokenize"

(***************************************************************************)
(* tokenize                                                                *)
(***************************************************************************)

TokenType(c) ==
  CASE c = "<" -> "input_redir"
    [] c = ">" -> "output_redir"
    [] c = "|" -> "PIPE"
    [] c = "&" -> "BACKGROUND"

\* Mutant of push_word_if_any: an empty word counts as well
push_word_if_any_Empty == Append(tokens, [type |-> "WORD", value |-> current])

push_word_if_any ==
  IF current = << >> THEN tokens ELSE Append(tokens, [type |-> "WORD", value |-> current])

Char == line[i]

Tokenizing ==
  /\ at = "tokenize"
  /\ i <= Len(line)
  /\ i' = i + 1
  /\ UNCHANGED <<line, background, parser, at>>

Quoted ==
  /\ Tokenizing
  /\ quote # "none"
  /\ IF Char = quote THEN quote' = "none" /\ UNCHANGED current
                     ELSE current' = Append(current, Char) /\ UNCHANGED quote
  /\ UNCHANGED tokens

OpenQuote ==
  /\ Tokenizing
  /\ quote = "none" /\ Char \in Quotes
  /\ quote' = Char
  /\ UNCHANGED <<current, tokens>>

Whitespace ==
  /\ Tokenizing
  /\ quote = "none" /\ Char = Space
  /\ tokens' = push_word_if_any
  /\ current' = << >>
  /\ UNCHANGED quote

Operator ==
  /\ Tokenizing
  /\ quote = "none" /\ Char \in Operators
  /\ tokens' = Append(push_word_if_any, [type |-> TokenType(Char), value |-> << Char >>])
  /\ current' = << >>
  /\ UNCHANGED quote

Letter ==
  /\ Tokenizing
  /\ quote = "none" /\ Char \in Letters
  /\ current' = Append(current, Char)
  /\ UNCHANGED <<quote, tokens>>

\* Mutant of Flushed: the word at the end of the line is forgotten
Flushed_Nothing == tokens

\* The tokens with the word at the end of the line
Flushed == push_word_if_any

\* The end of the line, and the & at the end of the tokens
EndOfLine ==
  LET ts == Flushed
      amp == ts # << >> /\ Last(ts).type = "BACKGROUND"
  IN  /\ at = "tokenize"
      /\ i > Len(line)
      /\ IF quote # "none" THEN at' = "rejected" /\ UNCHANGED <<tokens, background>>
         ELSE /\ tokens' = IF amp THEN SubSeq(ts, 1, Len(ts) - 1) ELSE ts
              /\ background' = amp
              /\ at' = IF tokens' = << >> THEN "rejected" ELSE "parse"
      /\ UNCHANGED <<line, scanner, parser>>

(***************************************************************************)
(* parse_simple_command, for the tokens up to the next pipe                *)
(***************************************************************************)

Token == tokens[pos]

\* The tokens of the simple command go on.
InSimple == pos <= Len(tokens) /\ Token.type # "PIPE"

Parsing ==
  /\ at = "parse"
  /\ InSimple
  /\ pos' = pos + 1
  /\ UNCHANGED <<line, scanner, tokens, background, start, commands>>

Reject == at' = "rejected" /\ UNCHANGED <<redir_side, simple>>

Word ==
  /\ Parsing
  /\ redir_side = "NONE" /\ Token.type = "WORD"
  /\ simple' = [simple EXCEPT !.argv = Append(@, Token.value)]
  /\ UNCHANGED <<redir_side, at>>

Redirection ==
  /\ Parsing
  /\ redir_side = "NONE" /\ Token.type \in {"input_redir", "output_redir"}
  /\ redir_side' = IF Token.type = "input_redir" THEN "IN" ELSE "OUT"
  /\ UNCHANGED <<simple, at>>

Ampersand ==
  /\ Parsing
  /\ redir_side = "NONE" /\ Token.type = "BACKGROUND"
  /\ Reject

\* Mutant of Given: only the input is looked at
Given_Input == redir_side = "IN" /\ simple.input_redirection # << >>

\* The redirection was given before.
Given ==
  \/ redir_side = "IN" /\ simple.input_redirection # << >>
  \/ redir_side = "OUT" /\ simple.output_redirection # << >>

FileName ==
  /\ Parsing
  /\ redir_side # "NONE"
  /\ IF Token.type # "WORD" \/ Given THEN Reject
     ELSE /\ simple' = IF redir_side = "IN"
                       THEN [simple EXCEPT !.input_redirection = Token.value]
                       ELSE [simple EXCEPT !.output_redirection = Token.value]
          /\ redir_side' = "NONE"
          /\ UNCHANGED at

(***************************************************************************)
(* parse_command, at a pipe or at the end of the tokens                    *)
(***************************************************************************)

\* Mutants of AfterPipe: the simple command before the pipe is not reset, a token
\* after the pipe is skipped
AfterPipe_Keeps == start' = pos + 1 /\ pos' = pos + 1 /\ UNCHANGED simple
AfterPipe_Skips == start' = pos + 2 /\ pos' = pos + 2 /\ simple' = Nothing

AfterPipe == start' = pos + 1 /\ pos' = pos + 1 /\ simple' = Nothing

EndOfSimple ==
  /\ at = "parse"
  /\ ~ InSimple
  /\ IF pos = start \/ redir_side # "NONE" \/ simple.argv = << >>
     THEN at' = "rejected" /\ UNCHANGED <<start, pos, simple, commands>>
     ELSE /\ commands' = Append(commands, simple)
          /\ IF pos > Len(tokens)
             THEN at' = "accepted" /\ UNCHANGED <<start, pos, simple>>
             ELSE AfterPipe /\ UNCHANGED at
  /\ UNCHANGED <<line, scanner, tokens, background, redir_side>>

Next ==
  \/ Quoted \/ OpenQuote \/ Whitespace \/ Operator \/ Letter
  \/ EndOfLine
  \/ Word \/ Redirection \/ Ampersand \/ FileName
  \/ EndOfSimple

Spec == Init /\ [][Next]_vars

(***************************************************************************)
(* Properties.                                                             *)
(***************************************************************************)

Str == Seq(Chars)
Types == {"WORD", "input_redir", "output_redir", "PIPE", "BACKGROUND"}
Simple == [argv : Seq(Str), input_redirection : Str, output_redirection : Str]

\* Type invariant
TypeOK ==
  /\ line \in Lines
  /\ i \in 1 .. Len(line) + 1
  /\ current \in Str
  /\ quote \in Quotes \cup {"none"}
  /\ tokens \in Seq([type : Types, value : Str])
  /\ background \in BOOLEAN
  /\ start \in 1 .. Len(tokens) + 1 /\ pos \in 1 .. Len(tokens) + 1
  /\ redir_side \in {"NONE", "IN", "OUT"}
  /\ simple \in Simple
  /\ commands \in Seq(Simple)
  /\ at \in {"tokenize", "parse", "accepted", "rejected"}

NoneEmpty(strings) == \A a \in DOMAIN strings : strings[a] # << >>

\* What main, is_builtin and run_child take for granted of a command that was
\* accepted: there is a first command, every command has a name, and no name is
\* the empty string, whatever quotes the line has.
CommandsAreRunnable ==
  at = "accepted" =>
    /\ commands # << >>
    /\ \A k \in DOMAIN commands :
         commands[k].argv # << >> /\ NoneEmpty(commands[k].argv)

IsRedirection(t) == t.type \in {"input_redir", "output_redir"}
PipesBefore(p) == Cardinality({q \in 1 .. p - 1 : tokens[q].type = "PIPE"})
OfCommand(n) == {p \in DOMAIN tokens : tokens[p].type # "PIPE" /\ PipesBefore(p) = n - 1}
FileNameAt(p) == p > 1 /\ tokens[p].type = "WORD" /\ IsRedirection(tokens[p - 1])
ArgumentAt(p) == tokens[p].type = "WORD" /\ ~ FileNameAt(p)
Arguments(ps) == {p \in ps : ArgumentAt(p)}
FileNames(type, ps) == {p \in ps : FileNameAt(p) /\ tokens[p - 1].type = type}

\* No redirection is given twice at these positions.
Once(ps) ==
  \A p, q \in ps : IsRedirection(tokens[p]) /\ tokens[p].type = tokens[q].type => p = q

\* The grammar of a line, as a condition on its tokens without the final &
Grammatical ==
  /\ tokens # << >>
  /\ \A p \in DOMAIN tokens :
       /\ tokens[p].type # "BACKGROUND"
       /\ IsRedirection(tokens[p]) => p < Len(tokens) /\ tokens[p + 1].type = "WORD"
  /\ \A n \in 1 .. PipesBefore(Len(tokens) + 1) + 1 :
       Arguments(OfCommand(n)) # {} /\ Once(OfCommand(n))

\* Exactly the lines whose quotes are closed and whose tokens follow the
\* grammar are accepted (parse_command, parse_simple_command).
AcceptsGrammar ==
  /\ at = "accepted" => quote = "none" /\ Grammatical
  /\ at = "rejected" => quote # "none" \/ ~ Grammatical

\* The word at one of these positions, the empty string when there is none
WordAt(ps) == IF ps = {} THEN << >> ELSE tokens[CHOOSE p \in ps : TRUE].value

\* The simple command c is what the tokens at the positions ps say.
Translates(c, ps) ==
  LET args == Arguments(ps)
      Rank(p) == Cardinality({q \in args : q <= p})
  IN  /\ {<<Rank(p), tokens[p].value>> : p \in args} = {<<a, c.argv[a]>> : a \in DOMAIN c.argv}
      /\ c.input_redirection = WordAt(FileNames("input_redir", ps))
      /\ c.output_redirection = WordAt(FileNames("output_redir", ps))

\* Every word of an accepted line is where it was written: a file name is the
\* redirection of its own command, an argument has its place among those of its
\* command, and nothing else is in the result (parse_simple_command).
CommandsMatchTokens ==
  at = "accepted" =>
    /\ Len(commands) = PipesBefore(Len(tokens) + 1) + 1
    /\ \A n \in DOMAIN commands : Translates(commands[n], OfCommand(n))

\* The quote that is open before position j of the line
OpenAt ==
  LET open[j \in 1 .. Len(line) + 1] ==
        IF j = 1 THEN "none"
        ELSE LET before == open[j - 1]
             IN  IF before = "none" THEN IF line[j - 1] \in Quotes THEN line[j - 1] ELSE "none"
                 ELSE IF line[j - 1] = before THEN "none" ELSE before
  IN  open

\* Character j of the line, with whether it is an operator, or nothing
MeantAt(j) ==
  LET open == OpenAt[j]
      kept == IF open = "none" THEN line[j] \notin Quotes \cup {Space} ELSE line[j] # open
  IN  IF kept THEN << <<line[j], open = "none" /\ line[j] \in Operators>> >> ELSE << >>

\* The characters the user meant literally, and the operators, in their order
Meant == FlattenSeq([j \in 1 .. i - 1 |-> MeantAt(j)])

Marked(string, operator) == [c \in DOMAIN string |-> <<string[c], operator>>]

\* What is behind the tokens: the word that is being collected, and once the line
\* is at its end, the & that was taken off
Rest ==
  IF at = "tokenize" THEN Marked(current, FALSE)
  ELSE IF background THEN << <<"&", TRUE>> >> ELSE << >>

\* The characters that were taken from the line, each with whether it is an
\* operator
Taken ==
  FlattenSeq([n \in DOMAIN tokens |-> Marked(tokens[n].value, tokens[n].type # "WORD")]) \o Rest

\* No character of the line is lost, doubled or moved, quoted operators are text
\* and unquoted ones are tokens: so far in every iteration of tokenize, and of the
\* whole line, its last word included, in the tokens that parse_command works on,
\* unless a quote was left open and the line is rejected for it.
TextIsKept == at = "tokenize" \/ quote = "none" => Taken = Meant

===============================================================================
