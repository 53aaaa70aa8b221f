-------------------------------- MODULE Scanner --------------------------------
(***************************************************************************)
(* What outlives parse_source of src/compiler/parser_driver.c: the buffer  *)
(* of the scanner that flex generates.                                     *)
(*                                                                         *)
(* A file is a sequence of pieces: a statement, or text up to the token at *)
(* which the parser gives up.  The scanner reads CHUNK pieces at a time    *)
(* (8192 bytes), and a read does not split a piece.                        *)
(***************************************************************************)
EXTENDS Integers, Sequences, FiniteSets

CONSTANTS
  Files,          \* the files there are
  CHUNK           \* pieces a read of the scanner brings

ASSUME ScannerAssumption ==
  /\ CHUNK \in Nat \ {0}
  /\ << >> \in Files
  /\ \A f \in Files : f \in Seq({f[n] : n \in DOMAIN f})

VARIABLES
  buffer,         \* pieces the scanner has read and not yet given out
  eof_pending,    \* it has met the end of the file it was given
  file,           \* the last file that was compiled
  compilations    \* their number

scanner == <<buffer, eof_pending, file, compilations>>

SyntaxError(piece) == piece.kind = "error"

ScannerIsFresh == buffer = << >> /\ ~ eof_pending

ScannerInit ==
  /\ buffer = << >> /\ eof_pending = FALSE
  /\ file = << >> /\ compilations = 0

Least(S) == CHOOSE n \in S : \A m \in S : n <= m

\* What the parser is given: the rest of the buffer, then the file, unless the
\* end of another file is still to be reported.
Content(f) == IF eof_pending THEN buffer ELSE buffer \o f

ErrorsIn(pieces) == {n \in DOMAIN pieces : SyntaxError(pieces[n])}

\* How much of the content has been read when piece n has been given out
ReadFor(content, n) ==
  Least({k \in {Len(buffer) + c * CHUNK : c \in 0 .. Len(content)} \cup {Len(content)} :
           n <= k /\ Len(buffer) <= k})

\* Mutant of Leftover: the piece with the error stays in the buffer
Leftover_WithError(content, e, read) == SubSeq(content, e, read)

Leftover(content, e, read) == SubSeq(content, e + 1, read)

\* yyparse fails.  At the end of what was read the scanner may have had to
\* look at the character that follows, so it has read once more.
Rejects(f) ==
  LET content == Content(f)
      e == Least(ErrorsIn(content))
      read == ReadFor(content, e)
  IN  /\ ErrorsIn(content) # {}
      /\ \/ buffer' = Leftover(content, e, read) /\ eof_pending' = FALSE
         \/ /\ e = read
            /\ IF e = Len(content) THEN buffer' = << >>
               ELSE buffer' = SubSeq(content, e + 1, ReadFor(content, e + 1))
            /\ eof_pending' = (e = Len(content))

\* yyparse succeeds: at its end it has met the end of the file, where flex
\* restarts the scanner.
Accepts(f) ==
  /\ ErrorsIn(Content(f)) = {}
  /\ buffer' = << >>
  /\ eof_pending' = FALSE

Compiled(f) == file' = f /\ compilations' = compilations + 1

Parses(f) == Compiled(f) /\ (Rejects(f) \/ Accepts(f))

\* The file cannot be opened.
NotOpened == Compiled(<< >>) /\ UNCHANGED <<buffer, eof_pending>>

ScannerNext == NotOpened \/ \E f \in Files : Parses(f)
ScannerSpec == ScannerInit /\ [][ScannerNext]_scanner

(***************************************************************************)
(* Properties.                                                             *)
(***************************************************************************)

\* A file without syntax errors cleans the scanner or at least takes an error
\* out of it, so that compiling it again and again gets it through in the end
\* (yyparse gives up behind the token it was given, flex restarts at the end).
CorrectFilesHeal ==
  [][Parses(file') /\ ErrorsIn(file') = {} =>
       ScannerIsFresh' \/ Cardinality(ErrorsIn(buffer')) < Cardinality(ErrorsIn(buffer))]_scanner
===============================================================================
