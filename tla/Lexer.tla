-------------------------------- MODULE Lexer --------------------------------
(***************************************************************************)
(* The scanner: from the characters of a text to tokens.  A text is a      *)
(* string, which TLC takes for a sequence of characters; a character is a  *)
(* string of length one.  Locations and messages are left out: an error    *)
(* sets `ok` to FALSE.                                                     *)
(***************************************************************************)
EXTENDS Tokens

Characters(s) == { SubSeq(s, i, i) : i \in 1..Len(s) }

Blank           == {" ", "\t", "\r", "\n"}
BinaryDigit     == {"0", "1"}
Digit           == Characters("0123456789")
HexDigit        == Digit \union Characters("abcdefABCDEF")
IdentifierStart == Characters("abcdefghijklmnopqrstuvwxyzABCDEFGHIJKLMNOPQRSTUVWXYZ_")
IdentifierPart  == IdentifierStart \union Digit

\* Nothing stands past the end: peek() answers NUL there, and so does the
\* terminator of the string that scanNumber reads at the end of the text.
At(s, i)   == IF i > Len(s) THEN "" ELSE SubSeq(s, i, i)
Pair(s, i) == IF i >= Len(s) THEN At(s, i) ELSE SubSeq(s, i, i + 1)

\* consumeDigits and the loops like it: where the run of characters ends.
RECURSIVE After(_, _, _)
After(s, i, class) == IF At(s, i) \in class THEN After(s, i + 1, class) ELSE i

-----------------------------------------------------------------------------
(* Symbols.                                                                 *)

TwoCharacterSymbols == {"||", "&&", "==", "!=", "<<", "<=", ">>", ">="}
OneCharacterSymbols == Characters(":()|&!<>+-*/%^~")

\* What a scan read: the tokens (none or one), the position after them, and
\* whether no error was reported.
Scanned(tokens, pos, ok) == [tokens |-> tokens, pos |-> pos, ok |-> ok]

-----------------------------------------------------------------------------
(* skipTrivia: blanks, line comments and block comments, which do not nest. *)

\* A search that lets the star of the opening close the comment.
BodyFromStar(i) == i + 1

\* Where the search for the end of the comment that opens at i begins.
Body(i) == i + 2

\* The position after the first "*/" from i on, or past the end.
RECURSIVE CommentEnd(_, _)
CommentEnd(s, i) ==
  IF Pair(s, i) = "*/" THEN i + 2
  ELSE IF i > Len(s) THEN i ELSE CommentEnd(s, i + 1)

Terminated(s, i) == \E j \in Body(i)..Len(s) - 1 : Pair(s, j) = "*/"

LineEnd(s, i) == LET ends == { j \in i..Len(s) : At(s, j) = "\n" }
                 IN IF ends = {} THEN Len(s) + 1 ELSE CHOOSE j \in ends : \A k \in ends : j <= k

RECURSIVE SkipTrivia(_, _, _)
SkipTrivia(s, i, ok) ==
  CASE At(s, i) \in Blank   -> SkipTrivia(s, i + 1, ok)
    [] Pair(s, i) = "//"    -> SkipTrivia(s, LineEnd(s, i), ok)
    [] Pair(s, i) = "/*"    -> SkipTrivia(s, CommentEnd(s, Body(i)), ok /\ Terminated(s, i))
    [] OTHER                -> Scanned(<<>>, i, ok)

-----------------------------------------------------------------------------
(* scanIdentifierOrKeyword                                                  *)

Word(text) == IF text \in Keywords THEN Lexeme(text) ELSE Identifier(text)

ScanWord(s, i, end) == Scanned(<<Word(SubSeq(s, i, end - 1))>>, end, TRUE)

-----------------------------------------------------------------------------
(* scanNumber                                                               *)

\* A scanner that leaves glued characters to the next token.
KeepGarbage(s, end) == Scanned(<<>>, end, TRUE)

\* rejectTrailingGarbage: identifier characters glued to a number are an error
\* and skipped.
RejectTrailingGarbage(s, end) ==
  Scanned(<<>>, After(s, end, IdentifierPart), At(s, end) \notin IdentifierPart)

\* The token keeps the numeric prefix, garbage or not.
NumberUpTo(s, i, end, type) ==
  [RejectTrailingGarbage(s, end) EXCEPT !.tokens = <<Token(type, SubSeq(s, i, end - 1))>>]

NoNumber(s, end) == [RejectTrailingGarbage(s, end) EXCEPT !.ok = FALSE]

\* After "0x" or "0b": at least one digit.
ScanRadix(s, i, end) ==
  IF end = i + 2 THEN NoNumber(s, end) ELSE NumberUpTo(s, i, end, "IntLiteral")

\* A point after the digits needs a digit; without one the point stays.
ScanDecimal(s, i, end) ==
  CASE At(s, end) # "."           -> NumberUpTo(s, i, end, "IntLiteral")
    [] At(s, end + 1) \in Digit   -> NumberUpTo(s, i, After(s, end + 1, Digit), "RealLiteral")
    [] OTHER                      -> NoNumber(s, end)

ScanNumber(s, i) ==
  CASE Pair(s, i) \in {"0x", "0X"} -> ScanRadix(s, i, After(s, i + 2, HexDigit))
    [] Pair(s, i) \in {"0b", "0B"} -> ScanRadix(s, i, After(s, i + 2, BinaryDigit))
    [] OTHER                       -> ScanDecimal(s, i, After(s, i, Digit))

-----------------------------------------------------------------------------
(* scanString                                                               *)

EscapedCharacter == "\\" :> "\\" @@ "\"" :> "\"" @@ "n" :> "\n" @@ "t" :> "\t"

\* An unknown escape is an error and stands for nothing.
Unescaped(c) == IF c \in DOMAIN EscapedCharacter THEN EscapedCharacter[c] ELSE ""

\* From i on, with `value` and `ok` so far.  A string ends on its line; the
\* line break that comes instead of the quote is not consumed.
RECURSIVE ScanString(_, _, _, _)
ScanString(s, i, value, ok) ==
  CASE At(s, i) \in {"", "\n"} -> Scanned(<<>>, i, FALSE)
    [] At(s, i) = "\""         -> Scanned(<<Token("StringLiteral", value)>>, i + 1, ok)
    [] At(s, i) = "\\"         -> ScanString(s, i + 2, value \o Unescaped(At(s, i + 1)),
                                             ok /\ At(s, i + 1) \in DOMAIN EscapedCharacter)
    [] OTHER                   -> ScanString(s, i + 1, value \o At(s, i), ok)

-----------------------------------------------------------------------------
(* scanToken and run                                                        *)

\* A scanner that tries the short symbols first.
ShortestSymbol(s, i) == IF At(s, i) \in OneCharacterSymbols THEN At(s, i) ELSE Pair(s, i)

\* The symbol at i: two characters where they make one.
LongestSymbol(s, i) == IF Pair(s, i) \in TwoCharacterSymbols THEN Pair(s, i) ELSE At(s, i)

\* Anything else, a lone '=' included, is an error and skipped.
ScanSymbol(i, symbol) ==
  IF symbol \in TwoCharacterSymbols \union OneCharacterSymbols
  THEN Scanned(<<Lexeme(symbol)>>, i + Len(symbol), TRUE)
  ELSE Scanned(<<>>, i + 1, FALSE)

ScanToken(s, i) ==
  CASE At(s, i) \in IdentifierStart -> ScanWord(s, i, After(s, i, IdentifierPart))
    [] At(s, i) \in Digit           -> ScanNumber(s, i)
    [] At(s, i) = "\""              -> ScanString(s, i + 1, "", TRUE)
    [] OTHER                        -> ScanSymbol(i, LongestSymbol(s, i))

AfterToken(read, scanned) ==
  Scanned(read.tokens \o scanned.tokens, scanned.pos, read.ok /\ scanned.ok)

RECURSIVE ScanFrom(_, _)
ScanRest(s, read, trivia) ==
  IF trivia.pos > Len(s) THEN [read EXCEPT !.ok = @ /\ trivia.ok]
  ELSE ScanFrom(s, AfterToken([read EXCEPT !.ok = @ /\ trivia.ok], ScanToken(s, trivia.pos)))

ScanFrom(s, read) == ScanRest(s, read, SkipTrivia(s, read.pos, TRUE))

\* lex(): the tokens of a text, and whether it has none but known ones.
Lex(s) == ScanFrom(s, Scanned(<<>>, 1, TRUE))
=============================================================================
