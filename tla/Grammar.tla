------------------------------- MODULE Grammar -------------------------------
(***************************************************************************)
(* The scanner and the highlighter against the language they are          *)
(* documented with, on the texts of TextEntry, which has the parser's      *)
(* part.                                                                   *)
(***************************************************************************)
EXTENDS Dsl, Highlighter, TextEntry

-----------------------------------------------------------------------------
(* The documented lexemes (Documentation.md, 4.2, 4.5 and 4.6).             *)

Rest(t, i) == SubSeq(t, i, Len(t))

All(t, class) == t # "" /\ Characters(t) \subseteq class

IsWord(t) == At(t, 1) \in IdentifierStart /\ All(t, IdentifierPart)

IsInteger(t) ==
  \/ All(t, Digit)
  \/ Pair(t, 1) \in {"0x", "0X"} /\ All(Rest(t, 3), HexDigit)
  \/ Pair(t, 1) \in {"0b", "0B"} /\ All(Rest(t, 3), BinaryDigit)

\* Real literals have digits on both sides of the point.
IsReal(t) ==
  \E i \in 2..Len(t) - 1 :
    At(t, i) = "." /\ All(SubSeq(t, 1, i - 1), Digit) /\ All(Rest(t, i + 1), Digit)

DocumentedEscapes == "\\\\" :> "\\" @@ "\\\"" :> "\"" @@ "\\n" :> "\n" @@ "\\t" :> "\t"

\* The strings (one or none) the inside of a string literal stands for.
RECURSIVE Denoted(_)
Denoted(t) ==
  IF t = "" THEN {""}
  ELSE IF At(t, 1) \notin {"\"", "\\", "\n"}
  THEN { At(t, 1) \o v : v \in Denoted(Rest(t, 2)) }
  ELSE IF Pair(t, 1) \in DOMAIN DocumentedEscapes
  THEN { DocumentedEscapes[Pair(t, 1)] \o v : v \in Denoted(Rest(t, 3)) }
  ELSE {}

IsQuoted(t) == Len(t) > 1 /\ At(t, 1) = "\"" /\ At(t, Len(t)) = "\""

Symbols == {":", "(", ")"} \union { UnarySymbol[op] : op \in UnaryOps }
                           \union { BinarySymbol[op] : op \in BinaryOps }

\* The token a lexeme is, in a set; the empty set for anything else.
TokensSpelled(t) ==
  CASE IsWord(t)      -> { IF t \in Keywords THEN Lexeme(t) ELSE Identifier(t) }
    [] IsInteger(t)   -> { Token("IntLiteral", t) }
    [] IsReal(t)      -> { Token("RealLiteral", t) }
    [] t \in Symbols  -> { Lexeme(t) }
    [] IsQuoted(t)    -> { Token("StringLiteral", v) : v \in Denoted(SubSeq(t, 2, Len(t) - 1)) }
    [] OTHER          -> {}

IsComment(t) ==
  \/ Pair(t, 1) = "//" /\ "\n" \notin Characters(t)
  \/ /\ Len(t) >= 4 /\ Pair(t, 1) = "/*" /\ Pair(t, Len(t) - 1) = "*/"
     /\ \A i \in 3..Len(t) - 2 : Pair(t, i) # "*/"

IsPiece(t) == t \in Blank \/ IsComment(t) \/ TokensSpelled(t) # {}

\* How long the longest piece at the head of a text is, in a set.
LongestPiece(s) ==
  LET lengths == { n \in 1..Len(s) : IsPiece(SubSeq(s, 1, n)) }
  IN { n \in lengths : \A l \in lengths : l <= n }

\* A piece cannot end where a number is glued to letters, nor inside the
\* opening of a comment.
MayEnd(s, n) ==
  /\ (At(s, 1) \in Digit => At(s, n + 1) \notin IdentifierPart)
  /\ (Pair(s, 1) = "/*" => n > 1)

\* A comment and a blank are no token.
TokensOf(piece) ==
  IF TokensSpelled(piece) = {} THEN <<>> ELSE << CHOOSE t \in TokensSpelled(piece) : TRUE >>

\* The token sequences (one or none) a text is, read from left to right with
\* the longest piece first.
RECURSIVE Spelled(_), SpelledFrom(_, _)
Spelled(s) == IF s = "" THEN { <<>> } ELSE SpelledFrom(s, LongestPiece(s))

SpelledFrom(s, longest) ==
  UNION { { TokensOf(SubSeq(s, 1, n)) \o rest : rest \in Spelled(Rest(s, n + 1)) } :
            n \in { k \in longest : MayEnd(s, k) } }

-----------------------------------------------------------------------------
(* Properties                                                               *)

\* The scanner takes a text apart as documented, and objects to exactly the
\* texts that cannot be: comments that do not nest and must be closed, numbers
\* glued to letters, digits missing, escapes unknown, strings left open
\* (Lexer.cpp 106-490; Documentation.md, 4.5: "A number glued to letters is
\* rejected without cascading", 4.6: "Block comments do not nest").
LexesAsDocumented ==
  Spelled(text) = IF Lex(text).ok THEN {Lex(text).tokens} ELSE {}

-----------------------------------------------------------------------------
(* The highlighter against the scanner.                                     *)

\* On a line after the text, the end of a comment is no token.
EndsInComment(t) == Lex(t \o "\n*/word").tokens = Append(Lex(t).tokens, Identifier("word"))

\* Where the highlighter deviates from the language: it takes an opening behind
\* "//" or behind a quote for one, and on a line inside a comment it overlooks an
\* end in the first two columns.
OpensBehind(line, marks) ==
  \E i, j \in 1..Len(line) :
    i < j /\ {At(line, i), Pair(line, i)} \intersect marks # {} /\ Pair(line, j) = "/*"

Deviates(line) ==
  OpensBehind(line, {"//", "\""}) \/ "*/" \in {Pair(line, 1), Pair(line, 2)}

LinesOf(t) ==
  { SubSeq(t, i, LineEnd(t, i) - 1) :
      i \in { j \in 1..Len(t) : j = 1 \/ At(t, j - 1) = "\n" } }

\* The next line is coloured as the inside of a block comment just when the
\* scanner would skip it, apart from the deviations (highlightBlock against
\* skipTrivia; DslHighlighter.hpp 11-12: "Block comments are tracked through
\* block states so multi-line /* */ works").
BlockStatesFollowComments ==
  (\A line \in LinesOf(text) : ~Deviates(line)) =>
    (LastBlockState(text) = 1 <=> EndsInComment(text))
=============================================================================
