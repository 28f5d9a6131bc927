------------------------------ MODULE Semantics ------------------------------
(***************************************************************************)
(* rebuildProblemFromSource: the scanner, the parser and the analyzer over *)
(* a whole text.                                                           *)
(***************************************************************************)
EXTENDS Dsl, Typing

\* A text the lexer objects to is not parsed.
ParseScanned(lexed) ==
  IF lexed.ok THEN ParseProgram(lexed.tokens)
  ELSE [variables |-> <<>>, constraints |-> <<>>, ok |-> FALSE]

ParseSource(source) == ParseScanned(Lex(source))

\* A text the lexer or the parser objects to is not analyzed.
RebuildProblem(source) == RebuildProgram(ParseSource(source))
=============================================================================
