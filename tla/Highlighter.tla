----------------------------- MODULE Highlighter -----------------------------
(***************************************************************************)
(* DslHighlighter: how the editor knows which lines start inside a block   *)
(* comment.  Qt keeps a state per line (a block) and calls highlightBlock  *)
(* with the line and the state of the one before; 1 stands for "inside".   *)
(* The colours within a line are left out.                                 *)
(***************************************************************************)
EXTENDS Lexer

\* indexOf: the first place of a pair from i on, 0 for none.
PlaceOf(pair, line, i) ==
  LET places == { j \in i..Len(line) : Pair(line, j) = pair }
  IN IF places = {} THEN 0 ELSE CHOOSE j \in places : \A k \in places : j <= k

\* A search that lets the star of the opening close the comment.
EndFromStar(i) == i + 1

\* Where the end of the comment at i is searched, also where a comment goes on
\* at the start of a line and has no opening to step over.
EndFrom(i) == i + 2

\* The state after a line with a comment at i, 0 for no comment.
RECURSIVE StateFrom(_, _)
StateFrom(line, i) ==
  IF i = 0 THEN 0
  ELSE LET end == PlaceOf("*/", line, EndFrom(i))
       IN IF end = 0 THEN 1 ELSE StateFrom(line, PlaceOf("/*", line, end + 2))

\* highlightBlock
HighlightBlock(previous, line) ==
  StateFrom(line, IF previous = 1 THEN 1 ELSE PlaceOf("/*", line, 1))

\* The state of the last line of a text, line i being the next one.
RECURSIVE HighlightLines(_, _, _)
HighlightLines(s, i, previous) ==
  LET end == LineEnd(s, i)
      state == HighlightBlock(previous, SubSeq(s, i, end - 1))
  IN IF end > Len(s) THEN state ELSE HighlightLines(s, end + 1, state)

\* previousBlockState() of the first line is -1.
LastBlockState(s) == HighlightLines(s, 1, -1)
=============================================================================
