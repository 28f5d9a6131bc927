------------------------------ MODULE TextEntry ------------------------------
(***************************************************************************)
(* A user types a text piece by piece; after every piece the text is       *)
(* scanned and parsed (setEditorText re-parses on every edit), so that the *)
(* parser meets every unfinished text on the way.  The scanner, which      *)
(* works on characters, is a parameter.                                    *)
(***************************************************************************)
EXTENDS Parser, Syntax

CONSTANTS
  Topics,   \* what a user writes: the name of each topic, the text it starts with,
            \* the pieces typed after it, and (a bound) the texts that come of them
  Scan(_)   \* the scanner: the tokens of a text

\* The scanner makes tokens.
ASSUME ScannerAssumption ==
  \A t \in Topics :
    /\ t.begun \in t.texts
    /\ \A typed \in t.texts : Scan(typed).tokens \in Seq(AnyToken)

VARIABLES text, topic

entryVars == <<text, topic>>

EntryInit == \E t \in Topics :
  /\ text = t.begun
  /\ topic = t.name

TypePiece(t, piece) ==
  /\ t.name = topic
  /\ text \o piece \in t.texts
  /\ text' = text \o piece
  /\ UNCHANGED topic

EntryNext == \E t \in Topics : \E piece \in t.pieces : TypePiece(t, piece)

EntrySpec == EntryInit /\ [][EntryNext]_entryVars

-----------------------------------------------------------------------------
(* Properties                                                               *)

Read(ts) == Text(ParseProgram(ts).variables, ParseProgram(ts).constraints)

\* Precedence climbing (Parser.cpp 309-404) accepts exactly the texts of the
\* documented grammar and builds the one tree the grammar gives them; no text
\* has two.
ParsesAsGrammar ==
  \E ts \in { Scan(text).tokens } :
    Programs(ts) = IF ParseProgram(ts).ok THEN {Read(ts)} ELSE {}

\* What follows a keyword at position i reads as if it stood alone.
ResumesAt(ts, i) ==
  LET first == ParseProgram(Part(ts, 1, i - 1))
      rest == ParseProgram(Part(ts, i, Len(ts)))
  IN (/\ ts[i].type \in StatementKeywords
      /\ first.ok \/ \A j \in 1..i - 1 : ts[j].type # "constraint") =>
       ParseProgram(ts) = Joined(first, rest)

\* Statements end where the next keyword stands: after a finished text, and
\* after any broken declaration, the parser reads what follows as if it stood
\* alone (Parser.cpp 160-205; AST.hpp 43-45: "it synchronizes to the next
\* 'var'/'constraint' keyword so several errors can be reported in one pass").
ResumesAtKeyword ==
  \E ts \in { Scan(text).tokens } : \A i \in 1..Len(ts) : ResumesAt(ts, i)
=============================================================================
