-------------------------------- MODULE Syntax --------------------------------
(***************************************************************************)
(* The documented grammar of the workbench language, over tokens: which    *)
(* trees a sequence of tokens derives as an expression, and which programs *)
(* it derives as a text (Documentation.md, 4.2 to 4.8).                    *)
(***************************************************************************)
EXTENDS Tokens

Part(ts, i, j) == SubSeq(ts, i, j)

-----------------------------------------------------------------------------
(* Expressions.                                                             *)

\* Documentation.md, 4.8: the operators of each level, lowest binding first.
Levels ==
  << {"||"}, {"&&"}, {"==", "!="}, {"<", "<=", ">", ">="}, {"&", "|", "^"},
     {"<<", ">>"}, {"+", "-"}, {"*", "/", "%"} >>

UnaryLevel   == 9
PrimaryLevel == 10

OpOfSymbol(symbol)      == CHOOSE op \in BinaryOps : BinarySymbol[op] = symbol
UnaryOpOfSymbol(symbol) == CHOOSE op \in UnaryOps : UnarySymbol[op] = symbol

PrefixSymbols == { UnarySymbol[op] : op \in UnaryOps }

LiteralTrees(t) ==
  CASE t.type = "Identifier"    -> {Variable(t.text)}
    [] t.type = "IntLiteral"    -> IF NumberOf(t.text) > MaxSigned
                                   THEN {} ELSE {Integer(NumberOf(t.text))}
    [] t.type = "RealLiteral"   -> {RealValue(t.text)}
    [] t.type = "StringLiteral" -> {StringValue(t.text)}
    [] t.type = "true"          -> {Boolean(1)}
    [] t.type = "false"         -> {Boolean(0)}
    [] OTHER                    -> {}

\* A sequence of tokens to derive at a level, and the sequences for which that
\* is asked.
Phrase(ts, level) == [tokens |-> ts, level |-> level]
Phrases == [tokens: Seq(AnyToken), level: 1..PrimaryLevel]

\* A literal, or an expression of the lowest level in parentheses.
PrimaryTrees(trees, ts) ==
  IF Len(ts) = 1 THEN LiteralTrees(ts[1])
  ELSE IF ts[1].type = "(" /\ ts[Len(ts)].type = ")"
  THEN trees[Phrase(Part(ts, 2, Len(ts) - 1), 1)]
  ELSE {}

\* A prefix operator before another operand.
PrefixTrees(trees, ts) ==
  IF ts[1].type \in PrefixSymbols
  THEN { Unary(UnaryOpOfSymbol(ts[1].type), e) : e \in trees[Phrase(Tail(ts), UnaryLevel)] }
  ELSE {}

\* An operator of the level between a left part of the same level and a right
\* part of the next one.
SplitTrees(trees, ts, level, i) ==
  { Binary(OpOfSymbol(ts[i].type), l, r) :
      l \in trees[Phrase(Part(ts, 1, i - 1), level)],
      r \in trees[Phrase(Part(ts, i + 1, Len(ts)), level + 1)] }

InfixTrees(trees, ts, level) ==
  UNION { SplitTrees(trees, ts, level, i) :
            i \in { j \in 2..Len(ts) - 1 : ts[j].type \in Levels[level] } }

\* The trees of a phrase; a level also has the trees of the next one.
TreesOf(trees, ts, level) ==
  IF ts = <<>> THEN {}
  ELSE CASE level = PrimaryLevel -> PrimaryTrees(trees, ts)
         [] level = UnaryLevel   -> trees[Phrase(ts, level + 1)] \union PrefixTrees(trees, ts)
         [] OTHER                -> trees[Phrase(ts, level + 1)] \union InfixTrees(trees, ts, level)

Trees(ts, level) ==
  LET trees[phrase \in Phrases] == TreesOf(trees, phrase.tokens, phrase.level)
  IN trees[Phrase(ts, level)]

-----------------------------------------------------------------------------
(* Programs.                                                                *)

SortsNamed(ts) ==
  IF Len(ts) = 1 /\ ts[1].type \in {"Bool", "Int", "Real", "String"}
  THEN {Sort(ts[1].type, 0)}
  ELSE IF /\ Len(ts) = 4
          /\ ts[1].type = "BitVec" /\ ts[2].type = "("
          /\ ts[3].type = "IntLiteral" /\ NumberOf(ts[3].text) \in 1..WordBits
          /\ ts[4].type = ")"
  THEN {BitVecSort(NumberOf(ts[3].text))}
  ELSE {}

Text(variables, constraints) == [variables |-> variables, constraints |-> constraints]

\* The statement the tokens are, as a program of one statement.
Statements(ts) ==
  IF ts[1].type = "constraint"
  THEN { Text(<<>>, <<e>>) : e \in Trees(Tail(ts), 1) }
  ELSE IF ts[1].type = "var" /\ Len(ts) > 3 /\ ts[2].type = "Identifier" /\ ts[3].type = ":"
  THEN { Text(<<[name |-> ts[2].text, sort |-> sort]>>, <<>>) :
           sort \in SortsNamed(Part(ts, 4, Len(ts))) }
  ELSE {}

\* A statement, the first i tokens, and then a program.
ProgramsAfter(programs, ts, i) ==
  { Text(s.variables \o p.variables, s.constraints \o p.constraints) :
      s \in Statements(Part(ts, 1, i)), p \in programs[Part(ts, i + 1, Len(ts))] }

ProgramsOf(programs, ts) ==
  IF ts = <<>> THEN { Text(<<>>, <<>>) }
  ELSE UNION { ProgramsAfter(programs, ts, i) : i \in 1..Len(ts) }

Programs(ts) ==
  LET programs[s \in Seq(AnyToken)] == ProgramsOf(programs, s) IN programs[ts]
=============================================================================
