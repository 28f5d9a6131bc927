----------------------------- MODULE PrintedTokens -----------------------------
(***************************************************************************)
(* What DslPrinter writes, as the tokens it consists of: the names, the    *)
(* literals, and a pair of parentheses around every operator.  Dsl has the *)
(* characters; Roundtrip says that the two agree.                          *)
(***************************************************************************)
EXTENDS Interchange, Parser

CONSTANTS
  Decimal(_),  \* how std::to_string spells a number
  Hex(_)       \* how the format "0x%llX" does

\* The scanner's types of tokens, which are lexemes and kinds of literals.
LexemeTypes ==
  Keywords \union {"(", ")", ":", "Identifier", "IntLiteral", "RealLiteral", "StringLiteral"}
    \union { UnarySymbol[op] : op \in UnaryOps } \union { BinarySymbol[op] : op \in BinaryOps }

\* A lexeme is a token: its type is a string, and so is the empty text.
ASSUME LexemeAssumption == \A type \in LexemeTypes : Lexeme(type) \in AnyToken

\* The language reads both spellings of the literals and the widths of a problem.
ASSUME SpellingAssumption ==
  \A n \in 0..MaxSigned \union Widths :
    /\ Decimal(n) \in STRING /\ NumberOf(Decimal(n)) = n
    /\ Hex(n) \in STRING /\ NumberOf(Hex(n)) = n

\* printConstant: a BitVec loses its width; a negative number is a minus sign
\* and a literal.
PrintedConstant(c) ==
  CASE c.kind = "Bool"   -> << Lexeme(IF c.value = 1 THEN "true" ELSE "false") >>
    [] c.kind = "Int"    -> IF c.value < 0
                            THEN << Lexeme("-"), Token("IntLiteral", Decimal(-c.value)) >>
                            ELSE << Token("IntLiteral", Decimal(c.value)) >>
    [] c.kind = "BitVec" -> << Token("IntLiteral", Hex(c.value)) >>
    [] c.kind = "Real"   -> << Token("RealLiteral", c.text) >>
    [] c.kind = "String" -> << Token("StringLiteral", c.text) >>

\* A printer that leaves the grouping to the precedences of the operators.
PrintedNodeBare(printed, e) ==
  CASE e.node = "Constant"    -> PrintedConstant(e)
    [] e.node = "VariableRef" -> << Identifier(e.name) >>
    [] e.node = "Unary"       -> << Lexeme(UnarySymbol[e.op]) >> \o printed[e.operand]
    [] e.node = "Binary"      -> printed[e.lhs] \o << Lexeme(BinarySymbol[e.op]) >> \o printed[e.rhs]

Parenthesized(tokens) == << Lexeme("(") >> \o (tokens \o << Lexeme(")") >>)

\* printExpr, where `printed` has the operands.
PrintedNode(printed, e) ==
  CASE e.node = "Constant"    -> PrintedConstant(e)
    [] e.node = "VariableRef" -> << Identifier(e.name) >>
    [] e.node = "Unary"       ->
         Parenthesized(<< Lexeme(UnarySymbol[e.op]) >> \o printed[e.operand])
    [] e.node = "Binary"      ->
         Parenthesized(printed[e.lhs] \o (<< Lexeme(BinarySymbol[e.op]) >> \o printed[e.rhs]))

PrintedExpr(e) == LET printed[t \in Expression] == PrintedNode(printed, t) IN printed[e]

PrintedSort(sort) ==
  IF sort.type = "BitVec"
  THEN << Lexeme("BitVec"), Lexeme("("), Token("IntLiteral", Decimal(sort.width)), Lexeme(")") >>
  ELSE << Lexeme(sort.type) >>

PrintedVariable(v) == << Lexeme("var"), Identifier(v.name), Lexeme(":") >> \o PrintedSort(v.sort)

PrintedConstraint(e) == << Lexeme("constraint") >> \o PrintedExpr(e)

\* One piece after the other.
Concatenated(pieces) ==
  LET text[n \in Nat] == IF n = 0 THEN <<>> ELSE text[n - 1] \o pieces[n] IN text[Len(pieces)]

\* printProblem: the declarations, then the constraints.
PrintedProblem(p) ==
  Concatenated([i \in DOMAIN p.variables |-> PrintedVariable(p.variables[i])])
    \o Concatenated([i \in DOMAIN p.constraints |-> PrintedConstraint(p.constraints[i])])

-----------------------------------------------------------------------------
(* Property                                                                 *)

\* What the printer writes of a validated problem is parsed and analyzed to the
\* same problem: the parentheses restore the trees, and the analyzer gives the
\* literals back the widths the printer leaves out (DslPrinter.cpp 9-140 against
\* Parser.cpp 75-433 and SemanticAnalyzer.cpp 54-371).
PrintedRebuildsProblem ==
  problem # Nothing => Contents(RebuildProgram(ParseProgram(PrintedProblem(problem)))) = problem
=============================================================================
