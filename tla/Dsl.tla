--------------------------------- MODULE Dsl ---------------------------------
(***************************************************************************)
(* The workbench language, written: from a problem to its text             *)
(* (DslPrinter), and the numbers of both languages as text.                *)
(***************************************************************************)
EXTENDS Lexer, Parser

-----------------------------------------------------------------------------
(* Numbers as text, in the bases the language writes and reads.             *)

DigitValue ==
  [c \in HexDigit |->
     CHOOSE n \in 0..15 : c \in {At("0123456789abcdef", n + 1), At("0123456789ABCDEF", n + 1)}]

\* std::from_chars on digits of the base.
RECURSIVE ValueOf(_, _)
ValueOf(digits, base) ==
  IF digits = "" THEN 0
  ELSE base * ValueOf(SubSeq(digits, 1, Len(digits) - 1), base)
         + DigitValue[At(digits, Len(digits))]

\* detectBase and stripBasePrefix.
SpelledNumber(text) ==
  CASE Pair(text, 1) \in {"0x", "0X"} -> ValueOf(SubSeq(text, 3, Len(text)), 16)
    [] Pair(text, 1) \in {"0b", "0B"} -> ValueOf(SubSeq(text, 3, Len(text)), 2)
    [] OTHER                          -> ValueOf(text, 10)

\* The conversion %llX.
RECURSIVE HexText(_)
HexText(n) ==
  (IF n < 16 THEN "" ELSE HexText(n \div 16)) \o At("0123456789ABCDEF", (n % 16) + 1)

-----------------------------------------------------------------------------
(* DslPrinter                                                               *)

\* A printer that leaves the quotes of a string as they are.
EscapeKeepingQuotes(c) ==
  CASE c = "\\" -> "\\\\" [] c = "\n" -> "\\n" [] c = "\t" -> "\\t" [] OTHER -> c

Escape(c) ==
  CASE c = "\\" -> "\\\\" [] c = "\"" -> "\\\"" [] c = "\n" -> "\\n" [] c = "\t" -> "\\t"
    [] OTHER -> c

RECURSIVE Escaped(_)
Escaped(s) == IF s = "" THEN "" ELSE Escape(At(s, 1)) \o Escaped(Tail(s))

\* printConstant: BitVec constants lose their width.
PrintConstant(c) ==
  CASE c.kind = "Bool"   -> IF c.value = 1 THEN "true" ELSE "false"
    [] c.kind = "Int"    -> ToString(c.value)
    [] c.kind = "BitVec" -> "0x" \o HexText(c.value)
    [] c.kind = "Real"   -> c.text
    [] c.kind = "String" -> "\"" \o Escaped(c.text) \o "\""

\* A printer that trusts the reader's precedences.
RECURSIVE PrintExprBare(_)
PrintExprBare(e) ==
  CASE e.node = "Constant"    -> PrintConstant(e)
    [] e.node = "VariableRef" -> e.name
    [] e.node = "Unary"       -> UnarySymbol[e.op] \o PrintExprBare(e.operand)
    [] e.node = "Binary"      -> PrintExprBare(e.lhs) \o " " \o BinarySymbol[e.op] \o " "
                                   \o PrintExprBare(e.rhs)

\* printExpr: every unary and binary node is put in parentheses.
RECURSIVE PrintExpr(_)
PrintExpr(e) ==
  CASE e.node = "Constant"    -> PrintConstant(e)
    [] e.node = "VariableRef" -> e.name
    [] e.node = "Unary"       -> "(" \o UnarySymbol[e.op] \o PrintExpr(e.operand) \o ")"
    [] e.node = "Binary"      -> "(" \o PrintExpr(e.lhs) \o " " \o BinarySymbol[e.op] \o " "
                                   \o PrintExpr(e.rhs) \o ")"

PrintSort(sort) ==
  IF sort.type = "BitVec" THEN "BitVec(" \o ToString(sort.width) \o ")" ELSE sort.type

RECURSIVE PrintVariables(_), PrintConstraints(_)
PrintVariables(vs) ==
  IF vs = <<>> THEN ""
  ELSE "var " \o Head(vs).name \o ": " \o PrintSort(Head(vs).sort) \o "\n"
         \o PrintVariables(Tail(vs))

PrintConstraints(cs) ==
  IF cs = <<>> THEN ""
  ELSE "constraint " \o PrintExpr(Head(cs)) \o "\n" \o PrintConstraints(Tail(cs))

PrintProblem(p) ==
  PrintVariables(p.variables) \o (IF p.variables = <<>> THEN "" ELSE "\n")
    \o PrintConstraints(p.constraints)
=============================================================================
