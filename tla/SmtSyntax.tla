------------------------------ MODULE SmtSyntax ------------------------------
(***************************************************************************)
(* SMT-LIB terms and scripts as characters.                                *)
(***************************************************************************)
EXTENDS SmtTerms, Dsl

RECURSIVE DoubledQuotes(_)
DoubledQuotes(s) ==
  IF s = "" THEN ""
  ELSE (IF At(s, 1) = "\"" THEN "\"\"" ELSE At(s, 1)) \o DoubledQuotes(Tail(s))

RECURSIVE BinaryText(_, _)
BinaryText(n, digits) ==
  IF digits = 0 THEN "" ELSE BinaryText(n \div 2, digits - 1) \o ToString(n % 2)

RECURSIVE WriteTerm(_), WriteTerms(_)
WriteTerm(t) ==
  CASE t.head \in {"symbol", "decimal"} -> t.text
    [] t.head = "numeral"               -> ToString(t.value)
    [] t.head = "string"                -> "\"" \o DoubledQuotes(t.text) \o "\""
    [] t.head = "_"                     -> "(_ bv" \o ToString(t.value) \o " "
                                             \o ToString(t.width) \o ")"
    [] t.head = "#x"                    -> "#x" \o HexText(t.value)
    [] t.head = "#b"                    -> "#b" \o BinaryText(t.value, t.width)
    [] t.head \in {"true", "false"}     -> t.head
    [] OTHER                            -> "(" \o t.head \o WriteTerms(t.args) \o ")"

WriteTerms(ts) ==
  IF ts = <<>> THEN "" ELSE " " \o WriteTerm(Head(ts)) \o WriteTerms(Tail(ts))

WriteSort(sort) ==
  IF IsBitVecSort(sort) THEN "(_ BitVec " \o ToString(sort.width) \o ")" ELSE sort.type

WriteCommand(c) ==
  "(" \o c.command \o
    (CASE c.command = "assert"        -> " " \o WriteTerm(c.term)
       [] c.command = "declare-const" -> " " \o c.name \o " " \o WriteSort(c.sort)
       [] c.command = "declare-fun"   -> " " \o c.name \o " () " \o WriteSort(c.sort)
       [] OTHER                       -> "") \o ")\n"

RECURSIVE WriteScript(_)
WriteScript(script) ==
  IF script = <<>> THEN "" ELSE WriteCommand(Head(script)) \o WriteScript(Tail(script))
=============================================================================
