------------------------------ MODULE MCGrammar ------------------------------
(* Texts of whole statements, of one expression, of literals in operands,   *)
(* of the end of a bit-vector declaration; and, character by character, of  *)
(* comments, of numbers, of operators, of strings, and of strings that look *)
(* like comments.                                                           *)
EXTENDS Grammar

\* What a text becomes with up to n of the pieces behind it.
Typed(begun, n, pieces) ==
  LET typed[k \in 0..n] ==
        IF k = 0 THEN {begun}
        ELSE {begun} \union { t \o piece : t \in typed[k - 1], piece \in pieces }
  IN typed[n]

Topic(name, begun, n, pieces) ==
  [name |-> name, begun |-> begun, pieces |-> pieces, texts |-> Typed(begun, n, pieces)]

MCTopics ==
  { Topic("statements", "", 5, {"var ", "constraint ", "a ", ":", "Int ", "-"}),
    Topic("expressions", "constraint ", 5, {"a ", "(", ")", "-", "|| ", "<", "&"}),
    Topic("operators", "constraint a", 4,
      {"b", " 7", " 8"} \union
      { BinarySymbol[op] : op \in {"Or", "And", "Eq", "Gt", "BvXor", "BvShl", "Sub", "Mul"} }),
    Topic("operands", "constraint ", 3, {"1.5", "\"s\"", "true ", "false ", "==", "~", "!"}),
    Topic("declarations", "var a:", 5, {"BitVec", "(", "0", "4", "5", ")", "var "}),
    Topic("comments", "/", 7, {"/", "*", "a", "\n"}),
    Topic("numbers", "", 5, {"0", "1", "b", "x", "F", ".", " "}),
    Topic("symbols", "", 4, {"<", ">", "=", "&", "|", "!", "@"}),
    Topic("strings", "\"", 6, {"\\", "n", "\"", "\n"}),
    Topic("quoted comments", "\"", 4, {"/*", "*/", "//", "\"", "\n"}) }
=============================================================================
