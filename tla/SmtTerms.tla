------------------------------- MODULE SmtTerms ------------------------------
(***************************************************************************)
(* Terms of SMT-LIB 2, the language in which problems leave the program:   *)
(* Z3ExpressionConverter builds such terms through the Z3 API,             *)
(* SmtLib2Serializer writes them to a file.  The sorts and meanings of the *)
(* functions are those of the SMT-LIB theories, which Z3 implements.       *)
(*                                                                         *)
(* A leaf is a symbol, a numeral, a decimal, a string, an indexed          *)
(* bit-vector literal "(_ bvN W)" (head "_"), a hexadecimal one (head "#x",*)
(* four bits a digit, the first not 0) or a binary one (head "#b"); the    *)
(* other terms apply a function to terms.  A script is a sequence of       *)
(* commands.                                                               *)
(***************************************************************************)
EXTENDS Typing

App(f, args) == [head |-> f, args |-> args, text |-> "", value |-> 0, width |-> 0]
Leaf(head, value, width) == [head |-> head, args |-> <<>>, text |-> "", value |-> value, width |-> width]
Spelled(head, text) == [head |-> head, args |-> <<>>, text |-> text, value |-> 0, width |-> 0]
Symbol(name) == Spelled("symbol", name)

Truth(b) == App(IF b = 1 THEN "true" ELSE "false", <<>>)

Command(name) == [command |-> name, name |-> "", sort |-> BoolSort, term |-> Truth(1)]
Declare(command, name, sort) == [Command(command) EXCEPT !.name = name, !.sort = sort]
Assertion(term) == [Command("assert") EXCEPT !.term = term]

\* What a script declares and asserts.
IsDeclaration(c) == c.command \in {"declare-const", "declare-fun"}
IsAssertion(c)   == c.command = "assert"

Declared(script) ==
  LET declarations == SelectSeq(script, IsDeclaration)
  IN [i \in DOMAIN declarations |-> [name |-> declarations[i].name, sort |-> declarations[i].sort]]

Asserted(script) ==
  LET assertions == SelectSeq(script, IsAssertion)
  IN [i \in DOMAIN assertions |-> assertions[i].term]

AssertedTerms(script) == { script[i].term : i \in { j \in DOMAIN script : IsAssertion(script[j]) } }

-----------------------------------------------------------------------------
(* Sorts of terms.                                                          *)

CoreFunctions       == {"true", "false", "not", "and", "or", "=", "distinct"}
ArithmeticFunctions == {"<", "<=", ">", ">=", "+", "-", "*", "/", "div", "mod"}
BitVecFunctions     == {"bvnot", "bvneg", "bvand", "bvor", "bvxor", "bvadd", "bvsub", "bvmul",
                        "bvudiv", "bvurem", "bvsdiv", "bvshl", "bvlshr", "bvashr"}
BitVecComparisons   == {"bvult", "bvule", "bvugt", "bvuge", "bvslt"}

FunctionNames ==
  CoreFunctions \union ArithmeticFunctions \union BitVecFunctions \union BitVecComparisons

\* Terms that apply functions to terms in S, and the terms of bounded depth.
TermsOver(S) ==
  [head: FunctionNames, args: Seq(S), text: {""}, value: {0}, width: {0}]
    \union [head: {"symbol", "decimal", "string"}, args: {<<>>}, text: STRING, value: {0}, width: {0}]
    \union [head: {"numeral", "_", "#x", "#b"}, args: {<<>>}, text: {""}, value: Int, width: Nat]

TermLevel[n \in Nat] == TermsOver(IF n = 0 THEN {} ELSE TermLevel[n - 1])

Term == TermLevel[MaxDepth]

IllSorted == Sort("none", 0)

FunctionSort(f, sorts) ==
  LET n == Len(sorts)
      all(S) == \A i \in DOMAIN sorts : sorts[i] \in S
      same == \A i \in DOMAIN sorts : sorts[i] = sorts[1] /\ sorts[1] # IllSorted
      bv == same /\ IsBitVecSort(sorts[1])
      arithmetic == same /\ sorts[1] \in {IntSort, RealSort}
  IN CASE f = "not" /\ n = 1 /\ all({BoolSort})                     -> BoolSort
       [] f \in {"and", "or"} /\ n >= 2 /\ all({BoolSort})          -> BoolSort
       [] f \in {"=", "distinct"} /\ n >= 2 /\ same                 -> BoolSort
       [] f \in {"<", "<=", ">", ">="} /\ n = 2 /\ arithmetic       -> BoolSort
       [] f \in {"+", "-", "*"} /\ n >= 2 /\ arithmetic             -> sorts[1]
       [] f = "-" /\ n = 1 /\ arithmetic                            -> sorts[1]
       [] f = "/" /\ n = 2 /\ all({RealSort})                       -> RealSort
       [] f \in {"div", "mod"} /\ n = 2 /\ all({IntSort})           -> IntSort
       [] f \in {"bvnot", "bvneg"} /\ n = 1 /\ bv                   -> sorts[1]
       [] f \in {"bvand", "bvor", "bvxor", "bvadd", "bvsub", "bvmul", "bvudiv",
                 "bvurem", "bvsdiv", "bvshl", "bvlshr", "bvashr"}
          /\ n = 2 /\ bv                                            -> sorts[1]
       [] f \in {"bvult", "bvule", "bvugt", "bvuge", "bvslt"}
          /\ n = 2 /\ bv                                            -> BoolSort
       [] OTHER                                                     -> IllSorted

\* One term, where `sort` has the sorts of its arguments.
Sorting(vs, sort, t) ==
  CASE t.head = "symbol"            -> IF t.text \in DeclaredNames(vs)
                                       THEN SortOfVariable(vs, t.text) ELSE IllSorted
    [] t.head \in {"true", "false"} -> BoolSort
    [] t.head = "numeral"           -> IntSort
    [] t.head = "decimal"           -> RealSort
    [] t.head = "string"            -> StringSort
    [] t.head \in {"_", "#x", "#b"} -> BitVecSort(t.width)
    [] OTHER -> FunctionSort(t.head, [i \in DOMAIN t.args |-> sort[t.args[i]]])

TermSort(vs, t) == LET sort[u \in Term] == Sorting(vs, sort, u) IN sort[t]

SortsOf(vs, terms) == { TermSort(vs, terms[i]) : i \in DOMAIN terms }
=============================================================================
