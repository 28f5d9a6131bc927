---------------------------- MODULE MCInterchange ----------------------------
(* Small values for the constants of Roundtrip: four-bit words, one       *)
(* variable of each sort and bit-vectors of two widths.                     *)
EXTENDS Roundtrip

Decl(name, sort) == [name |-> name, sort |-> sort]

Declarations ==
  << Decl("b", BoolSort), Decl("n", IntSort), Decl("r", RealSort),
     Decl("s", StringSort), Decl("x", BitVecSort(2)), Decl("y", BitVecSort(3)) >>

DeclarationsOf(names) == SelectSeq(Declarations, LAMBDA d : d.name \in names)

NamesOf(tokens) == { tokens[i].text : i \in DOMAIN tokens }
NamesIn(text) == NamesOf(Lex(text).tokens)

-----------------------------------------------------------------------------
(* What a user types.                                                       *)

\* 5 fits the wider bit-vector only, 9 is beyond the largest signed integer,
\* z is not declared, and the strings hold a quote and the opening of a comment.
Leaves ==
  {"b", "n", "r", "s", "x", "y", "z", "1", "0x5", "9", "true", "1.5",
   "\"a\\\"\"", "\"/*\\n\\\\\""}

FewLeaves == {"b", "n", "x", "1"}

UnarySymbols  == { UnarySymbol[op] : op \in UnaryOps }
BinarySymbols == { BinarySymbol[op] : op \in BinaryOps }

\* One operator of each family.
FewSymbols == {"&&", "==", "<", "+", "/", ">>"}

\* Every operand in parentheses.
Operand(text) == "(" \o text \o ")"

Unaries(leaves) == { op \o Operand(t) : op \in UnarySymbols, t \in leaves }
Binaries(symbols, lefts, rights) ==
  { Operand(l) \o op \o Operand(r) : op \in symbols, l \in lefts, r \in rights }

Small == Unaries(FewLeaves) \union Binaries(BinarySymbols \ {">="}, FewLeaves, FewLeaves)

\* All trees of one node, and on a few leaves the trees of two nodes.
Expressions1 ==
  Leaves \union Unaries(Leaves) \union Binaries(BinarySymbols, Leaves, Leaves)
    \union Unaries(Small)
    \union Binaries(FewSymbols, Small, FewLeaves)
    \union Binaries(FewSymbols, FewLeaves, Small)

MCTypedTexts ==
  { PrintVariables(DeclarationsOf(NamesIn(e))) \o "constraint " \o e : e \in Expressions1 }

-----------------------------------------------------------------------------
(* What other tools write.                                                  *)

ForeignLeaves ==
  { Symbol(name) : name \in {"b", "n", "x"} }
    \union { Leaf("numeral", 2, 0), Leaf("#x", 2, 4), Leaf("_", 1, 2), Leaf("_", 3, 2) }

ForeignFunctions ==
  {"and", "=", "distinct", "<", "+", "-", "mod", "bvand", "bvadd", "bvlshr",
   "bvashr", "bvudiv", "bvsdiv", "bvult"}

ForeignSmall ==
  { App(f, <<l, r>>) : f \in ForeignFunctions, l \in ForeignLeaves, r \in ForeignLeaves }
    \union { App(f, <<t>>) : f \in {"not", "-", "bvneg", "bvnot"}, t \in ForeignLeaves }

\* Terms of one and two functions, strings, decimals and binary literals, and
\* a conjunction of three.
ForeignTerms ==
  ForeignSmall
    \union { App(f, <<l, r>>) : f \in {"=", "and"},
                                l \in ForeignSmall, r \in ForeignLeaves }
    \union { App("not", <<t>>) : t \in ForeignSmall }
    \union { App("=", <<Symbol("s"), Spelled("string", text)>>) :
               text \in {"", "a", "\"", "\\n", "\n", "//"} }
    \union { App("=", <<Symbol("r"), t>>) :
               t \in {Spelled("decimal", "1.5"), Leaf("numeral", 1, 0)} }
    \union { App("=", <<Symbol("x"), Leaf("#b", 2, 2)>>) }
    \union { App("and", <<Symbol("b"), Symbol("b"), Symbol("b")>>) }

DeclareAll(command, ds) == [i \in DOMAIN ds |-> Declare(command, ds[i].name, ds[i].sort)]

ScriptOf(term) ==
  DeclareAll("declare-const", DeclarationsOf(FreeSymbols(term))) \o <<Assertion(term)>>

Positive(name) == Assertion(App("<", <<Leaf("numeral", 0, 0), Symbol(name)>>))

IntConst(name) == Declare("declare-const", name, IntSort)
IntFun(name)   == Declare("declare-fun", name, IntSort)

\* Commands out of order, twice, unknown, with reserved names, of wrong widths.
CommandScripts ==
  { <<Command("set-logic"), IntConst("n"), Positive("n"), Command("check-sat")>>,
    <<Positive("n"), IntConst("n")>>,
    <<IntConst("n"), IntConst("n"), Positive("n")>>,
    <<IntConst("n"), Declare("declare-const", "n", BoolSort)>>,
    <<IntConst("a"), IntConst("n"), Positive("n"), Positive("a"), Positive("n")>>,
    <<IntFun("n"), Positive("n")>>,
    <<IntConst("a"), IntFun("n"), Positive("a")>>,
    <<IntConst("var"), Positive("var")>>,
    <<IntConst("true")>>,
    <<IntConst("a-b"), Positive("a-b")>>,
    <<Declare("declare-const", "x", BitVecSort(5))>>,
    <<Declare("declare-const", "x", BitVecSort(4)), IntConst("assert"), Positive("assert")>> }

MCForeignScripts == { ScriptOf(term) : term \in ForeignTerms } \union CommandScripts

\* SMT-LIB symbols may hold the characters of the workbench's operators.
MCOddNames ==
  { <<IntConst("a"), IntConst("b"), IntFun(name), Positive(name)>> :
      name \in {"n", "a-b", "a<b", "a#b"} }
=============================================================================
