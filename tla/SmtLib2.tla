------------------------------- MODULE SmtLib2 -------------------------------
(***************************************************************************)
(* The two translators from expressions to SMT-LIB terms:                  *)
(* Z3ExpressionConverter (what the solver is asked) and SmtLib2Serializer  *)
(* (what an exported file says).                                           *)
(***************************************************************************)
EXTENDS SmtTerms

-----------------------------------------------------------------------------
(* Z3ExpressionConverter::convert                                           *)

ConvertConstant(c) ==
  CASE c.kind = "Bool"   -> Truth(c.value)
    [] c.kind = "Int"    -> Leaf("numeral", c.value, 0)
    [] c.kind = "Real"   -> Spelled("decimal", c.text)
    [] c.kind = "String" -> Spelled("string", c.text)
    [] c.kind = "BitVec" -> Leaf("_", c.value, c.width)

\* The z3++ function for an operator on operands that are not bit-vectors; the
\* analyzer leaves "/" to the Reals.
Z3Arithmetic ==
  [And |-> "and", Or |-> "or", Eq |-> "=", Neq |-> "distinct",
   Lt |-> "<", Le |-> "<=", Gt |-> ">", Ge |-> ">=",
   Add |-> "+", Sub |-> "-", Mul |-> "*", Div |-> "/", Rem |-> "mod",
   BvAnd |-> "bvand", BvOr |-> "bvor", BvXor |-> "bvxor",
   BvShl |-> "bvshl", BvShr |-> "bvlshr"]

\* On bit-vectors the converter asks for the unsigned functions by name, and
\* the overloaded + - * are those of the theory.
Z3BitVec ==
  [Lt |-> "bvult", Le |-> "bvule", Gt |-> "bvugt", Ge |-> "bvuge",
   Add |-> "bvadd", Sub |-> "bvsub", Mul |-> "bvmul",
   Div |-> "bvudiv", Rem |-> "bvurem"]

\* The function the first table with the operator has for it.
InTables(op, bv, special, general) == IF bv /\ op \in DOMAIN special THEN special[op] ELSE general[op]

\* The overloaded < and / of z3++ are signed.
Z3BinaryOverloaded(op, bv) ==
  InTables(op, bv, [Z3BitVec EXCEPT !.Lt = "bvslt", !.Div = "bvsdiv"], Z3Arithmetic)

Z3Binary(op, bv) == InTables(op, bv, Z3BitVec, Z3Arithmetic)

\* The function for a unary operator, the same in both translators.
UnaryFunction(op, bv) ==
  CASE op = "Not"   -> "not"
    [] op = "BvNot" -> "bvnot"
    [] op = "Neg"   -> IF bv THEN "bvneg" ELSE "-"

\* One node, where `convert` has the terms of its operands.
Conversion(vs, convert, e) ==
  CASE e.node = "Constant"    -> ConvertConstant(e)
    [] e.node = "VariableRef" -> Symbol(e.name)
    [] e.node = "Unary"       ->
         App(UnaryFunction(e.op, IsBitVecSort(TermSort(vs, convert[e.operand]))),
             << convert[e.operand] >>)
    [] e.node = "Binary"      ->
         App(Z3Binary(e.op, IsBitVecSort(TermSort(vs, convert[e.lhs]))),
             << convert[e.lhs], convert[e.rhs] >>)

Convert(vs, e) == LET convert[t \in Expression] == Conversion(vs, convert, t) IN convert[e]

-----------------------------------------------------------------------------
(* SmtLib2Serializer                                                        *)

\* isBitVec: bottom-up from the left operand, comparisons included.
InfersBitVec(vs, isBitVec, e) ==
  CASE e.node = "Constant"    -> e.kind = "BitVec"
    [] e.node = "VariableRef" -> /\ e.name \in DeclaredNames(vs)
                                 /\ IsBitVecSort(SortOfVariable(vs, e.name))
    [] e.node = "Unary"       -> e.op = "BvNot" \/ isBitVec[e.operand]
    [] e.node = "Binary"      -> \/ e.op \in {"BvAnd", "BvOr", "BvXor", "BvShl", "BvShr"}
                                 \/ isBitVec[e.lhs]

IsBitVec(vs, e) == LET isBitVec[t \in Expression] == InfersBitVec(vs, isBitVec, t) IN isBitVec[e]

\* isReal
InfersReal(vs, isReal, e) ==
  CASE e.node = "Constant"    -> e.kind = "Real"
    [] e.node = "VariableRef" -> /\ e.name \in DeclaredNames(vs)
                                 /\ SortOfVariable(vs, e.name) = RealSort
    [] e.node = "Unary"       -> e.op = "Neg" /\ isReal[e.operand]
    [] e.node = "Binary"      -> isReal[e.lhs]

IsReal(vs, e) == LET isReal[t \in Expression] == InfersReal(vs, isReal, t) IN isReal[e]

\* The function names serializeExpr writes.
SerializedArithmetic(real) ==
  [And |-> "and", Or |-> "or", Eq |-> "=", Neq |-> "distinct",
   Lt |-> "<", Le |-> "<=", Gt |-> ">", Ge |-> ">=",
   Add |-> "+", Sub |-> "-", Mul |-> "*",
   Div |-> IF real THEN "/" ELSE "div", Rem |-> "mod",
   BvAnd |-> "bvand", BvOr |-> "bvor", BvXor |-> "bvxor",
   BvShl |-> "bvshl", BvShr |-> "bvlshr"]

SerializedBitVec ==
  [Lt |-> "bvult", Le |-> "bvule", Gt |-> "bvugt", Ge |-> "bvuge",
   Div |-> "bvudiv", Rem |-> "bvurem"]

\* One node, where `serialize` has the terms of its operands.
Serialization(vs, serialize, e) ==
  CASE e.node = "Constant"    -> ConvertConstant(e)
    [] e.node = "VariableRef" -> Symbol(e.name)
    [] e.node = "Unary"       ->
         App(UnaryFunction(e.op, IsBitVec(vs, e.operand)), << serialize[e.operand] >>)
    [] e.node = "Binary"      ->
         App(InTables(e.op, IsBitVec(vs, e.lhs), SerializedBitVec,
                      SerializedArithmetic(IsReal(vs, e.lhs))),
             << serialize[e.lhs], serialize[e.rhs] >>)

SerializeExpr(vs, e) ==
  LET serialize[t \in Expression] == Serialization(vs, serialize, t) IN serialize[e]

SerializeProblem(p) ==
  [i \in DOMAIN p.variables |->
     Declare("declare-const", p.variables[i].name, p.variables[i].sort)]
  \o [i \in DOMAIN p.constraints |-> Assertion(SerializeExpr(p.variables, p.constraints[i]))]
  \o << Command("check-sat"), Command("get-model") >>
=============================================================================
