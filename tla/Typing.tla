-------------------------------- MODULE Typing -------------------------------
(***************************************************************************)
(* SemanticAnalyzer: finds the declared variables an expression names,     *)
(* gives every node a sort and turns integer literals next to a BitVec     *)
(* into BitVec constants; and the part of rebuildProblemFromSource that    *)
(* comes after the parser.  A problem is the sequence of its variables and *)
(* the sequence of its (resolved) constraints.                             *)
(***************************************************************************)
EXTENDS Expressions

CONSTANT MaxDepth   \* operators above the deepest leaf of a tree; no bound in the code

ASSUME DepthAssumption == MaxDepth \in Nat

-----------------------------------------------------------------------------
(* Trees: the recursive functions below are functions on them.              *)

Widths == 1..WordBits

ConstantsOf(kind, value, width, text) ==
  [node: {"Constant"}, kind: {kind}, value: value, width: width, text: text]

LeafNodes ==
  [node: {"VariableRef"}, name: STRING]
    \union ConstantsOf("Bool", 0..1, {0}, {""})
    \union ConstantsOf("Int", Int, {0}, {""})
    \union ConstantsOf("Real", {0}, {0}, STRING)
    \union ConstantsOf("String", {0}, {0}, STRING)
    \union ConstantsOf("BitVec", Nat, Widths, {""})

UnaryNodes(S)  == [node: {"Unary"}, op: UnaryOps, operand: S]
BinaryNodes(S) == [node: {"Binary"}, op: BinaryOps, lhs: S, rhs: S]

\* Nodes whose operands are in S.
ExpressionsOver(S) == LeafNodes \union UnaryNodes(S) \union BinaryNodes(S)

ExpressionLevel[n \in Nat] ==
  ExpressionsOver(IF n = 0 THEN {} ELSE ExpressionLevel[n - 1])

Expression == ExpressionLevel[MaxDepth]

VariableSort == {BoolSort, IntSort, RealSort, StringSort} \union { BitVecSort(w) : w \in Widths }

\* The declared variables, and what a parser makes of a text.
Environment == Seq([name: STRING, sort: VariableSort])
Program == [variables: Environment, constraints: Seq(Expression), ok: BOOLEAN]

-----------------------------------------------------------------------------

\* A resolved node, or the failure that nullopt stands for.
Resolved(expr, sort) == [ok |-> TRUE, expr |-> expr, sort |-> sort]
Rejected == [ok |-> FALSE, expr |-> Integer(0), sort |-> IntSort]

\* findVariable: the names a problem declares, and the sort of one.
DeclaredNames(vs) == { vs[i].name : i \in DOMAIN vs }
SortOfVariable(vs, name) == vs[CHOOSE i \in DOMAIN vs : vs[i].name = name].sort

ConstantSort(c) == Sort(c.kind, c.width)

IsBitVecSort(sort) == sort.type = "BitVec"
IsNumeric(sort) == sort.type \in {"Int", "Real", "BitVec"}

-----------------------------------------------------------------------------
(* alignBitVecConstants                                                     *)

\* A coercion that cuts a literal down to the width.
CoerceSideTruncating(side, other) ==
  IF ~ IsBitVecSort(other.sort) \/ side.sort # IntSort \/ ~ IsIntLiteral(side.expr)
  THEN side
  ELSE Resolved(BitVector(side.expr.value % 2 ^ other.sort.width, other.sort.width), other.sort)

\* coerceSide: only a plain literal adapts, and only if it fits the width.
CoerceSide(side, other) ==
  IF ~ IsBitVecSort(other.sort) \/ side.sort # IntSort \/ ~ IsIntLiteral(side.expr)
  THEN side
  ELSE IF side.expr.value < 0 \/ side.expr.value > 2 ^ other.sort.width - 1
  THEN Rejected
  ELSE Resolved(BitVector(side.expr.value, other.sort.width), other.sort)

-----------------------------------------------------------------------------
(* resolveNode                                                              *)

\* The operand sorts each unary operator takes; the result has the same one.
UnaryApplies(op, sort) ==
  CASE op = "Not"   -> sort = BoolSort
    [] op = "Neg"   -> sort \in {IntSort, RealSort}
    [] op = "BvNot" -> IsBitVecSort(sort)

\* An analyzer that compares types and forgets widths.
SameType(l, r) == l.type = r.type

\* ExprTypeInfo's equality.
SameSort(l, r) == l = r

BinaryApplies(op, l, r) ==
  CASE op \in {"And", "Or"}               -> l = BoolSort /\ r = BoolSort
    [] op \in {"Eq", "Neq"}               -> SameSort(l, r) /\ l.type # "Array"
    [] op \in {"Lt", "Le", "Gt", "Ge"}    -> IsNumeric(l) /\ SameSort(l, r)
    [] op \in {"Add", "Sub", "Mul"}       -> IsNumeric(l) /\ SameSort(l, r)
    [] op = "Div"                         -> \/ l.type = "Real" /\ r.type = "Real"
                                             \/ IsBitVecSort(l) /\ SameSort(l, r)
    [] op \in {"Rem", "BvAnd", "BvOr",
               "BvXor", "BvShl", "BvShr"} -> IsBitVecSort(l) /\ SameSort(l, r)

ResultSort(op, l) ==
  IF op \in {"And", "Or", "Eq", "Neq", "Lt", "Le", "Gt", "Ge"} THEN BoolSort ELSE l

ResolveUnary(op, operand) ==
  IF operand.ok /\ UnaryApplies(op, operand.sort)
  THEN Resolved(Unary(op, operand.expr), operand.sort)
  ELSE Rejected

\* The right side adapts to what the left one has become.
ResolveBinary(op, left, right) ==
  LET l == CoerceSide(left, right)
      r == CoerceSide(right, l)
  IN IF left.ok /\ right.ok /\ l.ok /\ r.ok /\ BinaryApplies(op, l.sort, r.sort)
     THEN Resolved(Binary(op, l.expr, r.expr), ResultSort(op, l.sort))
     ELSE Rejected

\* One node, where `resolve` has the answers for its operands.
Resolution(vs, resolve, e) ==
  CASE e.node = "Constant"    -> Resolved(e, ConstantSort(e))
    [] e.node = "VariableRef" -> IF e.name \in DeclaredNames(vs)
                                 THEN Resolved(e, SortOfVariable(vs, e.name))
                                 ELSE Rejected
    [] e.node = "Unary"       -> ResolveUnary(e.op, resolve[e.operand])
    [] e.node = "Binary"      -> ResolveBinary(e.op, resolve[e.lhs], resolve[e.rhs])

ResolveNode(vs, e) ==
  LET resolve[t \in Expression] == Resolution(vs, resolve, t) IN resolve[e]

\* resolve(): a constraint must be Boolean.
Resolve(vs, e) ==
  LET node == ResolveNode(vs, e)
  IN IF node.ok /\ node.sort # BoolSort THEN Rejected ELSE node

-----------------------------------------------------------------------------
(* rebuildProblemFromSource, after the parser: all or nothing.              *)

NamesDistinct(vs) == \A i, j \in DOMAIN vs : vs[i].name = vs[j].name => i = j

NotRebuilt == [ok |-> FALSE, variables |-> <<>>, constraints |-> <<>>]

Rebuilt(program, resolved) ==
  IF /\ program.ok
     /\ NamesDistinct(program.variables)
     /\ \A i \in DOMAIN resolved : resolved[i].ok
  THEN [ok |-> TRUE, variables |-> program.variables,
        constraints |-> [i \in DOMAIN resolved |-> resolved[i].expr]]
  ELSE NotRebuilt

RebuildProgram(program) ==
  Rebuilt(program, [i \in DOMAIN program.constraints |->
                      Resolve(program.variables, program.constraints[i])])
=============================================================================
