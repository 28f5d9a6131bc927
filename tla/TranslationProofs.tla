-------------------------- MODULE TranslationProofs --------------------------
(***************************************************************************)
(* What the analyzer accepts, the two translators turn into the same well- *)
(* sorted terms: for trees of every depth, words of every width and every  *)
(* parser.                                                                 *)
(***************************************************************************)
EXTENDS Interchange, TLAPS

-----------------------------------------------------------------------------
(* The recursive functions satisfy their equations.                         *)

Resolving     == INSTANCE Trees WITH Grow <- ExpressionsOver, Step <- Resolution
Converting    == INSTANCE Trees WITH Grow <- ExpressionsOver, Step <- Conversion
Serializing   == INSTANCE Trees WITH Grow <- ExpressionsOver, Step <- Serialization
InferringBV   == INSTANCE Trees WITH Grow <- ExpressionsOver, Step <- InfersBitVec
InferringReal == INSTANCE Trees WITH Grow <- ExpressionsOver, Step <- InfersReal
PlainStep(p, plain, e) == PlainNode(plain, e)
Plaining      == INSTANCE Trees WITH Grow <- ExpressionsOver, Step <- PlainStep
SortingTerms  == INSTANCE Trees WITH Grow <- TermsOver, Step <- Sorting

\* A larger set of operands gives more nodes.
LEMMA ExpressionsGrow == \A S, T : S \subseteq T => ExpressionsOver(S) \subseteq ExpressionsOver(T)
<1>. SUFFICES ASSUME NEW S, NEW T, S \subseteq T, NEW e \in ExpressionsOver(S)
              PROVE  e \in ExpressionsOver(T)
  OBVIOUS
<1>1. CASE e \in LeafNodes
  BY <1>1 DEF ExpressionsOver
<1>2. CASE e \in UnaryNodes(S)
  BY <1>2 DEF ExpressionsOver, UnaryNodes
<1>3. CASE e \in BinaryNodes(S)
  BY <1>3 DEF ExpressionsOver, BinaryNodes
<1>. QED BY <1>1, <1>2, <1>3 DEF ExpressionsOver

\* A larger set of arguments gives more terms.
LEMMA TermsGrow == \A S, T : S \subseteq T => TermsOver(S) \subseteq TermsOver(T)
<1>. SUFFICES ASSUME NEW S, NEW T, S \subseteq T PROVE TermsOver(S) \subseteq TermsOver(T)
  OBVIOUS
<1>1. Seq(S) \subseteq Seq(T)
  OBVIOUS
<1>. QED BY <1>1 DEF TermsOver

\* What a step of a recursion may use of a node.
LEMMA OperandsOfNode ==
  ASSUME NEW S, NEW e \in ExpressionsOver(S), NEW f, NEW g, \A d \in S : f[d] = g[d]
  PROVE  /\ e.node \in {"Constant", "VariableRef", "Unary", "Binary"}
         /\ e.node = "Unary" => f[e.operand] = g[e.operand]
         /\ e.node = "Binary" => f[e.lhs] = g[e.lhs] /\ f[e.rhs] = g[e.rhs]
BY DEF ExpressionsOver, LeafNodes, ConstantsOf, UnaryNodes, BinaryNodes

\* An expression is made of expressions.
LEMMA ExpressionNodes ==
  /\ Expression = Resolving!Tree
  /\ \A e \in Expression : e \in ExpressionsOver(Expression)
<1>1. Expression = Resolving!Tree
  BY DEF ExpressionLevel, Expression, Resolving!Level, Resolving!GrowLevel, Resolving!Tree
<1>2. Resolving!GrowsMonotonely
  BY ExpressionsGrow DEF Resolving!GrowsMonotonely
<1>. QED BY <1>1, <1>2, DepthAssumption, Resolving!OperandsAreTrees

\* resolveNode, node by node (SemanticAnalyzer.cpp 118-342).
LEMMA ResolveNodeEquation ==
  ASSUME NEW vs, NEW e \in Expression
  PROVE  /\ e.node = "Constant" => ResolveNode(vs, e) = Resolved(e, ConstantSort(e))
         /\ e.node = "VariableRef" =>
              ResolveNode(vs, e) = IF e.name \in DeclaredNames(vs)
                                   THEN Resolved(e, SortOfVariable(vs, e.name)) ELSE Rejected
         /\ e.node = "Unary" =>
              ResolveNode(vs, e) = ResolveUnary(e.op, ResolveNode(vs, e.operand))
         /\ e.node = "Binary" =>
              ResolveNode(vs, e) = ResolveBinary(e.op, ResolveNode(vs, e.lhs), ResolveNode(vs, e.rhs))
<1>. DEFINE resolve == Resolving!Solution(vs)
<1>1. Resolving!GrowsMonotonely
  BY ExpressionsGrow DEF Resolving!GrowsMonotonely
<1>2. Resolving!UsesOperands(vs)
  BY OperandsOfNode DEF Resolving!UsesOperands, Resolution
<1>3. resolve = [t \in Expression |-> Resolution(vs, resolve, t)]
  BY <1>1, <1>2, ExpressionNodes, DepthAssumption, Resolving!TreeRecursion
<1>4. \A t : ResolveNode(vs, t) = resolve[t]
  BY ExpressionNodes DEF ResolveNode, Resolving!Solution
<1>. HIDE DEF resolve
<1>5. resolve[e] = Resolution(vs, resolve, e)
  BY <1>3
<1>6. e.node = "Constant" => resolve[e] = Resolved(e, ConstantSort(e))
  BY <1>5 DEF Resolution
<1>7. e.node = "VariableRef" =>
        resolve[e] = IF e.name \in DeclaredNames(vs)
                     THEN Resolved(e, SortOfVariable(vs, e.name)) ELSE Rejected
  BY <1>5 DEF Resolution
<1>8. e.node = "Unary" => resolve[e] = ResolveUnary(e.op, resolve[e.operand])
  BY <1>5 DEF Resolution
<1>9. e.node = "Binary" => resolve[e] = ResolveBinary(e.op, resolve[e.lhs], resolve[e.rhs])
  BY <1>5 DEF Resolution
<1>. QED BY <1>4, <1>6, <1>7, <1>8, <1>9

\* Z3ExpressionConverter::convert, node by node.
LEMMA ConvertEquation ==
  ASSUME NEW vs, NEW e \in Expression
  PROVE  /\ e.node = "Constant" => Convert(vs, e) = ConvertConstant(e)
         /\ e.node = "VariableRef" => Convert(vs, e) = Symbol(e.name)
         /\ e.node = "Unary" => Convert(vs, e) = App(UnaryFunction(e.op, IsBitVecSort(TermSort(vs, Convert(vs, e.operand)))), << Convert(vs, e.operand) >>)
         /\ e.node = "Binary" => Convert(vs, e) = App(Z3Binary(e.op, IsBitVecSort(TermSort(vs, Convert(vs, e.lhs)))), << Convert(vs, e.lhs), Convert(vs, e.rhs) >>)
<1>. DEFINE convert == Converting!Solution(vs)
<1>1. Converting!GrowsMonotonely
  BY ExpressionsGrow DEF Converting!GrowsMonotonely
<1>2. Converting!UsesOperands(vs)
  BY OperandsOfNode DEF Converting!UsesOperands, Conversion
<1>3. Expression = Converting!Tree
  BY DEF ExpressionLevel, Expression, Converting!Level, Converting!GrowLevel, Converting!Tree
<1>4. convert = [t \in Expression |-> Conversion(vs, convert, t)]
  BY <1>1, <1>2, <1>3, DepthAssumption, Converting!TreeRecursion
<1>5. \A t : Convert(vs, t) = convert[t]
  BY <1>3 DEF Convert, Converting!Solution
<1>. HIDE DEF convert
<1>6. convert[e] = Conversion(vs, convert, e)
  BY <1>4
<1>7. e.node = "Constant" => convert[e] = ConvertConstant(e)
  BY <1>6 DEF Conversion
<1>8. e.node = "VariableRef" => convert[e] = Symbol(e.name)
  BY <1>6 DEF Conversion
<1>9. e.node = "Unary" => convert[e] = App(UnaryFunction(e.op, IsBitVecSort(TermSort(vs, convert[e.operand]))), << convert[e.operand] >>)
  BY <1>6 DEF Conversion
<1>10. e.node = "Binary" => convert[e] = App(Z3Binary(e.op, IsBitVecSort(TermSort(vs, convert[e.lhs]))), << convert[e.lhs], convert[e.rhs] >>)
  BY <1>6 DEF Conversion
<1>. QED BY <1>5, <1>7, <1>8, <1>9, <1>10

\* Serializer::serializeExpr, node by node.
LEMMA SerializeEquation ==
  ASSUME NEW vs, NEW e \in Expression
  PROVE  /\ e.node = "Constant" => SerializeExpr(vs, e) = ConvertConstant(e)
         /\ e.node = "VariableRef" => SerializeExpr(vs, e) = Symbol(e.name)
         /\ e.node = "Unary" => SerializeExpr(vs, e) = App(UnaryFunction(e.op, IsBitVec(vs, e.operand)), << SerializeExpr(vs, e.operand) >>)
         /\ e.node = "Binary" => SerializeExpr(vs, e) = App(InTables(e.op, IsBitVec(vs, e.lhs), SerializedBitVec, SerializedArithmetic(IsReal(vs, e.lhs))), << SerializeExpr(vs, e.lhs), SerializeExpr(vs, e.rhs) >>)
<1>. DEFINE serialize == Serializing!Solution(vs)
<1>1. Serializing!GrowsMonotonely
  BY ExpressionsGrow DEF Serializing!GrowsMonotonely
<1>2. Serializing!UsesOperands(vs)
  BY OperandsOfNode DEF Serializing!UsesOperands, Serialization
<1>3. Expression = Serializing!Tree
  BY DEF ExpressionLevel, Expression, Serializing!Level, Serializing!GrowLevel, Serializing!Tree
<1>4. serialize = [t \in Expression |-> Serialization(vs, serialize, t)]
  BY <1>1, <1>2, <1>3, DepthAssumption, Serializing!TreeRecursion
<1>5. \A t : SerializeExpr(vs, t) = serialize[t]
  BY <1>3 DEF SerializeExpr, Serializing!Solution
<1>. HIDE DEF serialize
<1>6. serialize[e] = Serialization(vs, serialize, e)
  BY <1>4
<1>7. e.node = "Constant" => serialize[e] = ConvertConstant(e)
  BY <1>6 DEF Serialization
<1>8. e.node = "VariableRef" => serialize[e] = Symbol(e.name)
  BY <1>6 DEF Serialization
<1>9. e.node = "Unary" => serialize[e] = App(UnaryFunction(e.op, IsBitVec(vs, e.operand)), << serialize[e.operand] >>)
  BY <1>6 DEF Serialization
<1>10. e.node = "Binary" => serialize[e] = App(InTables(e.op, IsBitVec(vs, e.lhs), SerializedBitVec, SerializedArithmetic(IsReal(vs, e.lhs))), << serialize[e.lhs], serialize[e.rhs] >>)
  BY <1>6 DEF Serialization
<1>. QED BY <1>5, <1>7, <1>8, <1>9, <1>10

\* Serializer::isBitVec, node by node.
LEMMA IsBitVecEquation ==
  ASSUME NEW vs, NEW e \in Expression
  PROVE  /\ e.node = "Constant" => IsBitVec(vs, e) = (e.kind = "BitVec")
         /\ e.node = "VariableRef" => IsBitVec(vs, e) = (e.name \in DeclaredNames(vs) /\ IsBitVecSort(SortOfVariable(vs, e.name)))
         /\ e.node = "Unary" => IsBitVec(vs, e) = (e.op = "BvNot" \/ IsBitVec(vs, e.operand))
         /\ e.node = "Binary" => IsBitVec(vs, e) = (e.op \in {"BvAnd", "BvOr", "BvXor", "BvShl", "BvShr"} \/ IsBitVec(vs, e.lhs))
<1>. DEFINE isBitVec == InferringBV!Solution(vs)
<1>1. InferringBV!GrowsMonotonely
  BY ExpressionsGrow DEF InferringBV!GrowsMonotonely
<1>2. InferringBV!UsesOperands(vs)
  BY OperandsOfNode DEF InferringBV!UsesOperands, InfersBitVec
<1>3. Expression = InferringBV!Tree
  BY DEF ExpressionLevel, Expression, InferringBV!Level, InferringBV!GrowLevel, InferringBV!Tree
<1>4. isBitVec = [t \in Expression |-> InfersBitVec(vs, isBitVec, t)]
  BY <1>1, <1>2, <1>3, DepthAssumption, InferringBV!TreeRecursion
<1>5. \A t : IsBitVec(vs, t) = isBitVec[t]
  BY <1>3 DEF IsBitVec, InferringBV!Solution
<1>. HIDE DEF isBitVec
<1>6. isBitVec[e] = InfersBitVec(vs, isBitVec, e)
  BY <1>4
<1>7. e.node = "Constant" => isBitVec[e] = (e.kind = "BitVec")
  BY <1>6 DEF InfersBitVec
<1>8. e.node = "VariableRef" => isBitVec[e] = (e.name \in DeclaredNames(vs) /\ IsBitVecSort(SortOfVariable(vs, e.name)))
  BY <1>6 DEF InfersBitVec
<1>9. e.node = "Unary" => isBitVec[e] = (e.op = "BvNot" \/ isBitVec[e.operand])
  BY <1>6 DEF InfersBitVec
<1>10. e.node = "Binary" => isBitVec[e] = (e.op \in {"BvAnd", "BvOr", "BvXor", "BvShl", "BvShr"} \/ isBitVec[e.lhs])
  BY <1>6 DEF InfersBitVec
<1>. QED BY <1>5, <1>7, <1>8, <1>9, <1>10

\* Serializer::isReal, node by node.
LEMMA IsRealEquation ==
  ASSUME NEW vs, NEW e \in Expression
  PROVE  /\ e.node = "Constant" => IsReal(vs, e) = (e.kind = "Real")
         /\ e.node = "VariableRef" => IsReal(vs, e) = (e.name \in DeclaredNames(vs) /\ SortOfVariable(vs, e.name) = RealSort)
         /\ e.node = "Unary" => IsReal(vs, e) = (e.op = "Neg" /\ IsReal(vs, e.operand))
         /\ e.node = "Binary" => IsReal(vs, e) = IsReal(vs, e.lhs)
<1>. DEFINE isReal == InferringReal!Solution(vs)
<1>1. InferringReal!GrowsMonotonely
  BY ExpressionsGrow DEF InferringReal!GrowsMonotonely
<1>2. InferringReal!UsesOperands(vs)
  BY OperandsOfNode DEF InferringReal!UsesOperands, InfersReal
<1>3. Expression = InferringReal!Tree
  BY DEF ExpressionLevel, Expression, InferringReal!Level, InferringReal!GrowLevel, InferringReal!Tree
<1>4. isReal = [t \in Expression |-> InfersReal(vs, isReal, t)]
  BY <1>1, <1>2, <1>3, DepthAssumption, InferringReal!TreeRecursion
<1>5. \A t : IsReal(vs, t) = isReal[t]
  BY <1>3 DEF IsReal, InferringReal!Solution
<1>. HIDE DEF isReal
<1>6. isReal[e] = InfersReal(vs, isReal, e)
  BY <1>4
<1>7. e.node = "Constant" => isReal[e] = (e.kind = "Real")
  BY <1>6 DEF InfersReal
<1>8. e.node = "VariableRef" => isReal[e] = (e.name \in DeclaredNames(vs) /\ SortOfVariable(vs, e.name) = RealSort)
  BY <1>6 DEF InfersReal
<1>9. e.node = "Unary" => isReal[e] = (e.op = "Neg" /\ isReal[e.operand])
  BY <1>6 DEF InfersReal
<1>10. e.node = "Binary" => isReal[e] = isReal[e.lhs]
  BY <1>6 DEF InfersReal
<1>. QED BY <1>5, <1>7, <1>8, <1>9, <1>10

\* Without widths, node by node.
LEMMA PlainEquation ==
  ASSUME NEW e \in Expression
  PROVE  /\ e.node = "Constant" => Plain(e) = IF e.kind = "BitVec" THEN Integer(e.value) ELSE e
         /\ e.node = "VariableRef" => Plain(e) = e
         /\ e.node = "Unary" => Plain(e) = Unary(e.op, Plain(e.operand))
         /\ e.node = "Binary" => Plain(e) = Binary(e.op, Plain(e.lhs), Plain(e.rhs))
<1>. DEFINE plain == Plaining!Solution({})
<1>1. Plaining!GrowsMonotonely
  BY ExpressionsGrow DEF Plaining!GrowsMonotonely
<1>2. Plaining!UsesOperands({})
  BY OperandsOfNode DEF Plaining!UsesOperands, PlainStep, PlainNode
<1>3. Expression = Plaining!Tree
  BY DEF ExpressionLevel, Expression, Plaining!Level, Plaining!GrowLevel, Plaining!Tree
<1>4. plain = [t \in Expression |-> PlainStep({}, plain, t)]
  BY <1>1, <1>2, <1>3, DepthAssumption, Plaining!TreeRecursion
<1>5. \A t : Plain(t) = plain[t]
  BY <1>3 DEF Plain, Plaining!Solution, PlainStep
<1>. HIDE DEF plain
<1>6. plain[e] = PlainNode(plain, e)
  BY <1>4 DEF PlainStep
<1>7. e.node = "Constant" => plain[e] = IF e.kind = "BitVec" THEN Integer(e.value) ELSE e
  BY <1>6 DEF PlainNode
<1>8. e.node = "VariableRef" => plain[e] = e
  BY <1>6 DEF PlainNode
<1>9. e.node = "Unary" => plain[e] = Unary(e.op, plain[e.operand])
  BY <1>6 DEF PlainNode
<1>10. e.node = "Binary" => plain[e] = Binary(e.op, plain[e.lhs], plain[e.rhs])
  BY <1>6 DEF PlainNode
<1>. QED BY <1>5, <1>7, <1>8, <1>9, <1>10

\* The levels of terms.
LEMMA TermLevels ==
  /\ Term = SortingTerms!Tree
  /\ \A n \in Nat : TermLevel[n] = TermsOver(IF n = 0 THEN {} ELSE TermLevel[n - 1])
  /\ \A n \in 0..MaxDepth : TermLevel[n] \subseteq Term
<1>1. TermLevel = SortingTerms!Level
  BY DEF TermLevel, SortingTerms!Level, SortingTerms!GrowLevel
<1>2. SortingTerms!GrowsMonotonely
  BY TermsGrow DEF SortingTerms!GrowsMonotonely
<1>3. Term = SortingTerms!Tree
  BY <1>1 DEF Term, SortingTerms!Tree
<1>4. \A n \in Nat : TermLevel[n] = TermsOver(IF n = 0 THEN {} ELSE TermLevel[n - 1])
  BY <1>1, SortingTerms!LevelEquation
<1>5. \A n \in 0..MaxDepth : TermLevel[n] \subseteq Term
  BY <1>1, <1>2, DepthAssumption, SortingTerms!LevelsGrow DEF Term
<1>. QED BY <1>3, <1>4, <1>5

\* The sort of a term is found from the sorts of its arguments.
LEMMA TermSortEquation ==
  ASSUME NEW vs, NEW t \in Term
  PROVE  TermSort(vs, t) = Sorting(vs, [u \in Term |-> TermSort(vs, u)], t)
<1>. DEFINE sort == SortingTerms!Solution(vs)
<1>1. SortingTerms!GrowsMonotonely
  BY TermsGrow DEF SortingTerms!GrowsMonotonely
<1>2. SortingTerms!UsesOperands(vs)
  <2>1. SUFFICES ASSUME NEW S, NEW u \in TermsOver(S), NEW f, NEW g, \A d \in S : f[d] = g[d]
                 PROVE  Sorting(vs, f, u) = Sorting(vs, g, u)
    BY DEF SortingTerms!UsesOperands
  <2>2. u.args \in Seq(S)
    <3>1. <<>> \in Seq(S)
      OBVIOUS
    <3>. QED BY <2>1, <3>1 DEF TermsOver
  <2>3. [i \in DOMAIN u.args |-> f[u.args[i]]] = [i \in DOMAIN u.args |-> g[u.args[i]]]
    BY <2>1, <2>2
  <2>. QED BY <2>3 DEF Sorting
<1>3. sort = [u \in Term |-> Sorting(vs, sort, u)]
  BY <1>1, <1>2, TermLevels, DepthAssumption, SortingTerms!TreeRecursion
<1>4. \A u : TermSort(vs, u) = sort[u]
  BY TermLevels DEF TermSort, SortingTerms!Solution
<1>. HIDE DEF sort
<1>5. sort = [u \in Term |-> TermSort(vs, u)]
  BY <1>3, <1>4
<1>. QED BY <1>3, <1>4, <1>5

-----------------------------------------------------------------------------
(* Sorts of the terms the translators build.                                *)

Applied == FunctionNames \ {"true", "false"}

\* The names of the functions; none of them is the head of a leaf.
LEMMA AppliedNames ==
  /\ {"not", "and", "or", "=", "distinct", "<", "<=", ">", ">=", "+", "-", "*", "/", "div", "mod",
      "bvnot", "bvneg", "bvand", "bvor", "bvxor", "bvadd", "bvsub", "bvmul", "bvudiv", "bvurem",
      "bvshl", "bvlshr", "bvult", "bvule", "bvugt", "bvuge"} \subseteq Applied
  /\ \A f \in Applied : f \notin {"symbol", "true", "false", "numeral", "decimal", "string", "_", "#x", "#b"}
BY DEF Applied, FunctionNames, CoreFunctions, ArithmeticFunctions, BitVecFunctions, BitVecComparisons

\* A function of one argument.
LEMMA SortOfUnary ==
  ASSUME NEW vs, NEW a \in Term, NEW f \in Applied, App(f, <<a>>) \in Term
  PROVE  TermSort(vs, App(f, <<a>>)) = FunctionSort(f, << TermSort(vs, a) >>)
<1>. DEFINE sort == [u \in Term |-> TermSort(vs, u)]
            t == App(f, <<a>>)
<1>1. t.head = f /\ t.args = <<a>>
  BY DEF App
<1>2. TermSort(vs, t) = Sorting(vs, sort, t)
  BY TermSortEquation
<1>3. [i \in DOMAIN <<a>> |-> sort[<<a>>[i]]] = << sort[a] >>
  OBVIOUS
<1>4. sort[a] = TermSort(vs, a)
  OBVIOUS
<1>. HIDE DEF t, sort
<1>5. Sorting(vs, sort, t) = FunctionSort(t.head, [i \in DOMAIN t.args |-> sort[t.args[i]]])
  BY <1>1, AppliedNames DEF Sorting
<1>. QED BY <1>1, <1>2, <1>3, <1>4, <1>5 DEF t

\* A function of two arguments.
LEMMA SortOfBinary ==
  ASSUME NEW vs, NEW a \in Term, NEW b \in Term, NEW f \in Applied,
         App(f, <<a, b>>) \in Term
  PROVE  TermSort(vs, App(f, <<a, b>>)) = FunctionSort(f, << TermSort(vs, a), TermSort(vs, b) >>)
<1>. DEFINE sort == [u \in Term |-> TermSort(vs, u)]
            t == App(f, <<a, b>>)
<1>1. t.head = f /\ t.args = <<a, b>>
  BY DEF App
<1>2. TermSort(vs, t) = Sorting(vs, sort, t)
  BY TermSortEquation
<1>3. [i \in DOMAIN <<a, b>> |-> sort[<<a, b>>[i]]] = << sort[a], sort[b] >>
  OBVIOUS
<1>4. sort[a] = TermSort(vs, a) /\ sort[b] = TermSort(vs, b)
  OBVIOUS
<1>. HIDE DEF t, sort
<1>5. Sorting(vs, sort, t) = FunctionSort(t.head, [i \in DOMAIN t.args |-> sort[t.args[i]]])
  BY <1>1, AppliedNames DEF Sorting
<1>. QED BY <1>1, <1>2, <1>3, <1>4, <1>5 DEF t

\* The sort of a function of two arguments of one sort.
LEMMA BinaryRanks ==
  ASSUME NEW s \in VariableSort, NEW f
  PROVE  /\ f \in {"and", "or"} /\ s = BoolSort => FunctionSort(f, <<s, s>>) = BoolSort
         /\ f \in {"=", "distinct"} => FunctionSort(f, <<s, s>>) = BoolSort
         /\ f \in {"<", "<=", ">", ">="} /\ s \in {IntSort, RealSort} =>
              FunctionSort(f, <<s, s>>) = BoolSort
         /\ f \in {"+", "-", "*"} /\ s \in {IntSort, RealSort} => FunctionSort(f, <<s, s>>) = s
         /\ f = "/" /\ s = RealSort => FunctionSort(f, <<s, s>>) = s
         /\ f \in {"bvand", "bvor", "bvxor", "bvadd", "bvsub", "bvmul", "bvudiv", "bvurem", "bvshl", "bvlshr"}
              /\ IsBitVecSort(s) => FunctionSort(f, <<s, s>>) = s
         /\ f \in {"bvult", "bvule", "bvugt", "bvuge"} /\ IsBitVecSort(s) =>
              FunctionSort(f, <<s, s>>) = BoolSort
         /\ f \in {"+", "-", "*"} /\ IsBitVecSort(s) => FunctionSort(f, <<s, s>>) = IllSorted
<1>. DEFINE ss == <<s, s>>
<1>1. Len(ss) = 2 /\ DOMAIN ss = 1..2 /\ \A i \in DOMAIN ss : ss[i] = s
  OBVIOUS
<1>2. s # IllSorted /\ ss[1] = s
  BY DEF VariableSort, IllSorted, Sort, BoolSort, IntSort, RealSort, StringSort, BitVecSort
<1>. HIDE DEF ss
<1>3. f \in {"and", "or"} /\ s = BoolSort => FunctionSort(f, ss) = BoolSort
  BY <1>1, <1>2 DEF FunctionSort
<1>4. f \in {"=", "distinct"} => FunctionSort(f, ss) = BoolSort
  BY <1>1, <1>2 DEF FunctionSort
<1>5. f \in {"<", "<=", ">", ">="} /\ s \in {IntSort, RealSort} => FunctionSort(f, ss) = BoolSort
  BY <1>1, <1>2 DEF FunctionSort
<1>6. f \in {"+", "-", "*"} /\ s \in {IntSort, RealSort} => FunctionSort(f, ss) = s
  BY <1>1, <1>2 DEF FunctionSort
<1>7. f = "/" /\ s = RealSort => FunctionSort(f, ss) = s
  BY <1>1, <1>2 DEF FunctionSort
<1>8. f \in {"bvand", "bvor", "bvxor", "bvadd", "bvsub", "bvmul", "bvudiv", "bvurem", "bvshl", "bvlshr"}
        /\ IsBitVecSort(s) => FunctionSort(f, ss) = s
  BY <1>1, <1>2 DEF FunctionSort
<1>9. f \in {"bvult", "bvule", "bvugt", "bvuge"} /\ IsBitVecSort(s) => FunctionSort(f, ss) = BoolSort
  BY <1>1, <1>2 DEF FunctionSort
<1>10. f \in {"+", "-", "*"} /\ IsBitVecSort(s) => FunctionSort(f, ss) = IllSorted
  <2>1. IsBitVecSort(s) => s \notin {IntSort, RealSort}
    BY DEF IsBitVecSort, IntSort, RealSort, Sort
  <2>. QED BY <1>1, <1>2, <2>1 DEF FunctionSort
<1>. QED BY <1>3, <1>4, <1>5, <1>6, <1>7, <1>8, <1>9, <1>10 DEF ss

\* The sorts among those of variables.
LEMMA SortCases ==
  /\ BoolSort \in VariableSort
  /\ ~ IsBitVecSort(BoolSort) /\ ~ IsBitVecSort(IntSort) /\ ~ IsBitVecSort(RealSort) /\ ~ IsBitVecSort(StringSort)
  /\ IntSort # RealSort /\ BoolSort \notin {IntSort, RealSort, StringSort}
  /\ \A s \in VariableSort :
       /\ s # IllSorted
       /\ s \in {BoolSort, IntSort, RealSort, StringSort} \/ IsBitVecSort(s)
       /\ s.type = "Real" => s = RealSort
       /\ IsNumeric(s) => s \in {IntSort, RealSort} \/ IsBitVecSort(s)
BY DEF VariableSort, IsNumeric, IsBitVecSort, Sort, BoolSort, IntSort, RealSort, StringSort, BitVecSort, IllSorted

\* What the analyzer asks of the operands of each group of operators.
LEMMA BinaryOperands ==
  ASSUME NEW op \in BinaryOps, NEW s \in VariableSort, NEW t \in VariableSort, BinaryApplies(op, s, t)
  PROVE  /\ s = t
         /\ \/ op \in {"And", "Or"} /\ s = BoolSort
            \/ op \in {"Eq", "Neq"}
            \/ op \in {"Lt", "Le", "Gt", "Ge", "Add", "Sub", "Mul"} /\ s \in {IntSort, RealSort}
            \/ op = "Div" /\ s = RealSort
            \/ op \notin {"And", "Or", "Eq", "Neq"} /\ IsBitVecSort(s)
<1>1. op \in {"And", "Or"} => s = BoolSort /\ t = BoolSort
  BY DEF BinaryApplies
<1>2. op \in {"Eq", "Neq"} => s = t
  BY DEF BinaryApplies, SameSort
<1>3. op \in {"Lt", "Le", "Gt", "Ge"} => IsNumeric(s) /\ s = t
  BY DEF BinaryApplies, SameSort
<1>4. op \in {"Add", "Sub", "Mul"} => IsNumeric(s) /\ s = t
  BY DEF BinaryApplies, SameSort
<1>5. op = "Div" => (s.type = "Real" /\ t.type = "Real") \/ (IsBitVecSort(s) /\ s = t)
  BY DEF BinaryApplies, SameSort
<1>6. op \in {"Rem", "BvAnd", "BvOr", "BvXor", "BvShl", "BvShr"} => IsBitVecSort(s) /\ s = t
  BY DEF BinaryApplies, SameSort
<1>7. op \in {"And", "Or", "Eq", "Neq", "Lt", "Le", "Gt", "Ge", "Add", "Sub", "Mul", "Div", "Rem",
             "BvAnd", "BvOr", "BvXor", "BvShl", "BvShr"}
  BY DEF BinaryOps, BinarySymbol
<1>. QED BY <1>1, <1>2, <1>3, <1>4, <1>5, <1>6, <1>7, SortCases

\* The converter's function for each group of operators
\* (Z3ExpressionConverter.cpp 137-180).
LEMMA ConvertedFunctions ==
  ASSUME NEW op, NEW bv \in BOOLEAN
  PROVE  /\ op \in {"And", "Or"} => Z3Binary(op, bv) \in {"and", "or"}
         /\ op \in {"Eq", "Neq"} => Z3Binary(op, bv) \in {"=", "distinct"}
         /\ op \in {"Lt", "Le", "Gt", "Ge"} =>
              Z3Binary(op, bv) \in IF bv THEN {"bvult", "bvule", "bvugt", "bvuge"} ELSE {"<", "<=", ">", ">="}
         /\ op \in {"Add", "Sub", "Mul"} =>
              Z3Binary(op, bv) \in IF bv THEN {"bvadd", "bvsub", "bvmul"} ELSE {"+", "-", "*"}
         /\ op = "Div" => Z3Binary(op, bv) = IF bv THEN "bvudiv" ELSE "/"
         /\ op = "Rem" => Z3Binary(op, bv) = IF bv THEN "bvurem" ELSE "mod"
         /\ op \in {"BvAnd", "BvOr", "BvXor", "BvShl", "BvShr"} =>
              Z3Binary(op, bv) \in {"bvand", "bvor", "bvxor", "bvshl", "bvlshr"}
<1>. USE DEF Z3Binary, InTables, Z3BitVec, Z3Arithmetic
<1>1. op \in {"And", "Or"} => Z3Binary(op, bv) \in {"and", "or"}
  OBVIOUS
<1>2. op \in {"Eq", "Neq"} => Z3Binary(op, bv) \in {"=", "distinct"}
  OBVIOUS
<1>3. op \in {"Lt", "Le", "Gt", "Ge"} =>
        Z3Binary(op, bv) \in IF bv THEN {"bvult", "bvule", "bvugt", "bvuge"} ELSE {"<", "<=", ">", ">="}
  OBVIOUS
<1>4. op \in {"Add", "Sub", "Mul"} =>
        Z3Binary(op, bv) \in IF bv THEN {"bvadd", "bvsub", "bvmul"} ELSE {"+", "-", "*"}
  OBVIOUS
<1>5. op = "Div" => Z3Binary(op, bv) = IF bv THEN "bvudiv" ELSE "/"
  OBVIOUS
<1>6. op = "Rem" => Z3Binary(op, bv) = IF bv THEN "bvurem" ELSE "mod"
  OBVIOUS
<1>7. op \in {"BvAnd", "BvOr", "BvXor", "BvShl", "BvShr"} =>
        Z3Binary(op, bv) \in {"bvand", "bvor", "bvxor", "bvshl", "bvlshr"}
  OBVIOUS
<1>. HIDE DEF Z3Binary
<1>. QED BY <1>1, <1>2, <1>3, <1>4, <1>5, <1>6, <1>7

\* The result of each group of operators.
LEMMA ResultSorts ==
  ASSUME NEW op, NEW s
  PROVE  /\ op \in {"And", "Or", "Eq", "Neq", "Lt", "Le", "Gt", "Ge"} => ResultSort(op, s) = BoolSort
         /\ op \notin {"And", "Or", "Eq", "Neq", "Lt", "Le", "Gt", "Ge"} => ResultSort(op, s) = s
BY DEF ResultSort

\* The functions the converter picks fit the operands the analyzer lets an
\* operator have.
LEMMA ConvertedBinaryFits ==
  ASSUME NEW op \in BinaryOps, NEW s \in VariableSort, NEW t \in VariableSort, BinaryApplies(op, s, t)
  PROVE  /\ s = t
         /\ Z3Binary(op, IsBitVecSort(s)) \in Applied
         /\ FunctionSort(Z3Binary(op, IsBitVecSort(s)), <<s, t>>) = ResultSort(op, s)
         /\ ResultSort(op, s) \in VariableSort
<1>1. s = t /\ IsBitVecSort(s) \in BOOLEAN
  BY BinaryOperands DEF IsBitVecSort
<1>0. SUFFICES ASSUME NEW f, f = Z3Binary(op, IsBitVecSort(s))
               PROVE  /\ f \in Applied
                      /\ FunctionSort(f, <<s, s>>) = ResultSort(op, s)
                      /\ ResultSort(op, s) \in VariableSort
  BY <1>1
<1>2. CASE op \in {"And", "Or"} /\ s = BoolSort
  <2>1. f \in {"and", "or"}
    BY <1>0, <1>1, <1>2, ConvertedFunctions
  <2>2. f \in Applied
    BY <2>1, AppliedNames
  <2>3. FunctionSort(f, <<s, s>>) = BoolSort
    BY <1>2, <2>1, BinaryRanks
  <2>4. ResultSort(op, s) = BoolSort
    BY <1>2, ResultSorts
  <2>. QED BY <2>2, <2>3, <2>4, SortCases
<1>3. CASE op \in {"Eq", "Neq"}
  <2>1. f \in {"=", "distinct"}
    BY <1>0, <1>1, <1>3, ConvertedFunctions
  <2>2. f \in Applied
    BY <2>1, AppliedNames
  <2>3. FunctionSort(f, <<s, s>>) = BoolSort
    BY <1>3, <2>1, BinaryRanks
  <2>4. ResultSort(op, s) = BoolSort
    BY <1>3, ResultSorts
  <2>. QED BY <2>2, <2>3, <2>4, SortCases
<1>4. CASE op \in {"Lt", "Le", "Gt", "Ge"} /\ s \in {IntSort, RealSort}
  <2>1. f \in {"<", "<=", ">", ">="}
    BY <1>0, <1>1, <1>4, ConvertedFunctions, SortCases
  <2>2. f \in Applied
    BY <2>1, AppliedNames
  <2>3. FunctionSort(f, <<s, s>>) = BoolSort
    BY <1>4, <2>1, BinaryRanks
  <2>4. ResultSort(op, s) = BoolSort
    BY <1>4, ResultSorts
  <2>. QED BY <2>2, <2>3, <2>4, SortCases
<1>5. CASE op \in {"Add", "Sub", "Mul"} /\ s \in {IntSort, RealSort}
  <2>1. f \in {"+", "-", "*"}
    BY <1>0, <1>1, <1>5, ConvertedFunctions, SortCases
  <2>2. f \in Applied
    BY <2>1, AppliedNames
  <2>3. FunctionSort(f, <<s, s>>) = s
    BY <1>5, <2>1, BinaryRanks
  <2>4. ResultSort(op, s) = s
    BY <1>5, ResultSorts
  <2>. QED BY <2>2, <2>3, <2>4, SortCases
<1>6. CASE op = "Div" /\ s = RealSort
  <2>1. f = "/"
    BY <1>0, <1>1, <1>6, ConvertedFunctions, SortCases
  <2>2. f \in Applied
    BY <2>1, AppliedNames
  <2>3. FunctionSort(f, <<s, s>>) = s
    BY <1>6, <2>1, BinaryRanks
  <2>4. ResultSort(op, s) = s
    BY <1>6, ResultSorts
  <2>. QED BY <2>2, <2>3, <2>4, SortCases
<1>7. CASE op \in {"Lt", "Le", "Gt", "Ge"} /\ IsBitVecSort(s)
  <2>1. f \in {"bvult", "bvule", "bvugt", "bvuge"}
    BY <1>0, <1>1, <1>7, ConvertedFunctions
  <2>2. f \in Applied
    BY <2>1, AppliedNames
  <2>3. FunctionSort(f, <<s, s>>) = BoolSort
    BY <1>7, <2>1, BinaryRanks
  <2>4. ResultSort(op, s) = BoolSort
    BY <1>7, ResultSorts
  <2>. QED BY <2>2, <2>3, <2>4, SortCases
<1>8. CASE op \in {"Add", "Sub", "Mul", "Div", "Rem", "BvAnd", "BvOr", "BvXor", "BvShl", "BvShr"}
           /\ IsBitVecSort(s)
  <2>1. f \in {"bvadd", "bvsub", "bvmul", "bvudiv", "bvurem", "bvand", "bvor", "bvxor", "bvshl", "bvlshr"}
    BY <1>0, <1>1, <1>8, ConvertedFunctions, ZenonT(40)
  <2>2. f \in Applied
    BY <2>1, AppliedNames
  <2>3. FunctionSort(f, <<s, s>>) = s
    BY <1>8, <2>1, BinaryRanks
  <2>4. ResultSort(op, s) = s
    BY <1>8, ResultSorts
  <2>. QED BY <2>2, <2>3, <2>4, SortCases
<1>9. op \in {"And", "Or", "Eq", "Neq", "Lt", "Le", "Gt", "Ge", "Add", "Sub", "Mul", "Div", "Rem",
             "BvAnd", "BvOr", "BvXor", "BvShl", "BvShr"}
  BY DEF BinaryOps, BinarySymbol
<1>10. \/ op \in {"And", "Or"} /\ s = BoolSort
       \/ op \in {"Eq", "Neq"}
       \/ op \in {"Lt", "Le", "Gt", "Ge", "Add", "Sub", "Mul"} /\ s \in {IntSort, RealSort}
       \/ op = "Div" /\ s = RealSort
       \/ op \notin {"And", "Or", "Eq", "Neq"} /\ IsBitVecSort(s)
  BY BinaryOperands
<1>. QED BY <1>2, <1>3, <1>4, <1>5, <1>6, <1>7, <1>8, <1>9, <1>10

\* A function of an argument without a sort has none.
LEMMA IllSortedArguments ==
  ASSUME NEW f, NEW s, NEW t, s = IllSorted \/ t = IllSorted
  PROVE  FunctionSort(f, <<s, t>>) = IllSorted /\ (s = IllSorted => FunctionSort(f, <<s>>) = IllSorted)
<1>1. IllSorted \notin {BoolSort, IntSort, RealSort} /\ ~ IsBitVecSort(IllSorted)
  BY DEF IllSorted, Sort, BoolSort, IntSort, RealSort, IsBitVecSort
<1>2. ASSUME NEW ss, Len(ss) \in 1..2, DOMAIN ss = 1..Len(ss), \E i \in DOMAIN ss : ss[i] = IllSorted
      PROVE  FunctionSort(f, ss) = IllSorted
  <2>1. /\ ~ \A i \in DOMAIN ss : ss[i] \in {BoolSort}
        /\ ~ \A i \in DOMAIN ss : ss[i] \in {RealSort}
        /\ ~ \A i \in DOMAIN ss : ss[i] \in {IntSort}
        /\ ~ \A i \in DOMAIN ss : ss[i] = ss[1] /\ ss[1] # IllSorted
    BY <1>1, <1>2
  <2>. QED BY <2>1, Zenon DEF FunctionSort
<1>. QED BY <1>2

\* The serializer's function for an operator: the converter's, or one that does
\* not take bit-vectors (SmtLib2Serializer.cpp 222-277).
LEMMA SerializedBinaryFits ==
  ASSUME NEW op \in BinaryOps, NEW s \in VariableSort, BinaryApplies(op, s, s),
         NEW bv \in BOOLEAN, NEW real \in BOOLEAN,
         IsBitVecSort(s) => bv, s \in {IntSort, RealSort, StringSort} => ~ bv, s = RealSort => real
  PROVE  LET f == InTables(op, bv, SerializedBitVec, SerializedArithmetic(real))
         IN /\ f \in Applied
            /\ f = Z3Binary(op, IsBitVecSort(s)) \/ FunctionSort(f, <<s, s>>) = IllSorted
<1>. DEFINE z == Z3Binary(op, IsBitVecSort(s))
<1>0. SUFFICES ASSUME NEW f, f = InTables(op, bv, SerializedBitVec, SerializedArithmetic(real))
               PROVE  f \in Applied /\ (f = z \/ FunctionSort(f, <<s, s>>) = IllSorted)
  OBVIOUS
<1>1. z \in Applied
  BY ConvertedBinaryFits
<1>2. IsBitVecSort(s) \in BOOLEAN
  BY DEF IsBitVecSort
<1>. USE DEF InTables, SerializedBitVec, SerializedArithmetic, Z3Binary, Z3BitVec, Z3Arithmetic
<1>3. CASE op \in {"And", "Or", "Eq", "Neq", "BvAnd", "BvOr", "BvXor", "BvShl", "BvShr"}
  <2>1. f = z
    BY <1>0, <1>2, <1>3
  <2>. QED BY <1>1, <2>1
<1>4. CASE op \in {"Lt", "Le", "Gt", "Ge"}
  <2>1. bv = IsBitVecSort(s)
    BY <1>2, <1>4, BinaryOperands
  <2>2. f = z
    BY <1>0, <1>4, <2>1
  <2>. QED BY <1>1, <2>2
<1>5. CASE op \in {"Div", "Rem"}
  <2>1. s = RealSort \/ IsBitVecSort(s)
    BY <1>5, BinaryOperands
  <2>2. op = "Rem" => IsBitVecSort(s)
    BY <1>5, BinaryOperands
  <2>3. bv = IsBitVecSort(s) /\ (~ bv => op = "Div" /\ real)
    BY <1>2, <1>5, <2>1, <2>2
  <2>4. f = z
    BY <1>0, <1>5, <2>3
  <2>. QED BY <1>1, <2>4
<1>6. CASE op \in {"Add", "Sub", "Mul"}
  <2>1. f \in {"+", "-", "*"}
    BY <1>0, <1>6
  <2>2. CASE IsBitVecSort(s)
    <3>1. FunctionSort(f, <<s, s>>) = IllSorted
      BY <2>1, <2>2, BinaryRanks
    <3>. QED BY <2>1, <3>1, AppliedNames
  <2>3. CASE ~ IsBitVecSort(s)
    <3>1. f = z
      BY <1>0, <1>6, <2>3
    <3>. QED BY <1>1, <3>1
  <2>. QED BY <2>2, <2>3
<1>7. op \in {"And", "Or", "Eq", "Neq", "Lt", "Le", "Gt", "Ge", "Add", "Sub", "Mul", "Div", "Rem",
             "BvAnd", "BvOr", "BvXor", "BvShl", "BvShr"}
  BY DEF BinaryOps, BinarySymbol
<1>. QED BY <1>3, <1>4, <1>5, <1>6, <1>7

-----------------------------------------------------------------------------
(* Trees the analyzer has accepted.                                         *)

\* Both translators turn e, of at most n + 1 levels, into a term of sort s, but
\* the serializer's may be ill-sorted instead; and the serializer's guesses are
\* right about operands of that sort: a Boolean may pass for a bit-vector.
Translates(vs, n, e, s) ==
  /\ e \in ExpressionLevel[n]
  /\ s \in VariableSort
  /\ Convert(vs, e) \in TermLevel[n]
  /\ SerializeExpr(vs, e) \in TermLevel[n]
  /\ TermSort(vs, Convert(vs, e)) = s
  /\ \/ SerializeExpr(vs, e) = Convert(vs, e)
     \/ TermSort(vs, SerializeExpr(vs, e)) = IllSorted
  /\ IsBitVec(vs, e) \in BOOLEAN /\ IsReal(vs, e) \in BOOLEAN
  /\ IsBitVecSort(s) => IsBitVec(vs, e)
  /\ s \in {IntSort, RealSort, StringSort} => ~ IsBitVec(vs, e)
  /\ s = RealSort => IsReal(vs, e)

\* The levels of expressions.
LEMMA ExpressionLevels ==
  /\ \A n \in Nat : ExpressionLevel[n] = ExpressionsOver(IF n = 0 THEN {} ELSE ExpressionLevel[n - 1])
  /\ \A n \in 0..MaxDepth : ExpressionLevel[n] \subseteq Expression
<1>1. ExpressionLevel = Resolving!Level
  BY DEF ExpressionLevel, Resolving!Level, Resolving!GrowLevel
<1>2. Resolving!GrowsMonotonely
  BY ExpressionsGrow DEF Resolving!GrowsMonotonely
<1>3. \A n \in Nat : ExpressionLevel[n] = ExpressionsOver(IF n = 0 THEN {} ELSE ExpressionLevel[n - 1])
  BY <1>1, Resolving!LevelEquation
<1>4. \A n \in 0..MaxDepth : ExpressionLevel[n] \subseteq Expression
  BY <1>1, <1>2, DepthAssumption, Resolving!LevelsGrow DEF Expression
<1>. QED BY <1>3, <1>4

\* The sort of a declared variable.
LEMMA DeclaredSorts ==
  ASSUME NEW vs \in Environment, NEW name \in DeclaredNames(vs)
  PROVE  SortOfVariable(vs, name) \in VariableSort
<1>1. PICK i \in DOMAIN vs : vs[i].name = name
  BY DEF DeclaredNames
<1>2. \A j \in DOMAIN vs : vs[j].sort \in VariableSort
  <2>1. vs \in Seq([name: STRING, sort: VariableSort])
    BY DEF Environment
  <2>2. \A R : \A q \in Seq(R) : \A j \in DOMAIN q : q[j] \in R
    OBVIOUS
  <2>3. \A j \in DOMAIN vs : vs[j] \in [name: STRING, sort: VariableSort]
    BY <2>1, <2>2, Zenon
  <2>. QED BY <2>3
<1>3. SortOfVariable(vs, name) = vs[CHOOSE j \in DOMAIN vs : vs[j].name = name].sort
  BY DEF SortOfVariable
<1>4. (CHOOSE j \in DOMAIN vs : vs[j].name = name) \in DOMAIN vs
  BY <1>1
<1>. QED BY <1>2, <1>3, <1>4

\* Leaves are terms of every level.
LEMMA LeafTerms ==
  ASSUME NEW S
  PROVE  /\ \A v \in Int : Leaf("numeral", v, 0) \in TermsOver(S)
         /\ \A v \in Int, w \in Nat : Leaf("_", v, w) \in TermsOver(S)
         /\ \A x \in STRING : Spelled("decimal", x) \in TermsOver(S)
         /\ \A x \in STRING : Spelled("string", x) \in TermsOver(S)
         /\ \A x \in STRING : Symbol(x) \in TermsOver(S)
         /\ App("true", <<>>) \in TermsOver(S)
         /\ App("false", <<>>) \in TermsOver(S)
<1>1. <<>> \in Seq(S) /\ {"true", "false"} \subseteq FunctionNames
  BY DEF FunctionNames, CoreFunctions
<1>2. \A h, v, w : h \in {"numeral", "_"} /\ v \in Int /\ w \in Nat => Leaf(h, v, w) \in TermsOver(S)
  BY DEF TermsOver, Leaf
<1>3. \A h, x : h \in {"symbol", "decimal", "string"} /\ x \in STRING => Spelled(h, x) \in TermsOver(S)
  BY DEF TermsOver, Spelled
<1>4. \A h : h \in {"true", "false"} => App(h, <<>>) \in TermsOver(S)
  BY <1>1 DEF TermsOver, App
<1>. QED BY <1>2, <1>3, <1>4 DEF Symbol

\* The sorts of leaves.
LEMMA LeafSorts ==
  ASSUME NEW vs, NEW sort
  PROVE  /\ \A v, w : Sorting(vs, sort, Leaf("numeral", v, w)) = IntSort
         /\ \A v, w : Sorting(vs, sort, Leaf("_", v, w)) = BitVecSort(w)
         /\ \A x : Sorting(vs, sort, Spelled("decimal", x)) = RealSort
         /\ \A x : Sorting(vs, sort, Spelled("string", x)) = StringSort
         /\ \A x : Sorting(vs, sort, Symbol(x)) = IF x \in DeclaredNames(vs)
                                                  THEN SortOfVariable(vs, x) ELSE IllSorted
         /\ Sorting(vs, sort, App("true", <<>>)) = BoolSort
         /\ Sorting(vs, sort, App("false", <<>>)) = BoolSort
<1>1. \A v, w : Sorting(vs, sort, Leaf("numeral", v, w)) = IntSort
  BY DEF Sorting, Leaf
<1>2. \A v, w : Sorting(vs, sort, Leaf("_", v, w)) = BitVecSort(w)
  BY DEF Sorting, Leaf
<1>3. \A x : Sorting(vs, sort, Spelled("decimal", x)) = RealSort
  BY DEF Sorting, Spelled
<1>4. \A x : Sorting(vs, sort, Spelled("string", x)) = StringSort
  BY DEF Sorting, Spelled
<1>5. \A x : Sorting(vs, sort, Symbol(x)) = IF x \in DeclaredNames(vs)
                                            THEN SortOfVariable(vs, x) ELSE IllSorted
  BY DEF Sorting, Spelled, Symbol
<1>6. Sorting(vs, sort, App("true", <<>>)) = BoolSort
  BY DEF Sorting, App
<1>7. Sorting(vs, sort, App("false", <<>>)) = BoolSort
  BY DEF Sorting, App
<1>. QED BY <1>1, <1>2, <1>3, <1>4, <1>5, <1>6, <1>7

\* The literal a constant becomes.
LEMMA Literals ==
  ASSUME NEW vs, NEW n \in 0..MaxDepth, NEW e \in LeafNodes, e.node = "Constant"
  PROVE  ConvertConstant(e) \in TermLevel[n] /\ TermSort(vs, ConvertConstant(e)) = ConstantSort(e)
<1>. DEFINE S == IF n = 0 THEN {} ELSE TermLevel[n - 1]
            sort == [u \in Term |-> TermSort(vs, u)]
<1>1. TermLevel[n] = TermsOver(S) /\ TermsOver(S) \subseteq Term
  BY TermLevels
<1>2. \A t \in TermsOver(S) : TermSort(vs, t) = Sorting(vs, sort, t)
  BY <1>1, TermSortEquation
<1>. HIDE DEF S, sort
<1>3. SUFFICES ConvertConstant(e) \in TermsOver(S) /\ Sorting(vs, sort, ConvertConstant(e)) = ConstantSort(e)
  BY <1>1, <1>2
<1>4. CASE e \in ConstantsOf("Bool", 0..1, {0}, {""})
  <2>1. e.kind = "Bool" /\ e.width = 0
    BY <1>4 DEF ConstantsOf
  <2>2. ConvertConstant(e) \in { App("true", <<>>), App("false", <<>>) }
    BY <2>1 DEF ConvertConstant, Truth
  <2>3. ConstantSort(e) = BoolSort
    BY <2>1 DEF ConstantSort, BoolSort
  <2>4. \A t \in { App("true", <<>>), App("false", <<>>) } : Sorting(vs, sort, t) = BoolSort
    BY LeafSorts, Zenon
  <2>5. { App("true", <<>>), App("false", <<>>) } \subseteq TermsOver(S)
    BY LeafTerms, Zenon
  <2>. QED BY <2>2, <2>3, <2>4, <2>5, Zenon
<1>5. CASE e \in ConstantsOf("Int", Int, {0}, {""})
  <2>1. e.kind = "Int" /\ e.width = 0 /\ e.value \in Int
    BY <1>5 DEF ConstantsOf
  <2>2. ConvertConstant(e) = Leaf("numeral", e.value, 0)
    BY <2>1 DEF ConvertConstant
  <2>3. ConstantSort(e) = IntSort
    BY <2>1 DEF ConstantSort, IntSort
  <2>4. Sorting(vs, sort, Leaf("numeral", e.value, 0)) = IntSort
    BY LeafSorts, Zenon
  <2>5. Leaf("numeral", e.value, 0) \in TermsOver(S)
    BY <2>1, LeafTerms, Zenon
  <2>. QED BY <2>2, <2>3, <2>4, <2>5, Zenon
<1>6. CASE e \in ConstantsOf("Real", {0}, {0}, STRING)
  <2>1. e.kind = "Real" /\ e.width = 0 /\ e.text \in STRING
    BY <1>6 DEF ConstantsOf
  <2>2. ConvertConstant(e) = Spelled("decimal", e.text)
    BY <2>1 DEF ConvertConstant
  <2>3. ConstantSort(e) = RealSort
    BY <2>1 DEF ConstantSort, RealSort
  <2>4. Sorting(vs, sort, Spelled("decimal", e.text)) = RealSort
    BY LeafSorts, Zenon
  <2>5. Spelled("decimal", e.text) \in TermsOver(S)
    BY <2>1, LeafTerms, Zenon
  <2>. QED BY <2>2, <2>3, <2>4, <2>5, Zenon
<1>7. CASE e \in ConstantsOf("String", {0}, {0}, STRING)
  <2>1. e.kind = "String" /\ e.width = 0 /\ e.text \in STRING
    BY <1>7 DEF ConstantsOf
  <2>2. ConvertConstant(e) = Spelled("string", e.text)
    BY <2>1 DEF ConvertConstant
  <2>3. ConstantSort(e) = StringSort
    BY <2>1 DEF ConstantSort, StringSort
  <2>4. Sorting(vs, sort, Spelled("string", e.text)) = StringSort
    BY LeafSorts, Zenon
  <2>5. Spelled("string", e.text) \in TermsOver(S)
    BY <2>1, LeafTerms, Zenon
  <2>. QED BY <2>2, <2>3, <2>4, <2>5, Zenon
<1>8. CASE e \in ConstantsOf("BitVec", Nat, Widths, {""})
  <2>1. e.kind = "BitVec" /\ e.width \in Widths /\ e.value \in Nat
    BY <1>8 DEF ConstantsOf
  <2>2. e.width \in Nat /\ e.value \in Int
    BY <2>1, WordBitsAssumption DEF Widths
  <2>3. ConvertConstant(e) = Leaf("_", e.value, e.width)
    BY <2>1 DEF ConvertConstant
  <2>4. ConstantSort(e) = BitVecSort(e.width)
    BY <2>1 DEF ConstantSort, BitVecSort
  <2>5. Sorting(vs, sort, Leaf("_", e.value, e.width)) = BitVecSort(e.width)
    <3>1. \A v, w : Sorting(vs, sort, Leaf("_", v, w)) = BitVecSort(w)
      BY LeafSorts
    <3>. QED BY <3>1
  <2>6. Leaf("_", e.value, e.width) \in TermsOver(S)
    BY <2>2, LeafTerms, Zenon
  <2>. QED BY <2>3, <2>4, <2>5, <2>6, Zenon
<1>. QED BY <1>4, <1>5, <1>6, <1>7, <1>8 DEF LeafNodes

\* What a constant's sort says of its kind.
LEMMA ConstantSorts ==
  ASSUME NEW e \in LeafNodes, e.node = "Constant"
  PROVE  /\ ConstantSort(e) \in VariableSort
         /\ IsBitVecSort(ConstantSort(e)) <=> e.kind = "BitVec"
         /\ ConstantSort(e) = RealSort <=> e.kind = "Real"
<1>. USE DEF ConstantSort, VariableSort, IsBitVecSort, BoolSort, IntSort, RealSort, StringSort, BitVecSort, Sort, Widths
<1>1. CASE e.kind # "BitVec"
  <2>1. e.width = 0 /\ e.kind \in {"Bool", "Int", "Real", "String"}
    BY <1>1 DEF LeafNodes, ConstantsOf
  <2>. QED BY <1>1, <2>1
<1>2. CASE e.kind = "BitVec"
  <2>1. e.width \in Widths
    BY <1>2 DEF LeafNodes, ConstantsOf
  <2>. QED BY <1>2, <2>1
<1>. QED BY <1>1, <1>2

\* A constant becomes a literal of its sort.
LEMMA ConstantTranslates ==
  ASSUME NEW vs, NEW n \in 0..MaxDepth, NEW e \in LeafNodes, e.node = "Constant"
  PROVE  Translates(vs, n, e, ConstantSort(e))
<1>1. e \in ExpressionLevel[n] /\ e \in Expression
  BY ExpressionLevels DEF ExpressionsOver
<1>2. Convert(vs, e) = ConvertConstant(e)
  BY <1>1, ConvertEquation
<1>3. SerializeExpr(vs, e) = ConvertConstant(e)
  BY <1>1, SerializeEquation
<1>4. IsBitVec(vs, e) = (e.kind = "BitVec")
  BY <1>1, IsBitVecEquation
<1>5. IsReal(vs, e) = (e.kind = "Real")
  BY <1>1, IsRealEquation
<1>6. ConvertConstant(e) \in TermLevel[n] /\ TermSort(vs, ConvertConstant(e)) = ConstantSort(e)
  BY Literals
<1>. QED BY <1>1, <1>2, <1>3, <1>4, <1>5, <1>6, ConstantSorts, SortCases DEF Translates

\* A declared variable becomes its symbol.
LEMMA VariableTranslates ==
  ASSUME NEW vs \in Environment, NEW n \in 0..MaxDepth, NEW e \in LeafNodes, e.node = "VariableRef",
         e.name \in DeclaredNames(vs)
  PROVE  Translates(vs, n, e, SortOfVariable(vs, e.name))
<1>. DEFINE s == SortOfVariable(vs, e.name)
            t == Symbol(e.name)
            S == IF n = 0 THEN {} ELSE TermLevel[n - 1]
            sort == [u \in Term |-> TermSort(vs, u)]
<1>1. e \in ExpressionLevel[n] /\ e \in Expression
  BY ExpressionLevels DEF ExpressionsOver
<1>2. e.name \in STRING
  BY DEF LeafNodes, ConstantsOf
<1>3. s \in VariableSort
  BY DeclaredSorts
<1>4. TermLevel[n] = TermsOver(S) /\ TermsOver(S) \subseteq Term
  BY TermLevels
<1>5. t \in TermsOver(S)
  BY <1>2, LeafTerms
<1>6. TermSort(vs, t) = Sorting(vs, sort, t)
  BY <1>4, <1>5, TermSortEquation
<1>7. Sorting(vs, sort, t) = s
  BY LeafSorts
<1>8. Convert(vs, e) = t /\ SerializeExpr(vs, e) = t
  BY <1>1, ConvertEquation, SerializeEquation
<1>9. IsBitVec(vs, e) = IsBitVecSort(s)
  BY <1>1, IsBitVecEquation DEF IsBitVecSort
<1>10. IsReal(vs, e) = (s = RealSort)
  BY <1>1, IsRealEquation
<1>11. IsBitVecSort(s) \in BOOLEAN
  BY DEF IsBitVecSort
<1>. HIDE DEF s, t, S, sort
<1>12. /\ IsBitVecSort(s) => IsBitVec(vs, e)
       /\ s \in {IntSort, RealSort, StringSort} => ~ IsBitVec(vs, e)
       /\ s = RealSort => IsReal(vs, e)
  BY <1>9, <1>10, SortCases
<1>13. IsBitVec(vs, e) \in BOOLEAN /\ IsReal(vs, e) \in BOOLEAN
  BY <1>9, <1>10, <1>11
<1>14. Convert(vs, e) \in TermLevel[n] /\ SerializeExpr(vs, e) = Convert(vs, e)
  BY <1>4, <1>5, <1>8
<1>15. TermSort(vs, Convert(vs, e)) = s
  BY <1>6, <1>7, <1>8
<1>16. Translates(vs, n, e, s)
  BY <1>1, <1>3, <1>12, <1>13, <1>14, <1>15 DEF Translates
<1>. QED BY <1>16 DEF s

\* A literal that adapts to a bit-vector is one that a user could have written.
LEMMA AdaptedLiteral ==
  ASSUME NEW n \in 0..MaxDepth, NEW e \in ExpressionLevel[n], IsIntLiteral(e), ~ (e.value < 0),
         NEW s \in VariableSort, IsBitVecSort(s)
  PROVE  /\ BitVector(e.value, s.width) \in LeafNodes
         /\ BitVector(e.value, s.width).node = "Constant"
         /\ ConstantSort(BitVector(e.value, s.width)) = s
<1>1. e \in ExpressionsOver(IF n = 0 THEN {} ELSE ExpressionLevel[n - 1])
  BY ExpressionLevels
<1>2. e.value \in Nat
  <2>1. e.node = "Constant" /\ e.kind = "Int"
    BY DEF IsIntLiteral
  <2>2. e \in LeafNodes
    BY <1>1, <2>1 DEF ExpressionsOver, UnaryNodes, BinaryNodes
  <2>3. e \in ConstantsOf("Int", Int, {0}, {""})
    BY <2>1, <2>2 DEF LeafNodes, ConstantsOf
  <2>4. e.value \in Int
    BY <2>3 DEF ConstantsOf
  <2>. QED BY <2>4
<1>3. PICK w \in Widths : s = BitVecSort(w)
  BY DEF VariableSort, IsBitVecSort, BoolSort, IntSort, RealSort, StringSort, Sort
<1>4. s.width = w
  BY <1>3 DEF BitVecSort, Sort
<1>5. BitVector(e.value, w) \in ConstantsOf("BitVec", Nat, Widths, {""})
  BY <1>2, <1>3 DEF BitVector, Constant, ConstantsOf
<1>6. BitVector(e.value, w).node = "Constant" /\ ConstantSort(BitVector(e.value, w)) = BitVecSort(w)
  BY DEF BitVector, Constant, ConstantSort, BitVecSort
<1>. QED BY <1>3, <1>4, <1>5, <1>6 DEF LeafNodes

\* coerceSide leaves a side that translates one that does.
LEMMA CoercionTranslates ==
  ASSUME NEW vs, NEW n \in 0..MaxDepth, NEW side, NEW other, Translates(vs, n, side.expr, side.sort),
         other.sort \in VariableSort, CoerceSide(side, other).ok
  PROVE  Translates(vs, n, CoerceSide(side, other).expr, CoerceSide(side, other).sort)
<1>. DEFINE c == CoerceSide(side, other)
            literal == BitVector(side.expr.value, other.sort.width)
<1>1. CASE ~ IsBitVecSort(other.sort) \/ side.sort # IntSort \/ ~ IsIntLiteral(side.expr)
  <2>1. c = side
    BY <1>1 DEF CoerceSide
  <2>. QED BY <2>1
<1>2. CASE IsBitVecSort(other.sort) /\ side.sort = IntSort /\ IsIntLiteral(side.expr)
  <2>1. c = IF side.expr.value < 0 \/ side.expr.value > 2 ^ other.sort.width - 1
            THEN Rejected ELSE Resolved(literal, other.sort)
    BY <1>2 DEF CoerceSide
  <2>2. ~ Rejected.ok
    BY DEF Rejected
  <2>3. ~ (side.expr.value < 0) /\ c = Resolved(literal, other.sort)
    BY <2>1, <2>2
  <2>4. c.expr = literal /\ c.sort = other.sort
    BY <2>3 DEF Resolved
  <2>5. side.expr \in ExpressionLevel[n]
    BY DEF Translates
  <2>6. literal \in LeafNodes /\ literal.node = "Constant" /\ ConstantSort(literal) = other.sort
    BY <1>2, <2>3, <2>5, AdaptedLiteral
  <2>7. Translates(vs, n, literal, ConstantSort(literal))
    BY <2>6, ConstantTranslates
  <2>. QED BY <2>4, <2>6, <2>7
<1>. QED BY <1>1, <1>2

\* A function of translated operands is a term of the next level.
LEMMA AppliedTerms ==
  ASSUME NEW n \in 0..MaxDepth, n # 0, NEW f \in Applied, NEW a \in TermLevel[n - 1]
  PROVE  /\ a \in Term
         /\ App(f, <<a>>) \in TermLevel[n] /\ App(f, <<a>>) \in Term
         /\ \A b \in TermLevel[n - 1] :
              b \in Term /\ App(f, <<a, b>>) \in TermLevel[n] /\ App(f, <<a, b>>) \in Term
<1>1. TermLevel[n] = TermsOver(TermLevel[n - 1]) /\ TermLevel[n] \subseteq Term
  BY TermLevels
<1>2. TermLevel[n - 1] \subseteq Term
  <2>1. n - 1 \in 0..MaxDepth
    BY DepthAssumption
  <2>. QED BY <2>1, TermLevels
<1>3. f \in FunctionNames
  BY DEF Applied
<1>4. \A args \in Seq(TermLevel[n - 1]) : App(f, args) \in TermsOver(TermLevel[n - 1])
  BY <1>3 DEF TermsOver, App
<1>5. <<a>> \in Seq(TermLevel[n - 1]) /\ \A b \in TermLevel[n - 1] : <<a, b>> \in Seq(TermLevel[n - 1])
  <2>1. \A T : \A x, y \in T : <<x>> \in Seq(T) /\ <<x, y>> \in Seq(T)
    OBVIOUS
  <2>. QED BY <2>1
<1>. QED BY <1>1, <1>2, <1>4, <1>5

\* The function both translators have for an operator on one operand.
LEMMA UnaryFits ==
  ASSUME NEW op \in UnaryOps, NEW s \in VariableSort, UnaryApplies(op, s), NEW bv \in BOOLEAN,
         IsBitVecSort(s) => bv, s \in {IntSort, RealSort} => ~ bv
  PROVE  /\ UnaryFunction(op, bv) \in Applied
         /\ UnaryFunction(op, bv) = UnaryFunction(op, IsBitVecSort(s))
         /\ FunctionSort(UnaryFunction(op, bv), <<s>>) = s
<1>. DEFINE ss == <<s>>
<1>1. Len(ss) = 1 /\ DOMAIN ss = 1..1 /\ ss[1] = s /\ \A i \in DOMAIN ss : ss[i] = s
  OBVIOUS
<1>2. s # IllSorted /\ IsBitVecSort(s) \in BOOLEAN
  BY SortCases DEF IsBitVecSort
<1>. HIDE DEF ss
<1>3. op \in {"Not", "Neg", "BvNot"}
  BY DEF UnaryOps, UnarySymbol
<1>4. CASE op = "Not"
  <2>1. s = BoolSort
    BY <1>4 DEF UnaryApplies
  <2>2. \A b : UnaryFunction(op, b) = "not"
    BY <1>4 DEF UnaryFunction
  <2>3. FunctionSort("not", ss) = BoolSort
    BY <1>1, <2>1 DEF FunctionSort
  <2>. QED BY <2>1, <2>2, <2>3, AppliedNames DEF ss
<1>5. CASE op = "Neg"
  <2>1. s \in {IntSort, RealSort}
    BY <1>5 DEF UnaryApplies
  <2>2. ~ bv /\ ~ IsBitVecSort(s)
    BY <2>1, SortCases
  <2>3. UnaryFunction(op, bv) = "-" /\ UnaryFunction(op, IsBitVecSort(s)) = "-"
    BY <1>5, <2>2 DEF UnaryFunction
  <2>4. FunctionSort("-", ss) = s
    BY <1>1, <1>2, <2>1 DEF FunctionSort
  <2>. QED BY <2>3, <2>4, AppliedNames DEF ss
<1>6. CASE op = "BvNot"
  <2>1. IsBitVecSort(s)
    BY <1>6 DEF UnaryApplies
  <2>2. \A b : UnaryFunction(op, b) = "bvnot"
    BY <1>6 DEF UnaryFunction
  <2>3. FunctionSort("bvnot", ss) = s
    BY <1>1, <1>2, <2>1 DEF FunctionSort
  <2>. QED BY <2>2, <2>3, AppliedNames DEF ss
<1>. QED BY <1>3, <1>4, <1>5, <1>6

\* A unary operator of an operand that translates.
LEMMA UnaryTranslates ==
  ASSUME NEW vs, NEW n \in 0..MaxDepth, n # 0, NEW op \in UnaryOps, NEW d, NEW s,
         Translates(vs, n - 1, d, s), UnaryApplies(op, s)
  PROVE  Translates(vs, n, Unary(op, d), s)
<1>. DEFINE e == Unary(op, d)
            f == UnaryFunction(op, IsBitVecSort(s))
            c == Convert(vs, d)
            z == SerializeExpr(vs, d)
<1>1. /\ d \in ExpressionLevel[n - 1] /\ s \in VariableSort
      /\ c \in TermLevel[n - 1] /\ z \in TermLevel[n - 1]
      /\ TermSort(vs, c) = s
      /\ z = c \/ TermSort(vs, z) = IllSorted
      /\ IsBitVec(vs, d) \in BOOLEAN /\ IsReal(vs, d) \in BOOLEAN
      /\ IsBitVecSort(s) => IsBitVec(vs, d)
      /\ s \in {IntSort, RealSort, StringSort} => ~ IsBitVec(vs, d)
      /\ s = RealSort => IsReal(vs, d)
  BY DEF Translates
<1>2. e \in ExpressionLevel[n] /\ e \in Expression
  BY <1>1, ExpressionLevels DEF ExpressionsOver, UnaryNodes, Unary
<1>3. e.node = "Unary" /\ e.op = op /\ e.operand = d
  BY DEF Unary
<1>. HIDE DEF e
<1>4. Convert(vs, e) = App(f, <<c>>)
  BY <1>1, <1>2, <1>3, ConvertEquation
<1>5. SerializeExpr(vs, e) = App(UnaryFunction(op, IsBitVec(vs, d)), <<z>>)
  BY <1>2, <1>3, SerializeEquation
<1>6. UnaryFunction(op, IsBitVec(vs, d)) = f /\ f \in Applied /\ FunctionSort(f, <<s>>) = s
  <2>1. IsBitVecSort(s) \in BOOLEAN /\ (IsBitVecSort(s) => s \notin {IntSort, RealSort})
    BY SortCases DEF IsBitVecSort
  <2>2. f \in Applied /\ FunctionSort(f, <<s>>) = s
    BY <1>1, <2>1, UnaryFits
  <2>3. UnaryFunction(op, IsBitVec(vs, d)) = f
    BY <1>1, UnaryFits
  <2>. QED BY <2>2, <2>3
<1>7. IsBitVec(vs, e) = (op = "BvNot" \/ IsBitVec(vs, d))
  BY <1>2, <1>3, IsBitVecEquation
<1>8. IsReal(vs, e) = (op = "Neg" /\ IsReal(vs, d))
  BY <1>2, <1>3, IsRealEquation
<1>. HIDE DEF f, c, z
<1>9. App(f, <<c>>) \in TermLevel[n] /\ App(f, <<z>>) \in TermLevel[n]
  BY <1>1, <1>6, AppliedTerms
<1>10. TermSort(vs, App(f, <<c>>)) = s
  <2>1. c \in Term /\ App(f, <<c>>) \in Term
    BY <1>1, <1>6, AppliedTerms
  <2>2. TermSort(vs, App(f, <<c>>)) = FunctionSort(f, << TermSort(vs, c) >>)
    BY <1>6, <2>1, SortOfUnary
  <2>. QED BY <1>1, <1>6, <2>2
<1>11. z = c \/ TermSort(vs, App(f, <<z>>)) = IllSorted
  <2>1. z \in Term /\ App(f, <<z>>) \in Term
    BY <1>1, <1>6, AppliedTerms
  <2>2. TermSort(vs, App(f, <<z>>)) = FunctionSort(f, << TermSort(vs, z) >>)
    BY <1>6, <2>1, SortOfUnary
  <2>3. TermSort(vs, z) = IllSorted => FunctionSort(f, << TermSort(vs, z) >>) = IllSorted
    BY IllSortedArguments
  <2>. QED BY <1>1, <2>2, <2>3
<1>12. /\ IsBitVecSort(s) => IsBitVec(vs, e)
       /\ s \in {IntSort, RealSort, StringSort} => ~ IsBitVec(vs, e)
       /\ s = RealSort => IsReal(vs, e)
  <2>1. op = "BvNot" => IsBitVecSort(s)
    BY DEF UnaryApplies
  <2>2. s \in {IntSort, RealSort, StringSort} => ~ IsBitVecSort(s)
    BY SortCases
  <2>3. s = RealSort => op = "Neg"
    <3>1. op \in {"Not", "Neg", "BvNot"}
      BY DEF UnaryOps, UnarySymbol
    <3>2. op = "Not" => s = BoolSort
      BY DEF UnaryApplies
    <3>. QED BY <2>1, <2>2, <3>1, <3>2, SortCases
  <2>. QED BY <1>1, <1>7, <1>8, <2>1, <2>2, <2>3
<1>13. IsBitVec(vs, e) \in BOOLEAN /\ IsReal(vs, e) \in BOOLEAN
  BY <1>7, <1>8
<1>14. Convert(vs, e) \in TermLevel[n] /\ SerializeExpr(vs, e) \in TermLevel[n]
  BY <1>4, <1>5, <1>6, <1>9
<1>15. TermSort(vs, Convert(vs, e)) = s
  BY <1>4, <1>10
<1>16. SerializeExpr(vs, e) = Convert(vs, e) \/ TermSort(vs, SerializeExpr(vs, e)) = IllSorted
  BY <1>4, <1>5, <1>6, <1>11
<1>17. Translates(vs, n, e, s)
  BY <1>1, <1>2, <1>12, <1>13, <1>14, <1>15, <1>16 DEF Translates
<1>. QED BY <1>17 DEF e

\* A binary operator of operands that translate.
LEMMA BinaryTranslates ==
  ASSUME NEW vs, NEW n \in 0..MaxDepth, n # 0, NEW op \in BinaryOps, NEW d, NEW s, NEW g, NEW t,
         Translates(vs, n - 1, d, s), Translates(vs, n - 1, g, t), BinaryApplies(op, s, t)
  PROVE  Translates(vs, n, Binary(op, d, g), ResultSort(op, s))
<1>. DEFINE e == Binary(op, d, g)
            f == Z3Binary(op, IsBitVecSort(s))
            h == InTables(op, IsBitVec(vs, d), SerializedBitVec, SerializedArithmetic(IsReal(vs, d)))
            c == Convert(vs, d)
            k == Convert(vs, g)
            z == SerializeExpr(vs, d)
            y == SerializeExpr(vs, g)
            r == ResultSort(op, s)
<1>1. /\ d \in ExpressionLevel[n - 1] /\ s \in VariableSort
      /\ c \in TermLevel[n - 1] /\ z \in TermLevel[n - 1]
      /\ TermSort(vs, c) = s
      /\ z = c \/ TermSort(vs, z) = IllSorted
      /\ IsBitVec(vs, d) \in BOOLEAN /\ IsReal(vs, d) \in BOOLEAN
      /\ IsBitVecSort(s) => IsBitVec(vs, d)
      /\ s \in {IntSort, RealSort, StringSort} => ~ IsBitVec(vs, d)
      /\ s = RealSort => IsReal(vs, d)
  BY DEF Translates
<1>2. /\ g \in ExpressionLevel[n - 1] /\ t \in VariableSort
      /\ k \in TermLevel[n - 1] /\ y \in TermLevel[n - 1]
      /\ TermSort(vs, k) = t
      /\ y = k \/ TermSort(vs, y) = IllSorted
  BY DEF Translates
<1>3. e \in ExpressionLevel[n] /\ e \in Expression
  BY <1>1, <1>2, ExpressionLevels DEF ExpressionsOver, BinaryNodes, Binary
<1>4. e.node = "Binary" /\ e.op = op /\ e.lhs = d /\ e.rhs = g
  BY DEF Binary
<1>. HIDE DEF e
<1>5. Convert(vs, e) = App(f, <<c, k>>)
  BY <1>1, <1>3, <1>4, ConvertEquation
<1>6. SerializeExpr(vs, e) = App(h, <<z, y>>)
  BY <1>3, <1>4, SerializeEquation
<1>7. s = t /\ f \in Applied /\ FunctionSort(f, <<s, t>>) = r /\ r \in VariableSort
  BY <1>1, <1>2, ConvertedBinaryFits
<1>8. h \in Applied /\ (h = f \/ FunctionSort(h, <<s, s>>) = IllSorted)
  <2>1. BinaryApplies(op, s, s)
    BY <1>7
  <2>. QED BY <1>1, <2>1, SerializedBinaryFits
<1>9. IsBitVec(vs, e) = (op \in {"BvAnd", "BvOr", "BvXor", "BvShl", "BvShr"} \/ IsBitVec(vs, d))
  BY <1>3, <1>4, IsBitVecEquation
<1>10. IsReal(vs, e) = IsReal(vs, d)
  BY <1>3, <1>4, IsRealEquation
<1>. HIDE DEF f, h, c, k, z, y
<1>11. App(f, <<c, k>>) \in TermLevel[n] /\ App(h, <<z, y>>) \in TermLevel[n]
  BY <1>1, <1>2, <1>7, <1>8, AppliedTerms
<1>12. TermSort(vs, App(f, <<c, k>>)) = r
  <2>1. c \in Term /\ k \in Term /\ App(f, <<c, k>>) \in Term
    BY <1>1, <1>2, <1>7, AppliedTerms
  <2>2. TermSort(vs, App(f, <<c, k>>)) = FunctionSort(f, << TermSort(vs, c), TermSort(vs, k) >>)
    BY <1>7, <2>1, SortOfBinary
  <2>. QED BY <1>1, <1>2, <1>7, <2>2
<1>13. App(h, <<z, y>>) = App(f, <<c, k>>) \/ TermSort(vs, App(h, <<z, y>>)) = IllSorted
  <2>1. z \in Term /\ y \in Term /\ App(h, <<z, y>>) \in Term
    BY <1>1, <1>2, <1>8, AppliedTerms
  <2>2. TermSort(vs, App(h, <<z, y>>)) = FunctionSort(h, << TermSort(vs, z), TermSort(vs, y) >>)
    BY <1>8, <2>1, SortOfBinary
  <2>3. TermSort(vs, z) = IllSorted \/ TermSort(vs, y) = IllSorted =>
          FunctionSort(h, << TermSort(vs, z), TermSort(vs, y) >>) = IllSorted
    BY IllSortedArguments
  <2>4. CASE z = c /\ y = k
    BY <1>1, <1>2, <1>7, <1>8, <2>2, <2>4
  <2>. QED BY <1>1, <1>2, <2>2, <2>3, <2>4
<1>14. /\ IsBitVecSort(r) => IsBitVec(vs, e)
       /\ r \in {IntSort, RealSort, StringSort} => ~ IsBitVec(vs, e)
       /\ r = RealSort => IsReal(vs, e)
  <2>1. CASE r = BoolSort
    BY <2>1, SortCases
  <2>2. CASE r # BoolSort
    <3>1. r = s
      BY <2>2 DEF ResultSort
    <3>2. op \in {"BvAnd", "BvOr", "BvXor", "BvShl", "BvShr"} => IsBitVecSort(s)
      BY DEF BinaryApplies
    <3>3. r \in {IntSort, RealSort, StringSort} => ~ IsBitVecSort(r)
      BY SortCases
    <3>. QED BY <1>1, <1>9, <1>10, <3>1, <3>2, <3>3
  <2>. QED BY <2>1, <2>2
<1>15. IsBitVec(vs, e) \in BOOLEAN /\ IsReal(vs, e) \in BOOLEAN
  BY <1>1, <1>9, <1>10
<1>16. Convert(vs, e) \in TermLevel[n] /\ SerializeExpr(vs, e) \in TermLevel[n]
  BY <1>5, <1>6, <1>11
<1>17. TermSort(vs, Convert(vs, e)) = r
  BY <1>5, <1>12
<1>18. SerializeExpr(vs, e) = Convert(vs, e) \/ TermSort(vs, SerializeExpr(vs, e)) = IllSorted
  BY <1>5, <1>6, <1>13
<1>. HIDE DEF r
<1>19. Translates(vs, n, e, r)
  BY <1>3, <1>7, <1>14, <1>15, <1>16, <1>17, <1>18 DEF Translates
<1>. QED BY <1>19 DEF e, r

\* What resolveNode makes of a unary node it accepts.
LEMMA AcceptedUnary ==
  ASSUME NEW op, NEW operand, ResolveUnary(op, operand).ok
  PROVE  /\ operand.ok /\ UnaryApplies(op, operand.sort)
         /\ ResolveUnary(op, operand) = Resolved(Unary(op, operand.expr), operand.sort)
BY DEF ResolveUnary, Rejected

\* What resolveNode makes of a binary node it accepts: both operands passed, and
\* the operator applies to them as they are after literals have adapted.
LEMMA AcceptedBinary ==
  ASSUME NEW op, NEW left, NEW right, ResolveBinary(op, left, right).ok
  PROVE  LET l == CoerceSide(left, right)
             r == CoerceSide(right, l)
         IN /\ left.ok /\ right.ok /\ l.ok /\ r.ok /\ BinaryApplies(op, l.sort, r.sort)
            /\ ResolveBinary(op, left, right) = Resolved(Binary(op, l.expr, r.expr), ResultSort(op, l.sort))
BY DEF ResolveBinary, Rejected

\* The trees of n + 1 levels that translate once they are resolved.
Translated(vs, n) ==
  { e \in ExpressionLevel[n] :
      ResolveNode(vs, e).ok => Translates(vs, n, ResolveNode(vs, e).expr, ResolveNode(vs, e).sort) }

\* One more operator.
LEMMA AcceptedNode ==
  ASSUME NEW vs \in Environment, NEW n \in 0..MaxDepth, NEW e \in ExpressionLevel[n],
         e \in ExpressionsOver(IF n = 0 THEN {} ELSE Translated(vs, n - 1)), ResolveNode(vs, e).ok
  PROVE  Translates(vs, n, ResolveNode(vs, e).expr, ResolveNode(vs, e).sort)
<1>. DEFINE S == IF n = 0 THEN {} ELSE Translated(vs, n - 1)
<1>1. e \in Expression
  BY ExpressionLevels
<1>2. \A x, s : Resolved(x, s).expr = x /\ Resolved(x, s).sort = s
  BY DEF Resolved
<1>3. CASE e \in LeafNodes /\ e.node = "Constant"
  <2>1. ResolveNode(vs, e) = Resolved(e, ConstantSort(e))
    BY <1>1, <1>3, ResolveNodeEquation
  <2>. QED BY <1>2, <1>3, <2>1, ConstantTranslates
<1>4. CASE e \in LeafNodes /\ e.node = "VariableRef"
  <2>1. ResolveNode(vs, e) = IF e.name \in DeclaredNames(vs)
                             THEN Resolved(e, SortOfVariable(vs, e.name)) ELSE Rejected
    BY <1>1, <1>4, ResolveNodeEquation
  <2>2. ~ Rejected.ok
    BY DEF Rejected
  <2>3. e.name \in DeclaredNames(vs) /\ ResolveNode(vs, e) = Resolved(e, SortOfVariable(vs, e.name))
    BY <2>1, <2>2
  <2>. QED BY <1>2, <1>4, <2>3, VariableTranslates
<1>5. CASE e \in UnaryNodes(S)
  <2>. DEFINE d == ResolveNode(vs, e.operand)
  <2>1. e.node = "Unary" /\ e.op \in UnaryOps /\ e.operand \in S
    BY <1>5 DEF UnaryNodes
  <2>2. n # 0 /\ e.operand \in Translated(vs, n - 1)
    BY <2>1
  <2>3. ResolveNode(vs, e) = ResolveUnary(e.op, d)
    BY <1>1, <2>1, ResolveNodeEquation
  <2>4. d.ok /\ UnaryApplies(e.op, d.sort) /\ ResolveNode(vs, e) = Resolved(Unary(e.op, d.expr), d.sort)
    BY <2>3, AcceptedUnary
  <2>5. Translates(vs, n - 1, d.expr, d.sort)
    BY <2>2, <2>4 DEF Translated
  <2>. HIDE DEF d
  <2>6. Translates(vs, n, Unary(e.op, d.expr), d.sort)
    BY <2>1, <2>2, <2>4, <2>5, UnaryTranslates
  <2>. QED BY <1>2, <2>4, <2>6
<1>6. CASE e \in BinaryNodes(S)
  <2>. DEFINE left  == ResolveNode(vs, e.lhs)
              right == ResolveNode(vs, e.rhs)
              l == CoerceSide(left, right)
              r == CoerceSide(right, l)
  <2>1. e.node = "Binary" /\ e.op \in BinaryOps /\ e.lhs \in S /\ e.rhs \in S
    BY <1>6 DEF BinaryNodes
  <2>2. n # 0 /\ e.lhs \in Translated(vs, n - 1) /\ e.rhs \in Translated(vs, n - 1)
    BY <2>1
  <2>3. n - 1 \in 0..MaxDepth
    BY <2>2, DepthAssumption
  <2>4. ResolveNode(vs, e) = ResolveBinary(e.op, left, right)
    BY <1>1, <2>1, ResolveNodeEquation
  <2>5. /\ left.ok /\ right.ok /\ l.ok /\ r.ok /\ BinaryApplies(e.op, l.sort, r.sort)
        /\ ResolveNode(vs, e) = Resolved(Binary(e.op, l.expr, r.expr), ResultSort(e.op, l.sort))
    BY <2>4, AcceptedBinary
  <2>6. /\ Translates(vs, n - 1, left.expr, left.sort)
        /\ Translates(vs, n - 1, right.expr, right.sort)
    BY <2>2, <2>5 DEF Translated
  <2>. HIDE DEF left, right
  <2>7. left.sort \in VariableSort /\ right.sort \in VariableSort
    BY <2>6 DEF Translates
  <2>8. Translates(vs, n - 1, l.expr, l.sort)
    BY <2>3, <2>5, <2>6, <2>7, CoercionTranslates
  <2>9. l.sort \in VariableSort
    BY <2>8 DEF Translates
  <2>. HIDE DEF l
  <2>10. Translates(vs, n - 1, r.expr, r.sort)
    BY <2>3, <2>5, <2>6, <2>9, CoercionTranslates
  <2>. HIDE DEF r
  <2>11. Translates(vs, n, Binary(e.op, l.expr, r.expr), ResultSort(e.op, l.sort))
    BY <2>1, <2>2, <2>5, <2>8, <2>10, BinaryTranslates
  <2>. QED BY <1>2, <2>5, <2>11
<1>7. e \in LeafNodes \/ e \in UnaryNodes(S) \/ e \in BinaryNodes(S)
  BY DEF ExpressionsOver
<1>8. e \in LeafNodes => e.node \in {"Constant", "VariableRef"}
  BY DEF LeafNodes, ConstantsOf
<1>. QED BY <1>3, <1>4, <1>5, <1>6, <1>7, <1>8

\* Every tree the analyzer accepts translates, by induction on its levels.
THEOREM AcceptedTranslates ==
  ASSUME NEW vs \in Environment, NEW e \in Expression, ResolveNode(vs, e).ok
  PROVE  Translates(vs, MaxDepth, ResolveNode(vs, e).expr, ResolveNode(vs, e).sort)
<1>. DEFINE S == [n \in Nat |-> Translated(vs, n)]
<1>1. Resolving!GrowsMonotonely
  BY ExpressionsGrow DEF Resolving!GrowsMonotonely
<1>2. ExpressionLevel = Resolving!Level
  BY DEF ExpressionLevel, Resolving!Level, Resolving!GrowLevel
<1>3. ASSUME NEW n \in 0..MaxDepth, NEW d \in ExpressionLevel[n],
             d \in ExpressionsOver(IF n = 0 THEN {} ELSE S[n - 1])
      PROVE  d \in S[n]
  <2>1. n \in Nat /\ (n # 0 => n - 1 \in Nat)
    BY <1>3, DepthAssumption
  <2>2. (IF n = 0 THEN {} ELSE S[n - 1]) = IF n = 0 THEN {} ELSE Translated(vs, n - 1)
    BY <2>1
  <2>3. d \in ExpressionsOver(IF n = 0 THEN {} ELSE Translated(vs, n - 1))
    BY <1>3, <2>2
  <2>4. ResolveNode(vs, d).ok => Translates(vs, n, ResolveNode(vs, d).expr, ResolveNode(vs, d).sort)
    BY <1>3, <2>3, AcceptedNode
  <2>5. d \in Translated(vs, n)
    BY <1>3, <2>4 DEF Translated
  <2>. QED BY <2>1, <2>5
<1>. HIDE DEF S
<1>4. \A n \in 0..MaxDepth : ExpressionLevel[n] \subseteq S[n]
  BY <1>1, <1>2, <1>3, DepthAssumption, Resolving!TreeInduction
<1>5. e \in S[MaxDepth]
  BY <1>4, DepthAssumption DEF Expression
<1>6. e \in Translated(vs, MaxDepth)
  BY <1>5, DepthAssumption DEF S
<1>. QED BY <1>6 DEF Translated

-----------------------------------------------------------------------------
(* What the analyzer leaves alone.                                          *)

\* The trees of which the analyzer alters nothing but the widths of literals.
Preserved(vs) ==
  { e \in Expression : ResolveNode(vs, e).ok => Plain(ResolveNode(vs, e).expr) = Plain(e) }

\* An integer literal among the expressions.
LEMMA IntegerLiteral ==
  ASSUME NEW e \in Expression, IsIntLiteral(e)
  PROVE  Plain(e) = Integer(e.value)
<1>1. e.node = "Constant" /\ e.kind = "Int"
  BY DEF IsIntLiteral
<1>2. e \in ExpressionsOver(Expression)
  BY ExpressionNodes
<1>3. e \in LeafNodes
  BY <1>1, <1>2 DEF ExpressionsOver, UnaryNodes, BinaryNodes
<1>4. e \in ConstantsOf("Int", Int, {0}, {""})
  BY <1>1, <1>3 DEF LeafNodes, ConstantsOf
<1>5. e = Integer(e.value)
  BY <1>4 DEF ConstantsOf, Integer, Constant
<1>6. Plain(e) = e
  BY <1>1, PlainEquation
<1>. QED BY <1>5, <1>6

\* coerceSide gives a literal a width and keeps its value.
LEMMA CoercionPreserves ==
  ASSUME NEW side, NEW other, side.expr \in Expression, CoerceSide(side, other).ok,
         CoerceSide(side, other).expr \in Expression
  PROVE  Plain(CoerceSide(side, other).expr) = Plain(side.expr)
<1>. DEFINE c == CoerceSide(side, other)
            literal == BitVector(side.expr.value, other.sort.width)
<1>1. CASE ~ IsBitVecSort(other.sort) \/ side.sort # IntSort \/ ~ IsIntLiteral(side.expr)
  <2>1. c = side
    BY <1>1 DEF CoerceSide
  <2>. QED BY <2>1
<1>2. CASE IsBitVecSort(other.sort) /\ side.sort = IntSort /\ IsIntLiteral(side.expr)
  <2>1. c = IF side.expr.value < 0 \/ side.expr.value > 2 ^ other.sort.width - 1
            THEN Rejected ELSE Resolved(literal, other.sort)
    BY <1>2 DEF CoerceSide
  <2>2. ~ Rejected.ok
    BY DEF Rejected
  <2>3. c.expr = literal
    BY <2>1, <2>2 DEF Resolved
  <2>4. literal.node = "Constant" /\ literal.kind = "BitVec" /\ literal.value = side.expr.value
    BY DEF BitVector, Constant
  <2>5. literal \in Expression
    BY <2>3
  <2>. HIDE DEF literal, c
  <2>6. Plain(literal) = Integer(side.expr.value)
    BY <2>4, <2>5, PlainEquation
  <2>7. Plain(side.expr) = Integer(side.expr.value)
    BY <1>2, IntegerLiteral
  <2>8. Plain(c.expr) = Plain(side.expr)
    BY <2>3, <2>6, <2>7
  <2>. QED BY <2>8 DEF c
<1>. QED BY <1>1, <1>2

\* One more operator.
LEMMA PreservedNode ==
  ASSUME NEW vs \in Environment, NEW e \in Expression, e \in ExpressionsOver(Preserved(vs)),
         ResolveNode(vs, e).ok
  PROVE  Plain(ResolveNode(vs, e).expr) = Plain(e)
<1>. DEFINE S == Preserved(vs)
<1>1. \A x, s : Resolved(x, s).expr = x /\ Resolved(x, s).sort = s
  BY DEF Resolved
<1>2. ResolveNode(vs, e).expr \in Expression
  BY AcceptedTranslates DEF Translates, Expression
<1>3. CASE e \in LeafNodes /\ e.node = "Constant"
  <2>1. ResolveNode(vs, e) = Resolved(e, ConstantSort(e))
    BY <1>3, ResolveNodeEquation
  <2>. QED BY <1>1, <2>1
<1>4. CASE e \in LeafNodes /\ e.node = "VariableRef"
  <2>1. ResolveNode(vs, e) = IF e.name \in DeclaredNames(vs)
                             THEN Resolved(e, SortOfVariable(vs, e.name)) ELSE Rejected
    BY <1>4, ResolveNodeEquation
  <2>2. ~ Rejected.ok
    BY DEF Rejected
  <2>3. ResolveNode(vs, e) = Resolved(e, SortOfVariable(vs, e.name))
    BY <2>1, <2>2
  <2>. QED BY <1>1, <2>3
<1>5. CASE e \in UnaryNodes(S)
  <2>. DEFINE d == ResolveNode(vs, e.operand)
              u == Unary(e.op, d.expr)
  <2>1. e.node = "Unary" /\ e.operand \in Preserved(vs)
    BY <1>5 DEF UnaryNodes
  <2>2. ResolveNode(vs, e) = ResolveUnary(e.op, d)
    BY <2>1, ResolveNodeEquation
  <2>3. d.ok /\ ResolveNode(vs, e) = Resolved(u, d.sort)
    BY <2>2, AcceptedUnary
  <2>4. Plain(d.expr) = Plain(e.operand)
    BY <2>1, <2>3 DEF Preserved
  <2>5. u \in Expression /\ ResolveNode(vs, e).expr = u
    BY <1>1, <1>2, <2>3
  <2>. HIDE DEF d
  <2>6. u.node = "Unary" /\ u.op = e.op /\ u.operand = d.expr
    BY DEF Unary
  <2>. HIDE DEF u
  <2>7. Plain(u) = Unary(e.op, Plain(d.expr))
    BY <2>5, <2>6, PlainEquation
  <2>8. Plain(e) = Unary(e.op, Plain(e.operand))
    BY <2>1, PlainEquation
  <2>. QED BY <2>4, <2>5, <2>7, <2>8
<1>6. CASE e \in BinaryNodes(S)
  <2>. DEFINE left  == ResolveNode(vs, e.lhs)
              right == ResolveNode(vs, e.rhs)
              l == CoerceSide(left, right)
              r == CoerceSide(right, l)
              b == Binary(e.op, l.expr, r.expr)
  <2>1. e.node = "Binary" /\ e.lhs \in Preserved(vs) /\ e.rhs \in Preserved(vs)
    BY <1>6 DEF BinaryNodes
  <2>2. ResolveNode(vs, e) = ResolveBinary(e.op, left, right)
    BY <2>1, ResolveNodeEquation
  <2>3. /\ left.ok /\ right.ok /\ l.ok /\ r.ok
        /\ ResolveNode(vs, e) = Resolved(b, ResultSort(e.op, l.sort))
    BY <2>2, AcceptedBinary
  <2>4. e.lhs \in Expression /\ e.rhs \in Expression
    BY <2>1 DEF Preserved
  <2>5. /\ Translates(vs, MaxDepth, left.expr, left.sort)
        /\ Translates(vs, MaxDepth, right.expr, right.sort)
    BY <2>3, <2>4, AcceptedTranslates
  <2>6. Plain(left.expr) = Plain(e.lhs) /\ Plain(right.expr) = Plain(e.rhs)
    BY <2>1, <2>3 DEF Preserved
  <2>7. b \in Expression /\ ResolveNode(vs, e).expr = b
    BY <1>1, <1>2, <2>3
  <2>. HIDE DEF left, right
  <2>8. left.sort \in VariableSort /\ right.sort \in VariableSort /\ MaxDepth \in 0..MaxDepth
    BY <2>5, DepthAssumption DEF Translates
  <2>9. Translates(vs, MaxDepth, l.expr, l.sort)
    BY <2>3, <2>5, <2>8, CoercionTranslates
  <2>10. l.sort \in VariableSort
    BY <2>9 DEF Translates
  <2>11. left.expr \in Expression /\ right.expr \in Expression /\ l.expr \in Expression
    BY <2>5, <2>9 DEF Translates, Expression
  <2>12. Plain(l.expr) = Plain(left.expr)
    BY <2>3, <2>11, CoercionPreserves
  <2>. HIDE DEF l
  <2>13. Translates(vs, MaxDepth, r.expr, r.sort)
    BY <2>3, <2>5, <2>8, <2>10, CoercionTranslates
  <2>14. r.expr \in Expression
    BY <2>13 DEF Translates, Expression
  <2>15. Plain(r.expr) = Plain(right.expr)
    BY <2>3, <2>11, <2>14, CoercionPreserves
  <2>. HIDE DEF r
  <2>16. b.node = "Binary" /\ b.op = e.op /\ b.lhs = l.expr /\ b.rhs = r.expr
    BY DEF Binary
  <2>. HIDE DEF b
  <2>17. Plain(b) = Binary(e.op, Plain(l.expr), Plain(r.expr))
    BY <2>7, <2>16, PlainEquation
  <2>18. Plain(e) = Binary(e.op, Plain(e.lhs), Plain(e.rhs))
    BY <2>1, PlainEquation
  <2>. QED BY <2>6, <2>7, <2>12, <2>15, <2>17, <2>18
<1>7. e \in LeafNodes \/ e \in UnaryNodes(S) \/ e \in BinaryNodes(S)
  BY DEF ExpressionsOver
<1>8. e \in LeafNodes => e.node \in {"Constant", "VariableRef"}
  BY DEF LeafNodes, ConstantsOf
<1>. QED BY <1>3, <1>4, <1>5, <1>6, <1>7, <1>8

\* The analyzer drops and alters nothing of a tree but the widths of literals,
\* by induction on its levels.
THEOREM AcceptedIsPreserved ==
  ASSUME NEW vs \in Environment, NEW e \in Expression, ResolveNode(vs, e).ok
  PROVE  Plain(ResolveNode(vs, e).expr) = Plain(e)
<1>. DEFINE S == [n \in Nat |-> Preserved(vs)]
<1>1. Resolving!GrowsMonotonely
  BY ExpressionsGrow DEF Resolving!GrowsMonotonely
<1>2. ExpressionLevel = Resolving!Level
  BY DEF ExpressionLevel, Resolving!Level, Resolving!GrowLevel
<1>3. ASSUME NEW n \in 0..MaxDepth, NEW d \in ExpressionLevel[n],
             d \in ExpressionsOver(IF n = 0 THEN {} ELSE S[n - 1])
      PROVE  d \in S[n]
  <2>1. n \in Nat /\ (n # 0 => n - 1 \in Nat)
    BY <1>3, DepthAssumption
  <2>2. (IF n = 0 THEN {} ELSE S[n - 1]) \subseteq Preserved(vs)
    BY <2>1
  <2>3. d \in ExpressionsOver(Preserved(vs))
    BY <1>3, <2>2, ExpressionsGrow
  <2>4. d \in Expression
    BY <1>3, ExpressionLevels
  <2>5. d \in Preserved(vs)
    BY <2>3, <2>4, PreservedNode DEF Preserved
  <2>. QED BY <2>1, <2>5
<1>. HIDE DEF S
<1>4. \A n \in 0..MaxDepth : ExpressionLevel[n] \subseteq S[n]
  BY <1>1, <1>2, <1>3, DepthAssumption, Resolving!TreeInduction
<1>5. e \in S[MaxDepth]
  BY <1>4, DepthAssumption DEF Expression
<1>6. e \in Preserved(vs)
  BY <1>5, DepthAssumption DEF S
<1>. QED BY <1>6 DEF Preserved

-----------------------------------------------------------------------------
(* The problem on its way.                                                  *)

\* Every constraint of the problem in the editor is a Boolean one the analyzer
\* has accepted.
ProblemIsAccepted ==
  problem # Nothing =>
    /\ problem.variables \in Environment
    /\ problem.constraints \in Seq(Expression)
    /\ \A i \in DOMAIN problem.constraints :
         Translates(problem.variables, MaxDepth, problem.constraints[i], BoolSort)

\* The solver was asked the constraints of that problem.
QueryIsConverted ==
  query # Nothing =>
    /\ problem # Nothing
    /\ query = [i \in DOMAIN problem.constraints |->
                  Convert(problem.variables, problem.constraints[i])]

\* The file, if the program wrote it, says that problem.
FileIsExported ==
  exported # Nothing =>
    problem # Nothing /\ exported = problem /\ document = SerializeProblem(problem)

\* The problem is what the analyzer made of a parsed text.
ProblemIsRebuilt ==
  problem # Nothing =>
    /\ source \in TypedTexts
    /\ RebuildProgram(Parse(source)).ok
    /\ problem = Contents(RebuildProgram(Parse(source)))

\* Under the problem's variables, these constraints are rebuilt to the problem.
RebuildsFrom(constraints) ==
  LET rebuilt == RebuildProgram([variables |-> problem.variables, constraints |-> constraints, ok |-> TRUE])
  IN rebuilt.ok /\ Contents(rebuilt) = problem

Inv == ProblemIsAccepted /\ ProblemIsRebuilt /\ QueryIsConverted /\ FileIsExported

\* resolve lets only Booleans pass (SemanticAnalyzer.cpp 352-371).
LEMMA ResolvedConstraint ==
  ASSUME NEW vs \in Environment, NEW e \in Expression, Resolve(vs, e).ok
  PROVE  Translates(vs, MaxDepth, Resolve(vs, e).expr, BoolSort)
<1>1. ~ Rejected.ok
  BY DEF Rejected
<1>2. ResolveNode(vs, e).ok /\ ResolveNode(vs, e).sort = BoolSort /\ Resolve(vs, e) = ResolveNode(vs, e)
  BY <1>1 DEF Resolve
<1>. QED BY <1>2, AcceptedTranslates

\* What rebuildProblemFromSource makes of a parsed text.
LEMMA RebuiltProgram ==
  ASSUME NEW program \in Program, RebuildProgram(program).ok
  PROVE  LET p == Contents(RebuildProgram(program))
         IN /\ p.variables \in Environment
            /\ p.constraints \in Seq(Expression)
            /\ \A i \in DOMAIN p.constraints : Translates(p.variables, MaxDepth, p.constraints[i], BoolSort)
<1>. DEFINE vs == program.variables
            cs == program.constraints
            resolved == [i \in DOMAIN cs |-> Resolve(vs, cs[i])]
            p == Contents(RebuildProgram(program))
<1>1. vs \in Environment /\ cs \in Seq(Expression)
  BY DEF Program
<1>2. DOMAIN cs = 1..Len(cs) /\ Len(cs) \in Nat /\ \A i \in DOMAIN cs : cs[i] \in Expression
  BY <1>1
<1>3. RebuildProgram(program) = Rebuilt(program, resolved)
  BY DEF RebuildProgram
<1>. HIDE DEF resolved
<1>4. /\ \A i \in DOMAIN resolved : resolved[i].ok
      /\ Rebuilt(program, resolved) = [ok |-> TRUE, variables |-> vs,
                                       constraints |-> [i \in DOMAIN resolved |-> resolved[i].expr]]
  BY <1>3 DEF Rebuilt, NotRebuilt
<1>5. p.variables = vs /\ p.constraints = [i \in DOMAIN resolved |-> resolved[i].expr]
  BY <1>3, <1>4 DEF Contents
<1>6. DOMAIN resolved = DOMAIN cs /\ \A i \in DOMAIN cs : resolved[i] = Resolve(vs, cs[i])
  BY DEF resolved
<1>. HIDE DEF vs, cs, p
<1>7. \A i \in DOMAIN cs : Translates(vs, MaxDepth, Resolve(vs, cs[i]).expr, BoolSort)
  BY <1>1, <1>2, <1>4, <1>6, ResolvedConstraint
<1>8. DOMAIN p.constraints = DOMAIN cs /\ \A i \in DOMAIN cs : p.constraints[i] = Resolve(vs, cs[i]).expr
  BY <1>5, <1>6
<1>9. \A i \in DOMAIN cs : p.constraints[i] \in Expression
  BY <1>7, <1>8 DEF Translates, Expression
<1>10. p.constraints \in Seq(Expression)
  <2>1. p.constraints = [i \in 1..Len(cs) |-> p.constraints[i]]
    BY <1>2, <1>5, <1>6
  <2>. QED BY <1>2, <1>9, <2>1
<1>11. /\ p.variables \in Environment
       /\ p.constraints \in Seq(Expression)
       /\ \A i \in DOMAIN p.constraints : Translates(p.variables, MaxDepth, p.constraints[i], BoolSort)
  BY <1>1, <1>5, <1>7, <1>8, <1>10
<1>. QED BY <1>11 DEF p

\* What is rebuilt says what was parsed.
LEMMA RebuiltSays ==
  ASSUME NEW program \in Program, RebuildProgram(program).ok,
         WithoutWidths(program.constraints) = program.constraints
  PROVE  LET p == Contents(RebuildProgram(program))
         IN /\ p.variables = program.variables
            /\ WithoutWidths(p.constraints) = program.constraints
<1>. DEFINE vs == program.variables
            cs == program.constraints
            resolved == [i \in DOMAIN cs |-> Resolve(vs, cs[i])]
            p == Contents(RebuildProgram(program))
<1>1. vs \in Environment /\ cs \in Seq(Expression)
  BY DEF Program
<1>2. \A i \in DOMAIN cs : cs[i] \in Expression
  BY <1>1
<1>3. RebuildProgram(program) = Rebuilt(program, resolved)
  BY DEF RebuildProgram
<1>. HIDE DEF resolved
<1>4. /\ \A i \in DOMAIN resolved : resolved[i].ok
      /\ Rebuilt(program, resolved) = [ok |-> TRUE, variables |-> vs,
                                       constraints |-> [i \in DOMAIN resolved |-> resolved[i].expr]]
  BY <1>3 DEF Rebuilt, NotRebuilt
<1>5. p.variables = vs /\ p.constraints = [i \in DOMAIN resolved |-> resolved[i].expr]
  BY <1>3, <1>4 DEF Contents
<1>6. DOMAIN resolved = DOMAIN cs /\ \A i \in DOMAIN cs : resolved[i] = Resolve(vs, cs[i])
  BY DEF resolved
<1>7. cs = [i \in DOMAIN cs |-> Plain(cs[i])]
  BY DEF WithoutWidths
<1>. HIDE DEF vs, cs, p
<1>8. \A i \in DOMAIN cs : ResolveNode(vs, cs[i]).ok /\ Resolve(vs, cs[i]) = ResolveNode(vs, cs[i])
  BY <1>4, <1>6 DEF Resolve, Rejected
<1>9. DOMAIN p.constraints = DOMAIN cs /\ \A i \in DOMAIN cs : p.constraints[i] = ResolveNode(vs, cs[i]).expr
  BY <1>5, <1>6, <1>8
<1>10. \A i \in DOMAIN cs : Plain(p.constraints[i]) = Plain(cs[i])
  BY <1>1, <1>2, <1>8, <1>9, AcceptedIsPreserved
<1>11. WithoutWidths(p.constraints) = cs
  BY <1>7, <1>9, <1>10 DEF WithoutWidths
<1>. QED BY <1>5, <1>11 DEF p, cs, vs

\* The invariant holds before anything is typed, sent or written.
LEMMA InvInit == Init => Inv
BY DEF Init, Inv, ProblemIsAccepted, ProblemIsRebuilt, QueryIsConverted, FileIsExported

\* Every step keeps the invariant: a text is typed before the problem is solved
\* or exported, and never again.
LEMMA InvNext == Inv /\ [Next]_vars => Inv'
<1>. SUFFICES ASSUME Inv, [Next]_vars PROVE Inv'
  OBVIOUS
<1>. USE DEF Inv, ProblemIsAccepted, ProblemIsRebuilt, QueryIsConverted, FileIsExported
<1>1. ASSUME NEW text \in TypedTexts, TypeText(text) PROVE Inv'
  <2>1. query = Nothing /\ exported = Nothing /\ query' = Nothing /\ exported' = Nothing
    BY <1>1 DEF TypeText
  <2>2. Parse(text) \in Program
    BY ParserAssumption
  <2>3. /\ RebuildProgram(Parse(text)).ok /\ problem' = Contents(RebuildProgram(Parse(text)))
        /\ source' = text
    BY <1>1 DEF TypeText
  <2>4. ProblemIsAccepted'
    BY <2>2, <2>3, RebuiltProgram
  <2>5. ProblemIsRebuilt'
    BY <2>3
  <2>. QED BY <2>1, <2>4, <2>5
<1>2. ASSUME NEW script \in ForeignScripts, ReceiveDocument(script) PROVE Inv'
  BY <1>2 DEF ReceiveDocument
<1>3. CASE Solve
  BY <1>3 DEF Solve
<1>4. CASE ExportProblem
  BY <1>4 DEF ExportProblem
<1>5. CASE ImportSmtLib2
  BY <1>5 DEF ImportSmtLib2
<1>6. CASE UNCHANGED vars
  BY <1>6 DEF vars
<1>. QED BY <1>1, <1>2, <1>3, <1>4, <1>5, <1>6 DEF Next

\* In every reachable state the problem, the query and the file are related.
LEMMA InvHolds == Spec => []Inv
BY InvInit, InvNext, PTL DEF Spec

\* A problem is what its text says, but for the widths of literals.
THEOREM ContentsFollowSource == Spec => []ContentsSaySource
<1>1. Inv => ContentsSaySource
  <2>1. SUFFICES ASSUME Inv, problem # Nothing
                 PROVE  /\ problem.variables = Parse(source).variables
                        /\ WithoutWidths(problem.constraints) = Parse(source).constraints
    BY DEF ContentsSaySource
  <2>2. /\ source \in TypedTexts /\ RebuildProgram(Parse(source)).ok
        /\ problem = Contents(RebuildProgram(Parse(source)))
    BY <2>1 DEF Inv, ProblemIsRebuilt
  <2>3. Parse(source) \in Program /\ WithoutWidths(Parse(source).constraints) = Parse(source).constraints
    BY <2>2, ParserAssumption
  <2>. QED BY <2>2, <2>3, RebuiltSays
<1>. QED BY <1>1, InvHolds, PTL

\* The text restores the problem: a text that says no more than the problem does,
\* as the printer's, which writes no widths, is analyzed to the very same one.
THEOREM TextRestoresContents ==
  Spec => [](problem # Nothing => RebuildsFrom(WithoutWidths(problem.constraints)))
<1>1. Inv => (problem # Nothing => RebuildsFrom(WithoutWidths(problem.constraints)))
  <2>1. SUFFICES ASSUME Inv, problem # Nothing PROVE RebuildsFrom(WithoutWidths(problem.constraints))
    OBVIOUS
  <2>. DEFINE program == Parse(source)
  <2>2. /\ source \in TypedTexts /\ RebuildProgram(program).ok
        /\ problem = Contents(RebuildProgram(program))
    BY <2>1 DEF Inv, ProblemIsRebuilt
  <2>3. program \in Program /\ WithoutWidths(program.constraints) = program.constraints
    BY <2>2, ParserAssumption
  <2>4. problem.variables = program.variables /\ WithoutWidths(problem.constraints) = program.constraints
    BY <2>2, <2>3, RebuiltSays
  <2>. HIDE DEF program
  <2>5. program.ok
    BY <2>2 DEF RebuildProgram, Rebuilt, NotRebuilt
  <2>6. program = [variables |-> program.variables, constraints |-> program.constraints, ok |-> TRUE]
    BY <2>3, <2>5 DEF Program
  <2>. QED BY <2>2, <2>4, <2>6 DEF RebuildsFrom
<1>. QED BY <1>1, InvHolds, PTL

\* Z3 never throws on a problem that validated: whatever the analyzer accepts,
\* Z3ExpressionConverter turns into well-sorted Boolean terms.
THEOREM QueriesAreWellSorted == Spec => []QueryIsWellSorted
<1>1. Inv => QueryIsWellSorted
  <2>1. SUFFICES ASSUME Inv, query # Nothing
                 PROVE  SortsOf(problem.variables, query) \subseteq {BoolSort}
    BY DEF QueryIsWellSorted
  <2>2. query = [i \in DOMAIN problem.constraints |-> Convert(problem.variables, problem.constraints[i])]
    BY <2>1 DEF Inv, QueryIsConverted
  <2>3. \A i \in DOMAIN problem.constraints :
          TermSort(problem.variables, Convert(problem.variables, problem.constraints[i])) = BoolSort
    BY <2>1 DEF Inv, QueryIsConverted, ProblemIsAccepted, Translates
  <2>. QED BY <2>2, <2>3 DEF SortsOf
<1>. QED BY <1>1, InvHolds, PTL

\* The fields of commands.
LEMMA Commands ==
  /\ \A c, name, sort : ~ IsAssertion(Declare("declare-const", name, sort))
  /\ \A t : IsAssertion(Assertion(t)) /\ Assertion(t).term = t
  /\ ~ IsAssertion(Command("check-sat")) /\ ~ IsAssertion(Command("get-model"))
BY DEF IsAssertion, Declare, Assertion, Command

\* What a script asserts is what its parts assert.
LEMMA AssertedParts ==
  ASSUME NEW a, NEW b, NEW S, a \in Seq(S), b \in Seq(S)
  PROVE  AssertedTerms(a \o b) = AssertedTerms(a) \union AssertedTerms(b)
<1>1. /\ DOMAIN a = 1..Len(a) /\ DOMAIN b = 1..Len(b) /\ Len(a) \in Nat /\ Len(b) \in Nat
      /\ DOMAIN (a \o b) = 1..(Len(a) + Len(b))
  OBVIOUS
<1>2. /\ \A i \in DOMAIN a : i \in DOMAIN (a \o b) /\ (a \o b)[i] = a[i]
      /\ \A i \in DOMAIN b : Len(a) + i \in DOMAIN (a \o b) /\ (a \o b)[Len(a) + i] = b[i]
  BY <1>1
<1>3. \A i \in DOMAIN (a \o b) : (i \in DOMAIN a /\ (a \o b)[i] = a[i])
                                  \/ (i - Len(a) \in DOMAIN b /\ (a \o b)[i] = b[i - Len(a)])
  BY <1>1
<1>4. AssertedTerms(a \o b) \subseteq AssertedTerms(a) \union AssertedTerms(b)
  BY <1>3 DEF AssertedTerms
<1>5. AssertedTerms(a) \subseteq AssertedTerms(a \o b)
  BY <1>2 DEF AssertedTerms
<1>6. AssertedTerms(b) \subseteq AssertedTerms(a \o b)
  BY <1>2 DEF AssertedTerms
<1>. QED BY <1>4, <1>5, <1>6

\* SmtLib2Serializer::serialize asserts the constraints, in its words
\* (SmtLib2Serializer.cpp 288-330).
LEMMA SerializedAssertions ==
  ASSUME NEW p, NEW V, p.variables \in Seq(V), p.constraints \in Seq(Expression)
  PROVE  AssertedTerms(SerializeProblem(p)) =
           { SerializeExpr(p.variables, p.constraints[i]) : i \in DOMAIN p.constraints }
<1>. DEFINE vs == p.variables
            cs == p.constraints
            a == [i \in DOMAIN vs |-> Declare("declare-const", vs[i].name, vs[i].sort)]
            b == [i \in DOMAIN cs |-> Assertion(SerializeExpr(vs, cs[i]))]
            c == << Command("check-sat"), Command("get-model") >>
            S == UNION { { a[i] : i \in DOMAIN a }, { b[i] : i \in DOMAIN b }, { c[i] : i \in DOMAIN c } }
<1>1. a \in Seq(S)
  <2>1. DOMAIN vs = 1..Len(vs) /\ Len(vs) \in Nat
    OBVIOUS
  <2>2. DOMAIN a = 1..Len(vs)
    BY <2>1
  <2>3. \A i \in 1..Len(vs) : a[i] \in S
    <3>. HIDE DEF a, b, c
    <3>. QED BY <2>2
  <2>4. a = [i \in 1..Len(vs) |-> a[i]]
    BY <2>1
  <2>. HIDE DEF a, S
  <2>. QED BY <2>1, <2>3, <2>4, SMTT(30)
<1>2. b \in Seq(S)
  <2>1. DOMAIN cs = 1..Len(cs) /\ Len(cs) \in Nat
    OBVIOUS
  <2>2. DOMAIN b = 1..Len(cs)
    BY <2>1
  <2>3. \A i \in 1..Len(cs) : b[i] \in S
    <3>. HIDE DEF a, b, c
    <3>. QED BY <2>2
  <2>4. b = [i \in 1..Len(cs) |-> b[i]]
    BY <2>1
  <2>. HIDE DEF b, S, cs
  <2>. QED BY <2>1, <2>3, <2>4
<1>3. c \in Seq(S)
  <2>1. c[1] \in S /\ c[2] \in S
    OBVIOUS
  <2>. HIDE DEF S
  <2>. QED BY <2>1
<1>4. AssertedTerms(a) = {}
  BY Commands DEF AssertedTerms
<1>5. AssertedTerms(b) = { SerializeExpr(vs, cs[i]) : i \in DOMAIN cs }
  BY Commands DEF AssertedTerms
<1>6. AssertedTerms(c) = {}
  BY Commands DEF AssertedTerms
<1>7. SerializeProblem(p) = a \o b \o c
  BY DEF SerializeProblem
<1>. HIDE DEF a, b, c, S
<1>8. a \o b \in Seq(S)
  BY <1>1, <1>2
<1>9. AssertedTerms(a \o b \o c) = AssertedTerms(a) \union AssertedTerms(b) \union AssertedTerms(c)
  BY <1>1, <1>2, <1>3, <1>8, AssertedParts, ZenonT(60)
<1>. QED BY <1>4, <1>5, <1>6, <1>7, <1>9

\* An exported file says nothing but what the solver is asked: where SMT-LIB
\* accepts the serializer's assertion, it is the converter's, function by
\* function.
THEOREM ExportsMeanQueries == Spec => []ExportMeansQuery
<1>1. Inv => ExportMeansQuery
  <2>. DEFINE vs == problem.variables
              cs == problem.constraints
              stated == AssertedTerms(document)
              accepted == { t \in stated : TermSort(vs, t) = BoolSort }
  <2>1. SUFFICES ASSUME Inv, exported # Nothing
                 PROVE  /\ accepted \subseteq Asked(problem)
                        /\ accepted = stated => Asked(problem) = stated
    BY DEF ExportMeansQuery, Inv, FileIsExported
  <2>2. document = SerializeProblem(problem) /\ problem # Nothing
    BY <2>1 DEF Inv, FileIsExported
  <2>3. vs \in Environment /\ cs \in Seq(Expression)
    BY <2>1, <2>2 DEF Inv, ProblemIsAccepted
  <2>4. stated = { SerializeExpr(vs, cs[i]) : i \in DOMAIN cs }
    BY <2>2, <2>3, SerializedAssertions DEF Environment
  <2>5. Asked(problem) = { Convert(vs, cs[i]) : i \in DOMAIN cs }
    BY DEF Asked
  <2>6. \A i \in DOMAIN cs : \/ SerializeExpr(vs, cs[i]) = Convert(vs, cs[i])
                             \/ TermSort(vs, SerializeExpr(vs, cs[i])) = IllSorted
    BY <2>1, <2>2 DEF Inv, ProblemIsAccepted, Translates
  <2>7. IllSorted # BoolSort
    BY SortCases
  <2>8. \A t \in accepted : t \in stated /\ TermSort(vs, t) = BoolSort
    OBVIOUS
  <2>9. accepted = stated => \A t \in stated : TermSort(vs, t) = BoolSort
    OBVIOUS
  <2>. HIDE DEF accepted, stated, vs, cs
  <2>10. accepted \subseteq Asked(problem)
    BY <2>4, <2>5, <2>6, <2>7, <2>8
  <2>11. accepted = stated => \A i \in DOMAIN cs : SerializeExpr(vs, cs[i]) = Convert(vs, cs[i])
    BY <2>4, <2>6, <2>7, <2>9
  <2>12. accepted = stated => Asked(problem) = stated
    BY <2>4, <2>5, <2>11
  <2>. QED BY <2>10, <2>12
<1>. QED BY <1>1, InvHolds, PTL

=============================================================================
