----------------------------- MODULE PrinterProofs -----------------------------
(***************************************************************************)
(* What the printer writes of a problem is parsed and analyzed to the same *)
(* problem, for trees of every depth.                                      *)
(***************************************************************************)
EXTENDS PrintedTokens, TranslationProofs, ParserProofs

-----------------------------------------------------------------------------
(* The recursive functions satisfy their equations.                         *)

PrintingStep(p, printed, e) == PrintedNode(printed, e)
FittingStep(p, fits, e) == FitsNode(fits, e)
LOCAL Printing == INSTANCE Trees WITH Grow <- ExpressionsOver, Step <- PrintingStep
LOCAL Fitting  == INSTANCE Trees WITH Grow <- ExpressionsOver, Step <- FittingStep

\* printExpr, node by node (DslPrinter.cpp 58-88).
LEMMA PrintedEquation ==
  ASSUME NEW e \in Expression
  PROVE  /\ e.node = "Constant" => PrintedExpr(e) = PrintedConstant(e)
         /\ e.node = "VariableRef" => PrintedExpr(e) = << Identifier(e.name) >>
         /\ e.node = "Unary" => PrintedExpr(e) =
              Parenthesized(<< Lexeme(UnarySymbol[e.op]) >> \o PrintedExpr(e.operand))
         /\ e.node = "Binary" => PrintedExpr(e) =
              Parenthesized(PrintedExpr(e.lhs) \o
                              (<< Lexeme(BinarySymbol[e.op]) >> \o PrintedExpr(e.rhs)))
<1>. DEFINE printed == Printing!Solution({})
<1>1. Printing!GrowsMonotonely
  BY ExpressionsGrow DEF Printing!GrowsMonotonely
<1>2. Printing!UsesOperands({})
  BY OperandsOfNode DEF Printing!UsesOperands, PrintingStep, PrintedNode
<1>3. Expression = Printing!Tree
  BY DEF ExpressionLevel, Expression, Printing!Level, Printing!GrowLevel, Printing!Tree
<1>4. printed = [t \in Expression |-> PrintingStep({}, printed, t)]
  BY <1>1, <1>2, <1>3, DepthAssumption, Printing!TreeRecursion
<1>5. \A t : PrintedExpr(t) = printed[t]
  BY <1>3 DEF PrintedExpr, Printing!Solution, PrintingStep
<1>. HIDE DEF printed
<1>6. printed[e] = PrintedNode(printed, e)
  BY <1>4 DEF PrintingStep
<1>7. e.node = "Constant" => printed[e] = PrintedConstant(e)
  BY <1>6 DEF PrintedNode
<1>8. e.node = "VariableRef" => printed[e] = << Identifier(e.name) >>
  BY <1>6 DEF PrintedNode
<1>9. e.node = "Unary" => printed[e] =
        Parenthesized(<< Lexeme(UnarySymbol[e.op]) >> \o printed[e.operand])
  BY <1>6 DEF PrintedNode
<1>10. e.node = "Binary" => printed[e] =
         Parenthesized(printed[e.lhs] \o (<< Lexeme(BinarySymbol[e.op]) >> \o printed[e.rhs]))
  BY <1>6 DEF PrintedNode
<1>. QED BY <1>5, <1>7, <1>8, <1>9, <1>10

\* Literals in range, node by node.
LEMMA FitsEquation ==
  ASSUME NEW e \in Expression
  PROVE  /\ e.node = "Constant" => (LiteralsFit(e) <=> (e.kind = "Int" => e.value \in 0..MaxSigned))
         /\ e.node = "Unary" => LiteralsFit(e) = LiteralsFit(e.operand)
         /\ e.node = "Binary" => LiteralsFit(e) = (LiteralsFit(e.lhs) /\ LiteralsFit(e.rhs))
<1>. DEFINE fits == Fitting!Solution({})
<1>1. Fitting!GrowsMonotonely
  BY ExpressionsGrow DEF Fitting!GrowsMonotonely
<1>2. Fitting!UsesOperands({})
  BY OperandsOfNode DEF Fitting!UsesOperands, FittingStep, FitsNode
<1>3. Expression = Fitting!Tree
  BY DEF ExpressionLevel, Expression, Fitting!Level, Fitting!GrowLevel, Fitting!Tree
<1>4. fits = [t \in Expression |-> FittingStep({}, fits, t)]
  BY <1>1, <1>2, <1>3, DepthAssumption, Fitting!TreeRecursion
<1>5. \A t : LiteralsFit(t) = fits[t]
  BY <1>3 DEF LiteralsFit, Fitting!Solution, FittingStep
<1>. HIDE DEF fits
<1>6. fits[e] = FitsNode(fits, e)
  BY <1>4 DEF FittingStep
<1>7. e.node = "Constant" => (fits[e] <=> (e.kind = "Int" => e.value \in 0..MaxSigned))
  BY <1>6 DEF FitsNode
<1>8. e.node = "Unary" => fits[e] = fits[e.operand]
  BY <1>6 DEF FitsNode
<1>9. e.node = "Binary" => fits[e] = (fits[e.lhs] /\ fits[e.rhs])
  BY <1>6 DEF FitsNode
<1>. QED BY <1>5, <1>7, <1>8, <1>9

-----------------------------------------------------------------------------
(* What the printer writes are tokens.                                      *)

\* Lexemes and literals are tokens of their type.
LEMMA PrinterTokens ==
  \A type \in LexemeTypes :
    /\ Lexeme(type) \in AnyToken /\ Lexeme(type).type = type
    /\ \A s \in STRING : Token(type, s) \in AnyToken /\ Token(type, s).type = type /\ Token(type, s).text = s
<1>1. ASSUME NEW type \in LexemeTypes
      PROVE  /\ Lexeme(type) \in AnyToken /\ Lexeme(type).type = type
             /\ \A s \in STRING : Token(type, s) \in AnyToken /\ Token(type, s).type = type
                                  /\ Token(type, s).text = s
  <2>1. Lexeme(type) \in AnyToken
    BY LexemeAssumption
  <2>2. Lexeme(type).type = type
    BY DEF Lexeme, Token
  <2>3. type \in STRING \ {"Eof"}
    BY <2>1, <2>2 DEF AnyToken
  <2>. QED BY <2>1, <2>2, <2>3 DEF AnyToken, Token
<1>. QED BY <1>1

\* The types the printer uses.
LEMMA PrinterTypes ==
  /\ {"(", ")", ":", "var", "constraint", "true", "false"} \subseteq LexemeTypes
  /\ {"Bool", "Int", "Real", "String", "BitVec"} \subseteq LexemeTypes
  /\ {"Identifier", "IntLiteral", "RealLiteral", "StringLiteral"} \subseteq LexemeTypes
  /\ \A op \in UnaryOps : UnarySymbol[op] \in LexemeTypes
  /\ \A op \in BinaryOps : BinarySymbol[op] \in LexemeTypes
BY DEF LexemeTypes, Keywords

-----------------------------------------------------------------------------
(* What the printer writes of a tree derives the tree.                      *)

\* Parentheses change nothing but the level.
LEMMA ParenthesizedTrees ==
  ASSUME NEW q \in Tokens
  PROVE  Parenthesized(q) \in Tokens /\ Trees(Parenthesized(q), 10) = Trees(q, 1)
<1>. DEFINE a == Lexeme("(")
            b == Lexeme(")")
<1>1. a \in AnyToken /\ b \in AnyToken /\ a.type = "(" /\ b.type = ")"
  BY PrinterTokens, PrinterTypes
<1>. HIDE DEF a, b
<1>2. <<b>> = Cons(b, <<>>)
  BY DEF Cons
<1>3. Between(a, q, b) = << a >> \o (q \o << b >>)
  BY <1>2 DEF Between, Cons
<1>4. Parenthesized(q) = Between(a, q, b)
  BY <1>3 DEF Parenthesized, a, b
<1>. QED BY <1>1, <1>4, BetweenLength, ParenthesesDerive

\* A prefix operator and its operand.
LEMMA PrintedUnary ==
  ASSUME NEW op \in UnaryOps, NEW q \in Tokens, NEW d \in Trees(q, 10)
  PROVE  LET ts == Parenthesized(<< Lexeme(UnarySymbol[op]) >> \o q)
         IN ts \in Tokens /\ Unary(op, d) \in Trees(ts, 10)
<1>. DEFINE t == Lexeme(UnarySymbol[op])
            s == Cons(t, q)
<1>1. t \in AnyToken /\ t.type = UnarySymbol[op]
  BY PrinterTokens, PrinterTypes
<1>2. t.type \in PrefixSymbols /\ UnaryOpFor[t.type] = op
  <2>1. UnarySymbol[op] \in {"-", "!", "~"} /\ UnaryOpFor[UnarySymbol[op]] = op
    BY DEF UnaryOpFor, UnaryOps, UnarySymbol
  <2>. QED BY <1>1, <2>1, PrefixTable
<1>. HIDE DEF t
<1>3. s \in Tokens
  BY <1>1, ConsTokens
<1>4. d \in Trees(q, 9)
  BY LevelsNest
<1>5. Unary(op, d) \in Trees(s, 9)
  BY <1>1, <1>2, <1>4, PrefixDerives
<1>. HIDE DEF s
<1>6. Unary(op, d) \in Trees(s, 1)
  BY <1>3, <1>5, LevelsNest
<1>7. Parenthesized(s) \in Tokens /\ Unary(op, d) \in Trees(Parenthesized(s), 10)
  BY <1>3, <1>6, ParenthesizedTrees
<1>. QED BY <1>7 DEF s, t, Cons

\* A binary operator between its operands.
LEMMA PrintedBinary ==
  ASSUME NEW op \in BinaryOps, NEW p \in Tokens, NEW q \in Tokens,
         NEW x \in Trees(p, 10), NEW y \in Trees(q, 10)
  PROVE  LET ts == Parenthesized(p \o (<< Lexeme(BinarySymbol[op]) >> \o q))
         IN ts \in Tokens /\ Binary(op, x, y) \in Trees(ts, 10)
<1>. DEFINE t == Lexeme(BinarySymbol[op])
            l == BinaryOpFor[BinarySymbol[op]].precedence
            s == p \o Cons(t, q)
<1>1. t \in AnyToken /\ t.type = BinarySymbol[op]
  BY PrinterTokens, PrinterTypes
<1>2. BinarySymbol[op] \in OperatorSymbols /\ BinaryOpFor[BinarySymbol[op]].op = op
  <2>1. BinarySymbol[op] \in OperatorSymbols
    BY DEF BinaryOps, BinarySymbol, OperatorSymbols
  <2>2. \A o, r \in BinaryOps : BinarySymbol[o] = BinarySymbol[r] => o = r
    BY DEF BinaryOps, BinarySymbol
  <2>. QED BY <2>1, <2>2, OperatorTable
<1>3. l \in 1..8 /\ t.type \in Levels[l]
  BY <1>1, <1>2, OperatorTable
<1>. HIDE DEF t, l
<1>4. s \in Tokens
  <2>1. Cons(t, q) \in Tokens
    BY <1>1, ConsTokens
  <2>. QED BY <2>1, TokensConcat
<1>5. x \in Trees(p, l) /\ y \in Trees(q, l + 1)
  <2>1. l \in 1..10 /\ l + 1 \in 1..10 /\ 10 \in 1..10 /\ l <= 10 /\ l + 1 <= 10
    BY <1>3
  <2>. QED BY <2>1, LevelsNest
<1>6. Binary(op, x, y) \in Trees(s, l)
  BY <1>1, <1>2, <1>3, <1>5, InfixDerives
<1>. HIDE DEF s
<1>7. Binary(op, x, y) \in Trees(s, 1)
  <2>1. l \in 1..10 /\ 1 \in 1..10 /\ 1 <= l
    BY <1>3
  <2>. QED BY <1>4, <1>6, <2>1, LevelsNest
<1>8. Parenthesized(s) \in Tokens /\ Binary(op, x, y) \in Trees(Parenthesized(s), 10)
  BY <1>4, <1>7, ParenthesizedTrees
<1>. QED BY <1>8 DEF s, t, Cons

\* A literal.
LEMMA PrintedLiteral ==
  ASSUME NEW t \in AnyToken, NEW e \in LiteralTrees(t)
  PROVE  << t >> \in Tokens /\ e \in Trees(<< t >>, 10)
<1>1. << t >> = Cons(t, <<>>) /\ << t >> \in Tokens
  BY DEF Cons, Tokens
<1>. QED BY <1>1, LiteralDerives

\* The numbers in range.
LEMMA PrintedNumber ==
  ASSUME NEW n \in 0..MaxSigned, NEW s \in STRING, NumberOf(s) = n
  PROVE  << Token("IntLiteral", s) >> \in Tokens /\ Integer(n) \in Trees(<< Token("IntLiteral", s) >>, 10)
<1>. DEFINE t == Token("IntLiteral", s)
<1>1. t \in AnyToken /\ t.type = "IntLiteral" /\ t.text = s
  BY PrinterTokens, PrinterTypes
<1>. HIDE DEF t
<1>2. ~ (NumberOf(t.text) > MaxSigned)
  <2>1. MaxSigned \in Int
    BY WordBitsAssumption DEF MaxSigned
  <2>. QED BY <1>1, <2>1
<1>3. LiteralTrees(t) = IF NumberOf(t.text) > MaxSigned THEN {} ELSE {Integer(NumberOf(t.text))}
  BY <1>1 DEF LiteralTrees
<1>4. Integer(n) \in LiteralTrees(t)
  BY <1>1, <1>2, <1>3
<1>5. << t >> \in Tokens /\ Integer(n) \in Trees(<< t >>, 10)
  BY <1>1, <1>4, PrintedLiteral
<1>. QED BY <1>5 DEF t

\* A real or a string, which stands for itself.
LEMMA PrintedText ==
  ASSUME NEW s \in STRING
  PROVE  /\ << Token("RealLiteral", s) >> \in Tokens
         /\ RealValue(s) \in Trees(<< Token("RealLiteral", s) >>, 10)
         /\ << Token("StringLiteral", s) >> \in Tokens
         /\ StringValue(s) \in Trees(<< Token("StringLiteral", s) >>, 10)
<1>1. ASSUME NEW t \in AnyToken, t.type = "RealLiteral", t.text = s
      PROVE  << t >> \in Tokens /\ RealValue(s) \in Trees(<< t >>, 10)
  <2>1. LiteralTrees(t) = {RealValue(s)}
    BY <1>1 DEF LiteralTrees
  <2>. QED BY <2>1, PrintedLiteral
<1>2. ASSUME NEW t \in AnyToken, t.type = "StringLiteral", t.text = s
      PROVE  << t >> \in Tokens /\ StringValue(s) \in Trees(<< t >>, 10)
  <2>1. LiteralTrees(t) = {StringValue(s)}
    BY <1>2 DEF LiteralTrees
  <2>. QED BY <2>1, PrintedLiteral
<1>3. /\ Token("RealLiteral", s) \in AnyToken /\ Token("RealLiteral", s).type = "RealLiteral"
      /\ Token("RealLiteral", s).text = s
  BY PrinterTokens, PrinterTypes
<1>4. /\ Token("StringLiteral", s) \in AnyToken /\ Token("StringLiteral", s).type = "StringLiteral"
      /\ Token("StringLiteral", s).text = s
  BY PrinterTokens, PrinterTypes
<1>. QED BY <1>1, <1>2, <1>3, <1>4

\* The constants of a text.
LEMMA TextConstants ==
  /\ \A e \in ConstantsOf("Real", {0}, {0}, STRING) :
       e.kind = "Real" /\ e.text \in STRING /\ e = RealValue(e.text)
  /\ \A e \in ConstantsOf("String", {0}, {0}, STRING) :
       e.kind = "String" /\ e.text \in STRING /\ e = StringValue(e.text)
<1>1. ASSUME NEW s
      PROVE  /\ RealValue(s) = [node |-> "Constant", kind |-> "Real", value |-> 0, width |-> 0, text |-> s]
             /\ StringValue(s) = [node |-> "Constant", kind |-> "String", value |-> 0, width |-> 0, text |-> s]
  <2>. DEFINE c == Constant("Real", 0, 0)
              d == Constant("String", 0, 0)
  <2>1. /\ c = [node |-> "Constant", kind |-> "Real", value |-> 0, width |-> 0, text |-> ""]
        /\ d = [node |-> "Constant", kind |-> "String", value |-> 0, width |-> 0, text |-> ""]
    BY DEF Constant
  <2>2. RealValue(s) = [c EXCEPT !.text = s] /\ StringValue(s) = [d EXCEPT !.text = s]
    BY DEF RealValue, StringValue
  <2>. HIDE DEF c, d
  <2>. QED BY <2>1, <2>2
<1>2. \A e \in ConstantsOf("Real", {0}, {0}, STRING) :
        /\ e.kind = "Real" /\ e.text \in STRING
        /\ e = [node |-> "Constant", kind |-> "Real", value |-> 0, width |-> 0, text |-> e.text]
  BY DEF ConstantsOf
<1>3. \A e \in ConstantsOf("String", {0}, {0}, STRING) :
        /\ e.kind = "String" /\ e.text \in STRING
        /\ e = [node |-> "Constant", kind |-> "String", value |-> 0, width |-> 0, text |-> e.text]
  BY DEF ConstantsOf
<1>. QED BY <1>1, <1>2, <1>3

\* A constant derives itself, without its width.
LEMMA PrintedConstantDerives ==
  ASSUME NEW e \in LeafNodes, e.node = "Constant", e \in Expression,
         Plain(e) \in Expression, LiteralsFit(Plain(e))
  PROVE  PrintedConstant(e) \in Tokens /\ Plain(e) \in Trees(PrintedConstant(e), 10)
<1>1. Plain(e) = IF e.kind = "BitVec" THEN Integer(e.value) ELSE e
  BY PlainEquation
<1>2. CASE e \in ConstantsOf("Bool", 0..1, {0}, {""})
  <2>1. e.kind = "Bool" /\ e = Boolean(e.value) /\ e.value \in 0..1
    BY <1>2 DEF ConstantsOf, Boolean, Constant
  <2>. DEFINE t == Lexeme(IF e.value = 1 THEN "true" ELSE "false")
  <2>2. t \in AnyToken /\ t.type = IF e.value = 1 THEN "true" ELSE "false"
    BY PrinterTokens, PrinterTypes
  <2>3. PrintedConstant(e) = << t >>
    BY <2>1 DEF PrintedConstant
  <2>. HIDE DEF t
  <2>4. LiteralTrees(t) = { Boolean(IF e.value = 1 THEN 1 ELSE 0) }
    BY <2>2 DEF LiteralTrees
  <2>5. e \in LiteralTrees(t)
    BY <2>1, <2>4
  <2>. QED BY <1>1, <2>1, <2>2, <2>3, <2>5, PrintedLiteral
<1>3. CASE e \in ConstantsOf("Int", Int, {0}, {""})
  <2>1. e.kind = "Int" /\ e = Integer(e.value) /\ e.value \in Int /\ Plain(e) = e
    BY <1>1, <1>3 DEF ConstantsOf, Integer, Constant
  <2>2. e.value \in 0..MaxSigned
    BY <2>1, FitsEquation
  <2>3. Decimal(e.value) \in STRING /\ NumberOf(Decimal(e.value)) = e.value
    BY <2>2, SpellingAssumption
  <2>4. PrintedConstant(e) = << Token("IntLiteral", Decimal(e.value)) >>
    BY <2>1, <2>2 DEF PrintedConstant
  <2>. QED BY <2>1, <2>2, <2>3, <2>4, PrintedNumber
<1>4. CASE e \in ConstantsOf("BitVec", Nat, Widths, {""})
  <2>1. e.kind = "BitVec" /\ Plain(e) = Integer(e.value)
    BY <1>1, <1>4 DEF ConstantsOf
  <2>2. Integer(e.value).node = "Constant" /\ Integer(e.value).kind = "Int"
        /\ Integer(e.value).value = e.value
    BY DEF Integer, Constant
  <2>3. e.value \in 0..MaxSigned
    BY <2>1, <2>2, FitsEquation
  <2>4. Hex(e.value) \in STRING /\ NumberOf(Hex(e.value)) = e.value
    BY <2>3, SpellingAssumption
  <2>5. PrintedConstant(e) = << Token("IntLiteral", Hex(e.value)) >>
    BY <2>1 DEF PrintedConstant
  <2>. QED BY <2>1, <2>3, <2>4, <2>5, PrintedNumber
<1>5. CASE e \in ConstantsOf("Real", {0}, {0}, STRING)
  <2>1. e.kind = "Real" /\ e.text \in STRING /\ e = RealValue(e.text)
    BY <1>5, TextConstants
  <2>2. PrintedConstant(e) = << Token("RealLiteral", e.text) >>
    BY <2>1 DEF PrintedConstant
  <2>. QED BY <1>1, <2>1, <2>2, PrintedText
<1>6. CASE e \in ConstantsOf("String", {0}, {0}, STRING)
  <2>1. e.kind = "String" /\ e.text \in STRING /\ e = StringValue(e.text)
    BY <1>6, TextConstants
  <2>2. PrintedConstant(e) = << Token("StringLiteral", e.text) >>
    BY <2>1 DEF PrintedConstant
  <2>. QED BY <1>1, <2>1, <2>2, PrintedText
<1>. QED BY <1>2, <1>3, <1>4, <1>5, <1>6 DEF LeafNodes

\* What the printer writes of a tree of level n is a tree of that level, and
\* derives it if its literals are in range.
Derives(n, e) ==
  /\ Plain(e) \in ExpressionLevel[n]
  /\ LiteralsFit(Plain(e)) =>
       PrintedExpr(e) \in Tokens /\ Plain(e) \in Trees(PrintedExpr(e), 10)

Deriving(n) == { e \in Expression : Derives(n, e) }

\* The nodes of a level.
LEMMA LevelNodes ==
  ASSUME NEW n \in 0..MaxDepth
  PROVE  /\ LeafNodes \subseteq ExpressionLevel[n]
         /\ ExpressionLevel[n] \subseteq Expression
         /\ n # 0 => \A d \in ExpressionLevel[n - 1] :
              \A op \in UnaryOps : Unary(op, d) \in ExpressionLevel[n]
         /\ n # 0 => \A c, d \in ExpressionLevel[n - 1] :
              \A op \in BinaryOps : Binary(op, c, d) \in ExpressionLevel[n]
<1>1. n \in Nat
  BY DepthAssumption
<1>2. ExpressionLevel[n] = ExpressionsOver(IF n = 0 THEN {} ELSE ExpressionLevel[n - 1])
  BY <1>1, ExpressionLevels
<1>3. ExpressionLevel[n] \subseteq Expression
  BY ExpressionLevels
<1>4. \A S : LeafNodes \subseteq ExpressionsOver(S)
  BY DEF ExpressionsOver
<1>5. \A S : \A d \in S : \A op \in UnaryOps : Unary(op, d) \in ExpressionsOver(S)
  BY DEF ExpressionsOver, UnaryNodes, Unary
<1>6. \A S : \A c, d \in S : \A op \in BinaryOps : Binary(op, c, d) \in ExpressionsOver(S)
  BY DEF ExpressionsOver, BinaryNodes, Binary
<1>. QED BY <1>2, <1>3, <1>4, <1>5, <1>6

\* One more operator.
LEMMA DerivesNode ==
  ASSUME NEW n \in 0..MaxDepth, NEW e \in ExpressionLevel[n],
         e \in ExpressionsOver(IF n = 0 THEN {} ELSE Deriving(n - 1))
  PROVE  Derives(n, e)
<1>. DEFINE S == IF n = 0 THEN {} ELSE Deriving(n - 1)
<1>1. e \in Expression
  BY LevelNodes
<1>2. \A x \in ExpressionLevel[n] : x \in Expression
  BY LevelNodes
<1>3. CASE e \in LeafNodes /\ e.node = "Constant"
  <2>1. Plain(e) = IF e.kind = "BitVec" THEN Integer(e.value) ELSE e
    BY <1>1, <1>3, PlainEquation
  <2>2. Integer(e.value) \in LeafNodes \/ e.kind # "BitVec"
    <3>1. e.kind = "BitVec" => e.value \in Nat
      BY <1>3 DEF LeafNodes, ConstantsOf
    <3>2. \A v \in Nat : Integer(v) \in ConstantsOf("Int", Int, {0}, {""})
      BY DEF ConstantsOf, Integer, Constant
    <3>. QED BY <3>1, <3>2 DEF LeafNodes
  <2>3. Plain(e) \in ExpressionLevel[n]
    BY <1>3, <2>1, <2>2, LevelNodes
  <2>4. PrintedExpr(e) = PrintedConstant(e)
    BY <1>1, <1>3, PrintedEquation
  <2>5. Plain(e) \in Expression
    BY <1>2, <2>3
  <2>6. LiteralsFit(Plain(e)) => PrintedConstant(e) \in Tokens /\ Plain(e) \in Trees(PrintedConstant(e), 10)
    BY <1>1, <1>3, <2>5, PrintedConstantDerives
  <2>. QED BY <2>3, <2>4, <2>6 DEF Derives
<1>4. CASE e \in LeafNodes /\ e.node = "VariableRef"
  <2>1. Plain(e) = e /\ PrintedExpr(e) = << Identifier(e.name) >>
    BY <1>1, <1>4, PlainEquation, PrintedEquation
  <2>2. e = Variable(e.name) /\ e.name \in STRING
    BY <1>4 DEF LeafNodes, ConstantsOf, Variable
  <2>3. ASSUME NEW name \in STRING
        PROVE  << Identifier(name) >> \in Tokens /\ Variable(name) \in Trees(<< Identifier(name) >>, 10)
    <3>1. /\ Identifier(name) \in AnyToken /\ Identifier(name).type = "Identifier"
          /\ Identifier(name).text = name
      BY PrinterTokens, PrinterTypes DEF Identifier
    <3>2. LiteralTrees(Identifier(name)) = {Variable(name)}
      BY <3>1 DEF LiteralTrees
    <3>. QED BY <3>1, <3>2, PrintedLiteral
  <2>4. PrintedExpr(e) \in Tokens /\ e \in Trees(PrintedExpr(e), 10)
    BY <2>1, <2>2, <2>3
  <2>. QED BY <2>1, <2>4 DEF Derives
<1>5. CASE e \in UnaryNodes(S)
  <2>1. n # 0 /\ e.node = "Unary" /\ e.op \in UnaryOps /\ e.operand \in Deriving(n - 1)
    BY <1>5 DEF UnaryNodes
  <2>2. Derives(n - 1, e.operand)
    BY <2>1 DEF Deriving
  <2>3. Plain(e) = Unary(e.op, Plain(e.operand))
    BY <1>1, <2>1, PlainEquation
  <2>4. Plain(e) \in ExpressionLevel[n]
    BY <2>1, <2>2, <2>3, LevelNodes DEF Derives
  <2>5. LiteralsFit(Plain(e)) = LiteralsFit(Plain(e.operand))
    <3>1. Plain(e) \in Expression /\ Plain(e).node = "Unary" /\ Plain(e).operand = Plain(e.operand)
      BY <1>2, <2>3, <2>4 DEF Unary
    <3>. QED BY <3>1, FitsEquation
  <2>6. ASSUME LiteralsFit(Plain(e))
        PROVE  PrintedExpr(e) \in Tokens /\ Plain(e) \in Trees(PrintedExpr(e), 10)
    <3>1. PrintedExpr(e.operand) \in Tokens /\ Plain(e.operand) \in Trees(PrintedExpr(e.operand), 10)
      BY <2>2, <2>5, <2>6 DEF Derives
    <3>2. PrintedExpr(e) = Parenthesized(<< Lexeme(UnarySymbol[e.op]) >> \o PrintedExpr(e.operand))
      BY <1>1, <2>1, PrintedEquation
    <3>. QED BY <2>1, <2>3, <3>1, <3>2, PrintedUnary
  <2>. QED BY <2>4, <2>6 DEF Derives
<1>6. CASE e \in BinaryNodes(S)
  <2>1. /\ n # 0 /\ e.node = "Binary" /\ e.op \in BinaryOps
        /\ e.lhs \in Deriving(n - 1) /\ e.rhs \in Deriving(n - 1)
    BY <1>6 DEF BinaryNodes
  <2>2. Derives(n - 1, e.lhs) /\ Derives(n - 1, e.rhs)
    BY <2>1 DEF Deriving
  <2>3. Plain(e) = Binary(e.op, Plain(e.lhs), Plain(e.rhs))
    BY <1>1, <2>1, PlainEquation
  <2>4. Plain(e) \in ExpressionLevel[n]
    BY <2>1, <2>2, <2>3, LevelNodes DEF Derives
  <2>5. LiteralsFit(Plain(e)) = (LiteralsFit(Plain(e.lhs)) /\ LiteralsFit(Plain(e.rhs)))
    <3>1. /\ Plain(e) \in Expression /\ Plain(e).node = "Binary"
          /\ Plain(e).lhs = Plain(e.lhs) /\ Plain(e).rhs = Plain(e.rhs)
      BY <1>2, <2>3, <2>4 DEF Binary
    <3>. QED BY <3>1, FitsEquation
  <2>6. ASSUME LiteralsFit(Plain(e))
        PROVE  PrintedExpr(e) \in Tokens /\ Plain(e) \in Trees(PrintedExpr(e), 10)
    <3>1. /\ PrintedExpr(e.lhs) \in Tokens /\ Plain(e.lhs) \in Trees(PrintedExpr(e.lhs), 10)
          /\ PrintedExpr(e.rhs) \in Tokens /\ Plain(e.rhs) \in Trees(PrintedExpr(e.rhs), 10)
      BY <2>2, <2>5, <2>6 DEF Derives
    <3>2. PrintedExpr(e) = Parenthesized(PrintedExpr(e.lhs) \o
                             (<< Lexeme(BinarySymbol[e.op]) >> \o PrintedExpr(e.rhs)))
      BY <1>1, <2>1, PrintedEquation
    <3>. QED BY <2>1, <2>3, <3>1, <3>2, PrintedBinary
  <2>. QED BY <2>4, <2>6 DEF Derives
<1>7. e \in LeafNodes \/ e \in UnaryNodes(S) \/ e \in BinaryNodes(S)
  BY DEF ExpressionsOver
<1>8. e \in LeafNodes => e.node \in {"Constant", "VariableRef"}
  BY DEF LeafNodes, ConstantsOf
<1>. QED BY <1>3, <1>4, <1>5, <1>6, <1>7, <1>8

\* What the printer writes of a tree derives the tree, by induction on its levels:
\* no printed operator is taken apart by the precedence of another.
THEOREM PrintedTreeDerives ==
  ASSUME NEW e \in Expression, LiteralsFit(Plain(e))
  PROVE  PrintedExpr(e) \in Tokens /\ Trees(PrintedExpr(e), 1) = {Plain(e)}
<1>. DEFINE S == [n \in Nat |-> Deriving(n)]
            ts == PrintedExpr(e)
<1>1. Resolving!GrowsMonotonely
  BY ExpressionsGrow DEF Resolving!GrowsMonotonely
<1>2. ExpressionLevel = Resolving!Level
  BY DEF ExpressionLevel, Resolving!Level, Resolving!GrowLevel
<1>3. ASSUME NEW n \in 0..MaxDepth, NEW d \in ExpressionLevel[n],
             d \in ExpressionsOver(IF n = 0 THEN {} ELSE S[n - 1])
      PROVE  d \in S[n]
  <2>1. n \in Nat /\ (n # 0 => n - 1 \in Nat)
    BY <1>3, DepthAssumption
  <2>2. (IF n = 0 THEN {} ELSE S[n - 1]) = (IF n = 0 THEN {} ELSE Deriving(n - 1))
    BY <2>1
  <2>3. d \in Expression
    BY <1>3, LevelNodes
  <2>4. Derives(n, d)
    BY <1>3, <2>2, DerivesNode
  <2>. QED BY <2>1, <2>3, <2>4 DEF Deriving
<1>. HIDE DEF S
<1>4. \A n \in 0..MaxDepth : ExpressionLevel[n] \subseteq S[n]
  BY <1>1, <1>2, <1>3, DepthAssumption, Resolving!TreeInduction
<1>5. e \in S[MaxDepth]
  BY <1>4, DepthAssumption DEF Expression
<1>6. Derives(MaxDepth, e)
  BY <1>5, DepthAssumption DEF S, Deriving
<1>7. ts \in Tokens /\ Plain(e) \in Trees(ts, 10)
  BY <1>6 DEF Derives
<1>. HIDE DEF ts
<1>8. Plain(e) \in Trees(ts, 1)
  BY <1>7, LevelsNest
<1>9. ASSUME NEW x \in Trees(ts, 1) PROVE ParseExpression(ts \o <<>>, 0) = Parsed(x, <<>>, TRUE)
  <2>1. 1 \in 1..9 /\ 0 \in 0..1 /\ ReadsBack(ts, 1)
    BY <1>7, ParserReadsTrees
  <2>2. <<>> \in Tokens /\ Blocked(<<>>, 0)
    BY NoTokens, StatementBlocks DEF StartsStatement
  <2>. QED BY <1>7, <2>1, <2>2, ReadsAlone
<1>10. ASSUME NEW x \in Trees(ts, 1) PROVE x = Plain(e)
  <2>1. Parsed(x, <<>>, TRUE) = Parsed(Plain(e), <<>>, TRUE)
    BY <1>8, <1>9
  <2>. QED BY <2>1 DEF Parsed
<1>. QED BY <1>7, <1>8, <1>10 DEF ts

-----------------------------------------------------------------------------
(* What the printer writes of a statement is read as the statement.         *)

\* A statement alone.
LEMMA StatementAlone ==
  ASSUME NEW p \in Tokens, p # <<>>, NEW e \in Statements(p)
  PROVE  StartsStatement(p) /\ ParseProgram(p) = Joined(StatementRead(e.variables, e.constraints, <<>>, TRUE),
                                                        ProgramRead(<<>>, <<>>, TRUE))
<1>1. <<>> \in Tokens /\ Blocked(<<>>, 0)
  BY NoTokens, StatementBlocks DEF StartsStatement
<1>2. p[1].type \in StatementKeywords
      /\ ParseStatement(p \o <<>>) = StatementRead(e.variables, e.constraints, <<>>, TRUE)
  BY <1>1, StatementReads
<1>3. p \o <<>> = p
  BY TokensConcat
<1>4. StartsStatement(p)
  BY <1>2, TokensCases DEF StartsStatement
<1>. DEFINE read == ParseStatement(p)
<1>5. read = StatementRead(e.variables, e.constraints, <<>>, TRUE)
  BY <1>2, <1>3
<1>6. ParseProgram(p) = Joined(read, ParseProgram(read.rest))
  BY ProgramEquation
<1>. HIDE DEF read
<1>7. read.rest = <<>>
  BY <1>5 DEF StatementRead
<1>8. ParseProgram(read.rest) = ProgramRead(<<>>, <<>>, TRUE)
  BY <1>1, <1>7, ProgramEquation
<1>. QED BY <1>4, <1>5, <1>6, <1>8

\* A printed constraint.
LEMMA PrintedConstraintReads ==
  ASSUME NEW e \in Expression, LiteralsFit(Plain(e))
  PROVE  LET p == PrintedConstraint(e)
         IN /\ p \in Tokens /\ StartsStatement(p)
            /\ ParseProgram(p) = ProgramRead(<<>>, << Plain(e) >>, TRUE)
<1>. DEFINE t == Lexeme("constraint")
            q == PrintedExpr(e)
            x == Plain(e)
            p == Cons(t, q)
            said == Text(<<>>, << x >>)
<1>1. t \in AnyToken /\ t.type = "constraint"
  BY PrinterTokens, PrinterTypes
<1>2. q \in Tokens /\ x \in Trees(q, 1)
  BY PrintedTreeDerives
<1>3. PrintedConstraint(e) = p
  BY DEF PrintedConstraint, Cons
<1>. HIDE DEF t, q, x
<1>4. p \in Tokens /\ p # <<>> /\ p[1] = t /\ Tail(p) = q
  BY <1>1, <1>2, ConsTokens
<1>. HIDE DEF p
<1>5. said \in Statements(p)
  BY <1>1, <1>2, <1>4, StatementCases
<1>6. said.variables = <<>> /\ said.constraints = << x >>
  BY DEF Text
<1>. HIDE DEF said
<1>7. StartsStatement(p) /\ ParseProgram(p) = Joined(StatementRead(<<>>, << x >>, <<>>, TRUE),
                                                     ProgramRead(<<>>, <<>>, TRUE))
  BY <1>4, <1>5, <1>6, StatementAlone
<1>8. <<>> \o <<>> = <<>> /\ << x >> \o <<>> = << x >>
  OBVIOUS
<1>9. Joined(StatementRead(<<>>, << x >>, <<>>, TRUE), ProgramRead(<<>>, <<>>, TRUE)) =
        ProgramRead(<<>>, << x >>, TRUE)
  BY <1>8 DEF Joined, StatementRead, ProgramRead
<1>. QED BY <1>3, <1>4, <1>7, <1>9 DEF x

\* A printed sort names the sort.
LEMMA PrintedSortNames ==
  ASSUME NEW sort \in VariableSort
  PROVE  PrintedSort(sort) \in Tokens /\ PrintedSort(sort) # <<>> /\ sort \in SortsNamed(PrintedSort(sort))
<1>1. CASE sort \in {BoolSort, IntSort, RealSort, StringSort}
  <2>1. sort.type \in {"Bool", "Int", "Real", "String"} /\ sort = Sort(sort.type, 0)
    BY <1>1 DEF BoolSort, IntSort, RealSort, StringSort, Sort
  <2>. DEFINE t == Lexeme(sort.type)
  <2>2. t \in AnyToken /\ t.type = sort.type
    BY <2>1, PrinterTokens, PrinterTypes
  <2>3. PrintedSort(sort) = << t >>
    BY <2>1 DEF PrintedSort
  <2>. HIDE DEF t
  <2>4. << t >> \in Tokens /\ << t >> # <<>> /\ Len(<< t >>) = 1 /\ << t >>[1] = t
    BY <2>2 DEF Tokens
  <2>5. SortsNamed(<< t >>) = {Sort(sort.type, 0)}
    BY <2>1, <2>2, <2>4 DEF SortsNamed
  <2>. QED BY <2>1, <2>3, <2>4, <2>5
<1>2. ASSUME NEW w \in Widths, sort = BitVecSort(w)
      PROVE  PrintedSort(sort) \in Tokens /\ PrintedSort(sort) # <<>> /\ sort \in SortsNamed(PrintedSort(sort))
  <2>1. sort.type = "BitVec" /\ sort.width = w
    BY <1>2 DEF BitVecSort, Sort
  <2>2. Decimal(w) \in STRING /\ NumberOf(Decimal(w)) = w
    BY SpellingAssumption
  <2>. DEFINE a == Lexeme("BitVec")
              b == Lexeme("(")
              c == Token("IntLiteral", Decimal(w))
              d == Lexeme(")")
              q == << a, b, c, d >>
  <2>3. /\ a \in AnyToken /\ a.type = "BitVec" /\ b \in AnyToken /\ b.type = "("
        /\ d \in AnyToken /\ d.type = ")"
    BY PrinterTokens, PrinterTypes
  <2>4. c \in AnyToken /\ c.type = "IntLiteral" /\ c.text = Decimal(w)
    <3>1. \A s \in STRING : /\ Token("IntLiteral", s) \in AnyToken /\ Token("IntLiteral", s).text = s
                            /\ Token("IntLiteral", s).type = "IntLiteral"
      BY PrinterTokens, PrinterTypes
    <3>. QED BY <2>2, <3>1
  <2>5. PrintedSort(sort) = q
    BY <2>1 DEF PrintedSort
  <2>. HIDE DEF a, b, c, d
  <2>6. q \in Tokens /\ q # <<>> /\ Len(q) = 4 /\ q[1] = a /\ q[2] = b /\ q[3] = c /\ q[4] = d
    BY <2>3, <2>4 DEF Tokens
  <2>. HIDE DEF q
  <2>7. NumberOf(q[3].text) = w /\ w \in 1..WordBits
    BY <2>2, <2>4, <2>6 DEF Widths
  <2>8. SortsNamed(q) = {BitVecSort(w)}
    BY <2>3, <2>4, <2>6, <2>7 DEF SortsNamed
  <2>. QED BY <1>2, <2>5, <2>6, <2>8
<1>. QED BY <1>1, <1>2 DEF VariableSort

\* A printed declaration.
LEMMA PrintedVariableReads ==
  ASSUME NEW name \in STRING, NEW sort \in VariableSort
  PROVE  LET v == [name |-> name, sort |-> sort]
             p == PrintedVariable(v)
         IN /\ p \in Tokens /\ StartsStatement(p)
            /\ ParseProgram(p) = ProgramRead(<< v >>, <<>>, TRUE)
<1>. DEFINE v == [name |-> name, sort |-> sort]
            a == Lexeme("var")
            b == Identifier(name)
            c == Lexeme(":")
            h == << a, b, c >>
            q == PrintedSort(sort)
            p == h \o q
            said == Declares(name, sort)
<1>1. a \in AnyToken /\ a.type = "var" /\ c \in AnyToken /\ c.type = ":"
  BY PrinterTokens, PrinterTypes
<1>2. b \in AnyToken /\ b.type = "Identifier" /\ b.text = name
  BY PrinterTokens, PrinterTypes DEF Identifier
<1>3. q \in Tokens /\ q # <<>> /\ sort \in SortsNamed(q)
  BY PrintedSortNames
<1>4. PrintedVariable(v) = p
  BY DEF PrintedVariable
<1>. HIDE DEF a, b, c, q
<1>5. h \in Tokens /\ Len(h) = 3 /\ h[1] = a /\ h[2] = b /\ h[3] = c
  BY <1>1, <1>2 DEF Tokens
<1>. HIDE DEF h
<1>6. Len(q) \in Nat /\ Len(q) # 0
  BY <1>3, NoLength
<1>7. /\ p \in Tokens /\ Len(p) = 3 + Len(q)
      /\ \A i \in 1..3 + Len(q) : p[i] = IF i <= 3 THEN h[i] ELSE q[i - 3]
  <2>1. /\ h \o q \in Seq(AnyToken) /\ Len(h \o q) = Len(h) + Len(q)
        /\ \A i \in 1..Len(h) + Len(q) : (h \o q)[i] = IF i <= Len(h) THEN h[i] ELSE q[i - Len(h)]
    <3>1. h \in Seq(AnyToken) /\ q \in Seq(AnyToken)
      BY <1>3, <1>5 DEF Tokens
    <3>. QED BY ONLY <3>1, ConcatProperties
  <2>. QED BY <1>5, <2>1 DEF Tokens
<1>8. p[1] = a /\ p[2] = b /\ p[3] = c /\ Len(p) > 3
  BY <1>5, <1>6, <1>7
<1>9. Part(p, 4, Len(p)) = q
  <2>1. From(p, 4) = q
    <3>1. 4 \in Nat /\ 4 = Len(h) + 1
      BY <1>5
    <3>. QED BY <1>3, <1>5, <3>1, FromConcat
  <2>. QED BY <2>1 DEF From, Part
<1>. HIDE DEF p
<1>10. p # <<>>
  BY <1>7, <1>8, NoLength
<1>11. said \in Statements(p)
  <2>1. IsVarDecl(p)
    BY <1>1, <1>2, <1>8 DEF IsVarDecl
  <2>2. said = Declares(p[2].text, sort) /\ sort \in SortsNamed(Part(p, 4, Len(p)))
    BY <1>2, <1>3, <1>8, <1>9
  <2>. QED BY <1>7, <1>10, <2>1, <2>2, StatementCases
<1>12. said.variables = << v >> /\ said.constraints = <<>>
  BY DEF Declares, Text
<1>. HIDE DEF said, v
<1>13. StartsStatement(p) /\ ParseProgram(p) = Joined(StatementRead(<< v >>, <<>>, <<>>, TRUE),
                                                      ProgramRead(<<>>, <<>>, TRUE))
  BY <1>7, <1>10, <1>11, <1>12, StatementAlone
<1>14. <<>> \o <<>> = <<>> /\ << v >> \o <<>> = << v >>
  OBVIOUS
<1>15. Joined(StatementRead(<< v >>, <<>>, <<>>, TRUE), ProgramRead(<<>>, <<>>, TRUE)) =
         ProgramRead(<< v >>, <<>>, TRUE)
  BY <1>14 DEF Joined, StatementRead, ProgramRead
<1>. QED BY <1>4, <1>7, <1>13, <1>15 DEF v

-----------------------------------------------------------------------------
(* One statement after the other.                                           *)

ConcatenatingStep(pieces, f, n) == IF n = 0 THEN <<>> ELSE f[n - 1] \o pieces[n]
LOCAL Concatenating == INSTANCE Recursion
  WITH Domain <- Nat, Height <- Itself, Step <- ConcatenatingStep, Fits <- Anything

\* The first n pieces.
ConcatenatedAt(pieces) == CHOOSE f : f = [n \in Nat |-> IF n = 0 THEN <<>> ELSE f[n - 1] \o pieces[n]]

\* Concatenation, piece by piece.
LEMMA ConcatenatedEquation ==
  ASSUME NEW pieces
  PROVE  /\ Concatenated(pieces) = ConcatenatedAt(pieces)[Len(pieces)]
         /\ ConcatenatedAt(pieces)[0] = <<>>
         /\ \A n \in Nat \ {0} :
              ConcatenatedAt(pieces)[n] = ConcatenatedAt(pieces)[n - 1] \o pieces[n]
<1>. DEFINE F == Concatenating!Solution(pieces)
            G == ConcatenatedAt(pieces)
<1>1. Concatenating!HasHeights
  BY DEF Concatenating!HasHeights, Itself
<1>2. Concatenating!LooksBelow(pieces)
  <2>1. SUFFICES ASSUME NEW f, NEW g, NEW n \in Nat, \A m \in Nat : m < n => f[m] = g[m]
                 PROVE  ConcatenatingStep(pieces, f, n) = ConcatenatingStep(pieces, g, n)
    BY DEF Concatenating!LooksBelow, Itself, Anything
  <2>2. n # 0 => f[n - 1] = g[n - 1]
    BY <2>1
  <2>. QED BY <2>2 DEF ConcatenatingStep
<1>3. F = [n \in Nat |-> ConcatenatingStep(pieces, F, n)]
  BY <1>1, <1>2, Concatenating!RecursionSolved
<1>4. G = F
  BY DEF ConcatenatedAt, Concatenating!Solution, ConcatenatingStep
<1>5. Concatenated(pieces) = G[Len(pieces)]
  BY DEF Concatenated, ConcatenatedAt
<1>. HIDE DEF F, G
<1>6. \A n \in Nat : G[n] = ConcatenatingStep(pieces, G, n)
  BY <1>3, <1>4
<1>7. G[0] = <<>> /\ \A n \in Nat \ {0} : G[n] = G[n - 1] \o pieces[n]
  BY <1>6 DEF ConcatenatingStep
<1>. QED BY <1>5, <1>7 DEF G

\* The pieces are N statements that, read one by one after what x says, give
\* said[1] .. said[N].
ReadOneByOne(x, N, pieces, said) ==
  /\ ParseProgram(x) = said[0]
  /\ \A n \in 0..N : said[n].ok
  /\ \A n \in 1..N : /\ pieces[n] \in Tokens /\ StartsStatement(pieces[n])
                     /\ Joined(said[n - 1], ParseProgram(pieces[n])) = said[n]

\* Read together, they say the same.
LEMMA StatementsRead ==
  ASSUME NEW x \in Tokens, NEW N \in Nat, NEW pieces, NEW said, ReadOneByOne(x, N, pieces, said)
  PROVE  /\ ConcatenatedAt(pieces)[N] \in Tokens
         /\ ParseProgram(x \o ConcatenatedAt(pieces)[N]) = said[N]
<1>. DEFINE G == ConcatenatedAt(pieces)
            S == { n \in Nat : n <= N => G[n] \in Tokens /\ ParseProgram(x \o G[n]) = said[n] }
<1>0. /\ ParseProgram(x) = said[0]
      /\ \A n \in 0..N : said[n].ok
      /\ \A n \in 1..N : /\ pieces[n] \in Tokens /\ StartsStatement(pieces[n])
                         /\ Joined(said[n - 1], ParseProgram(pieces[n])) = said[n]
  BY DEF ReadOneByOne
<1>1. G[0] = <<>> /\ \A n \in Nat \ {0} : G[n] = G[n - 1] \o pieces[n]
  BY ConcatenatedEquation
<1>. HIDE DEF G
<1>2. ASSUME NEW n \in Nat, \A m \in Nat : m < n => m \in S PROVE n \in S
  <2>1. CASE n = 0
    <3>1. G[0] \in Tokens /\ x \o G[0] = x
      BY <1>1, NoTokens, TokensConcat
    <3>. QED BY <1>0, <2>1, <3>1
  <2>2. CASE n \in 1..N
    <3>1. n - 1 \in Nat /\ n - 1 < n /\ n - 1 <= N
      BY <2>2
    <3>2. G[n - 1] \in Tokens /\ ParseProgram(x \o G[n - 1]) = said[n - 1]
      BY <1>2, <3>1
    <3>3. G[n] = G[n - 1] \o pieces[n] /\ pieces[n] \in Tokens /\ StartsStatement(pieces[n])
      <4>1. n \in Nat \ {0}
        BY <2>2
      <4>2. G[n] = G[n - 1] \o pieces[n]
        BY <1>1, <4>1
      <4>3. pieces[n] \in Tokens /\ StartsStatement(pieces[n])
        BY <1>0, <2>2
      <4>. QED BY <4>2, <4>3
    <3>4. G[n] \in Tokens /\ x \o G[n - 1] \in Tokens
      BY <3>2, <3>3, TokensConcat
    <3>5. x \o G[n] = (x \o G[n - 1]) \o pieces[n]
      <4>. DEFINE b == G[n - 1]
                  c == pieces[n]
      <4>1. x \in Tokens /\ b \in Tokens /\ c \in Tokens
        BY <3>2, <3>3
      <4>. HIDE DEF b, c
      <4>2. (x \o b) \o c = x \o (b \o c)
        BY ONLY <4>1, ConcatThrice
      <4>. QED BY <3>3, <4>2 DEF b, c
    <3>6. said[n - 1].ok
      BY <1>0, <2>2, <3>1
    <3>7. Closed(x \o G[n - 1])
      BY <3>2, <3>6 DEF Closed
    <3>8. TextResumes(x \o G[n - 1], pieces[n])
      BY <3>3, <3>4, TextsResume
    <3>9. ParseProgram((x \o G[n - 1]) \o pieces[n]) = Joined(said[n - 1], ParseProgram(pieces[n]))
      BY <3>2, <3>7, <3>8 DEF TextResumes
    <3>. QED BY <1>0, <2>2, <3>4, <3>5, <3>9
  <2>. QED BY <2>1, <2>2
<1>3. Nat \subseteq S
  <2>. HIDE DEF S
  <2>. QED BY <1>2, Concatenating!CompleteInduction
<1>. QED BY <1>3 DEF G

\* The beginning of a sequence.
Beginning(s, n) == [i \in 1..n |-> s[i]]

\* A beginning with one element more; the longest is the whole.
LEMMA BeginningGrows ==
  ASSUME NEW T, NEW s \in Seq(T)
  PROVE  /\ Beginning(s, 0) = <<>>
         /\ Beginning(s, Len(s)) = s
         /\ \A n \in 1..Len(s) : Beginning(s, n) = Beginning(s, n - 1) \o << s[n] >>
         /\ \A n \in 0..Len(s) : Beginning(s, n) \in Seq(T)
<1>1. Len(s) \in Nat /\ DOMAIN s = 1..Len(s) /\ \A i \in 1..Len(s) : s[i] \in T
  BY LenProperties
<1>2. \A n \in 0..Len(s) : Beginning(s, n) \in Seq(T) /\ Len(Beginning(s, n)) = n
  BY <1>1 DEF Beginning
<1>3. Beginning(s, 0) = <<>>
  BY DEF Beginning
<1>4. Beginning(s, Len(s)) = s
  BY <1>1 DEF Beginning
<1>5. ASSUME NEW n \in 1..Len(s) PROVE Beginning(s, n) = Beginning(s, n - 1) \o << s[n] >>
  <2>. DEFINE a == Beginning(s, n)
              b == Beginning(s, n - 1)
              c == << s[n] >>
  <2>1. n - 1 \in 0..Len(s) /\ n \in 0..Len(s) /\ n \in Nat /\ s[n] \in T
    BY <1>1
  <2>2. a \in Seq(T) /\ Len(a) = n /\ b \in Seq(T) /\ Len(b) = n - 1
    BY <1>2, <2>1
  <2>3. c \in Seq(T) /\ Len(c) = 1 /\ c[1] = s[n]
    BY <2>1
  <2>4. (\A i \in 1..n : a[i] = s[i]) /\ (\A i \in 1..n - 1 : b[i] = s[i])
    BY DEF Beginning
  <2>. HIDE DEF a, b, c
  <2>5. /\ b \o c \in Seq(T) /\ Len(b \o c) = Len(b) + Len(c)
        /\ \A i \in 1..Len(b) + Len(c) : (b \o c)[i] = IF i <= Len(b) THEN b[i] ELSE c[i - Len(b)]
    BY <2>2, <2>3, ConcatProperties
  <2>6. \A i \in 1..n : (b \o c)[i] = s[i]
    BY <2>1, <2>2, <2>3, <2>4, <2>5
  <2>7. a = b \o c
    BY <2>1, <2>2, <2>3, <2>4, <2>5, <2>6, SeqEqual
  <2>. QED BY <2>7 DEF a, b, c
<1>. QED BY <1>2, <1>3, <1>4, <1>5

\* What has been read, if the next statement is read after it.
LEMMA ReadJoins ==
  ASSUME NEW vs, NEW cs, NEW ws, NEW ds
  PROVE  /\ ProgramRead(vs, cs, TRUE).ok
         /\ Joined(ProgramRead(vs, cs, TRUE), ProgramRead(ws, ds, TRUE)) =
              ProgramRead(vs \o ws, cs \o ds, TRUE)
BY DEF Joined, ProgramRead

\* The printed declarations are read as the variables they declare.
LEMMA VariablesRead ==
  ASSUME NEW vs \in Environment
  PROVE  LET printed == Concatenated([i \in DOMAIN vs |-> PrintedVariable(vs[i])])
         IN printed \in Tokens /\ ParseProgram(printed) = ProgramRead(vs, <<>>, TRUE)
<1>. DEFINE T == [name: STRING, sort: VariableSort]
            N == Len(vs)
            pieces == [i \in DOMAIN vs |-> PrintedVariable(vs[i])]
            said == [n \in 0..N |-> ProgramRead(Beginning(vs, n), <<>>, TRUE)]
<1>1. vs \in Seq(T) /\ N \in Nat /\ DOMAIN vs = 1..N /\ \A i \in 1..N : vs[i] \in T
  BY LenProperties DEF Environment
<1>2. \A v \in T : v = [name |-> v.name, sort |-> v.sort] /\ v.name \in STRING /\ v.sort \in VariableSort
  OBVIOUS
<1>3. \A v \in T : /\ PrintedVariable(v) \in Tokens /\ StartsStatement(PrintedVariable(v))
                   /\ ParseProgram(PrintedVariable(v)) = ProgramRead(<< v >>, <<>>, TRUE)
  <2>1. SUFFICES ASSUME NEW v \in T
                 PROVE  /\ PrintedVariable(v) \in Tokens /\ StartsStatement(PrintedVariable(v))
                        /\ ParseProgram(PrintedVariable(v)) = ProgramRead(<< v >>, <<>>, TRUE)
    OBVIOUS
  <2>. DEFINE name == v.name
              sort == v.sort
  <2>2. name \in STRING /\ sort \in VariableSort /\ v = [name |-> name, sort |-> sort]
    BY <1>2
  <2>. HIDE DEF name, sort
  <2>. QED BY <2>2, PrintedVariableReads
<1>4. \A i \in 1..N : pieces[i] = PrintedVariable(vs[i])
  BY <1>1
<1>5. pieces \in Seq(Tokens) /\ Len(pieces) = N
  <2>1. pieces \in [1..N -> Tokens]
    BY <1>1, <1>3
  <2>. QED BY <1>1, <2>1
<1>6. \A n \in 0..N : said[n] = ProgramRead(Beginning(vs, n), <<>>, TRUE)
  OBVIOUS
<1>. HIDE DEF pieces, said, T, N
<1>7. /\ Beginning(vs, 0) = <<>> /\ Beginning(vs, N) = vs
      /\ \A n \in 1..N : Beginning(vs, n) = Beginning(vs, n - 1) \o << vs[n] >>
  BY <1>1, BeginningGrows DEF N
<1>8. ParseProgram(<<>>) = said[0]
  <2>1. ParseProgram(<<>>) = ProgramRead(<<>>, <<>>, TRUE)
    BY NoTokens, ProgramEquation
  <2>2. 0 \in 0..N
    BY <1>1
  <2>3. said[0] = ProgramRead(Beginning(vs, 0), <<>>, TRUE)
    BY <1>6, <2>2
  <2>. QED BY <1>7, <2>1, <2>3
<1>9. \A n \in 0..N : said[n].ok
  BY <1>6, ReadJoins
<1>10. ASSUME NEW n \in 1..N
       PROVE  /\ pieces[n] \in Tokens /\ StartsStatement(pieces[n])
              /\ Joined(said[n - 1], ParseProgram(pieces[n])) = said[n]
  <2>1. vs[n] \in T /\ pieces[n] = PrintedVariable(vs[n]) /\ n - 1 \in 0..N /\ n \in 0..N
    BY <1>1, <1>4
  <2>2. /\ pieces[n] \in Tokens /\ StartsStatement(pieces[n])
        /\ ParseProgram(pieces[n]) = ProgramRead(<< vs[n] >>, <<>>, TRUE)
    BY <1>3, <2>1
  <2>3. said[n - 1] = ProgramRead(Beginning(vs, n - 1), <<>>, TRUE)
    BY <1>6, <2>1
  <2>4. Joined(said[n - 1], ParseProgram(pieces[n])) =
          ProgramRead(Beginning(vs, n - 1) \o << vs[n] >>, <<>> \o <<>>, TRUE)
    <3>1. \A a, b : Joined(ProgramRead(a, <<>>, TRUE), ProgramRead(b, <<>>, TRUE)) =
                     ProgramRead(a \o b, <<>> \o <<>>, TRUE)
      BY ReadJoins
    <3>. QED BY ONLY <2>2, <2>3, <3>1
  <2>5. <<>> \o <<>> = <<>>
    OBVIOUS
  <2>6. Beginning(vs, n - 1) \o << vs[n] >> = Beginning(vs, n) /\ said[n] = ProgramRead(Beginning(vs, n), <<>>, TRUE)
    BY <1>6, <1>7, <2>1
  <2>. QED BY <2>2, <2>4, <2>5, <2>6
<1>11. /\ ConcatenatedAt(pieces)[N] \in Tokens
       /\ ParseProgram(<<>> \o ConcatenatedAt(pieces)[N]) = said[N]
  <2>1. <<>> \in Tokens /\ N \in Nat
    BY <1>1, NoTokens
  <2>2. ReadOneByOne(<<>>, N, pieces, said)
    BY <1>8, <1>9, <1>10 DEF ReadOneByOne
  <2>. QED BY <2>1, <2>2, StatementsRead
<1>12. Concatenated(pieces) = ConcatenatedAt(pieces)[N]
  BY <1>5, ConcatenatedEquation
<1>13. said[N] = ProgramRead(vs, <<>>, TRUE)
  <2>1. N \in 0..N
    BY <1>1
  <2>. QED BY <1>6, <1>7, <2>1
<1>. QED BY <1>11, <1>12, <1>13, TokensConcat DEF pieces

\* The printed constraints, after the declarations, are read as the constraints
\* without the widths of their literals.
LEMMA ConstraintsRead ==
  ASSUME NEW x \in Tokens, NEW vs \in Environment, ParseProgram(x) = ProgramRead(vs, <<>>, TRUE),
         NEW cs \in Seq(Expression), \A i \in DOMAIN cs : LiteralsFit(Plain(cs[i]))
  PROVE  LET printed == Concatenated([i \in DOMAIN cs |-> PrintedConstraint(cs[i])])
         IN printed \in Tokens /\ ParseProgram(x \o printed) = ProgramRead(vs, WithoutWidths(cs), TRUE)
<1>. DEFINE ds == WithoutWidths(cs)
            T == { ds[i] : i \in DOMAIN cs }
            N == Len(cs)
            pieces == [i \in DOMAIN cs |-> PrintedConstraint(cs[i])]
            said == [n \in 0..N |-> ProgramRead(vs, Beginning(ds, n), TRUE)]
<1>1. N \in Nat /\ DOMAIN cs = 1..N /\ \A i \in 1..N : cs[i] \in Expression
  BY LenProperties
<1>2. \A i \in 1..N : ds[i] = Plain(cs[i])
  BY <1>1 DEF WithoutWidths
<1>3. ASSUME NEW i \in 1..N
      PROVE  /\ PrintedConstraint(cs[i]) \in Tokens /\ StartsStatement(PrintedConstraint(cs[i]))
             /\ ParseProgram(PrintedConstraint(cs[i])) = ProgramRead(<<>>, << ds[i] >>, TRUE)
  <2>. DEFINE e == cs[i]
  <2>1. e \in Expression /\ LiteralsFit(Plain(e)) /\ ds[i] = Plain(e)
    BY <1>1, <1>2
  <2>. HIDE DEF e
  <2>2. /\ PrintedConstraint(e) \in Tokens /\ StartsStatement(PrintedConstraint(e))
        /\ ParseProgram(PrintedConstraint(e)) = ProgramRead(<<>>, << Plain(e) >>, TRUE)
    BY <2>1, PrintedConstraintReads
  <2>. QED BY <2>1, <2>2 DEF e
<1>4. \A i \in 1..N : pieces[i] = PrintedConstraint(cs[i])
  BY <1>1
<1>5. Len(pieces) = N
  <2>1. pieces \in [1..N -> Tokens]
    BY <1>1, <1>3
  <2>. QED BY <1>1, <2>1
<1>6. ds \in Seq(T) /\ Len(ds) = N
  <2>1. DOMAIN ds = 1..N /\ ds = [i \in 1..N |-> Plain(cs[i])]
    BY <1>1 DEF WithoutWidths
  <2>2. \A i \in 1..N : ds[i] \in T
    BY <1>1
  <2>. HIDE DEF T, ds, N
  <2>3. ds \in [1..N -> T]
    BY <2>1, <2>2
  <2>. QED BY <1>1, <2>3
<1>7. \A n \in 0..N : said[n] = ProgramRead(vs, Beginning(ds, n), TRUE)
  OBVIOUS
<1>. HIDE DEF pieces, said, T, N, ds
<1>8. /\ Beginning(ds, 0) = <<>> /\ Beginning(ds, N) = ds
      /\ \A n \in 1..N : Beginning(ds, n) = Beginning(ds, n - 1) \o << ds[n] >>
  BY <1>6, BeginningGrows
<1>9. ParseProgram(x) = said[0]
  <2>1. 0 \in 0..N
    BY <1>1
  <2>2. said[0] = ProgramRead(vs, Beginning(ds, 0), TRUE)
    BY <1>7, <2>1
  <2>. QED BY <1>8, <2>2
<1>10. \A n \in 0..N : said[n].ok
  BY <1>7, ReadJoins
<1>11. ASSUME NEW n \in 1..N
       PROVE  /\ pieces[n] \in Tokens /\ StartsStatement(pieces[n])
              /\ Joined(said[n - 1], ParseProgram(pieces[n])) = said[n]
  <2>1. pieces[n] = PrintedConstraint(cs[n]) /\ n - 1 \in 0..N /\ n \in 0..N
    BY <1>1, <1>4
  <2>2. /\ pieces[n] \in Tokens /\ StartsStatement(pieces[n])
        /\ ParseProgram(pieces[n]) = ProgramRead(<<>>, << ds[n] >>, TRUE)
    BY <1>3, <2>1
  <2>3. said[n - 1] = ProgramRead(vs, Beginning(ds, n - 1), TRUE)
    BY <1>7, <2>1
  <2>4. Joined(said[n - 1], ParseProgram(pieces[n])) =
          ProgramRead(vs \o <<>>, Beginning(ds, n - 1) \o << ds[n] >>, TRUE)
    <3>1. \A a, b : Joined(ProgramRead(vs, a, TRUE), ProgramRead(<<>>, b, TRUE)) =
                     ProgramRead(vs \o <<>>, a \o b, TRUE)
      BY ReadJoins
    <3>. QED BY ONLY <2>2, <2>3, <3>1
  <2>5. vs \o <<>> = vs
    BY ConcatEmptySeq DEF Environment
  <2>6. Beginning(ds, n - 1) \o << ds[n] >> = Beginning(ds, n) /\ said[n] = ProgramRead(vs, Beginning(ds, n), TRUE)
    BY <1>7, <1>8, <2>1
  <2>. QED BY <2>2, <2>4, <2>5, <2>6
<1>12. /\ ConcatenatedAt(pieces)[N] \in Tokens
       /\ ParseProgram(x \o ConcatenatedAt(pieces)[N]) = said[N]
  <2>1. x \in Tokens /\ N \in Nat
    BY <1>1
  <2>2. ReadOneByOne(x, N, pieces, said)
    BY <1>9, <1>10, <1>11 DEF ReadOneByOne
  <2>. QED BY <2>1, <2>2, StatementsRead
<1>13. Concatenated(pieces) = ConcatenatedAt(pieces)[N]
  BY <1>5, ConcatenatedEquation
<1>14. said[N] = ProgramRead(vs, ds, TRUE)
  <2>1. N \in 0..N
    BY <1>1
  <2>. QED BY <1>7, <1>8, <2>1
<1>. QED BY <1>12, <1>13, <1>14 DEF pieces, ds

\* The parser reads the text of a problem as its variables and its constraints,
\* without the widths of their literals (DslPrinter.cpp 97-143 against Parser.cpp
\* 75-433).
THEOREM PrintedProblemReads ==
  ASSUME NEW p, p.variables \in Environment, p.constraints \in Seq(Expression),
         \A i \in DOMAIN p.constraints : LiteralsFit(Plain(p.constraints[i]))
  PROVE  /\ PrintedProblem(p) \in Tokens
         /\ ParseProgram(PrintedProblem(p)) = ProgramRead(p.variables, WithoutWidths(p.constraints), TRUE)
<1>. DEFINE vs == p.variables
            cs == p.constraints
            a == Concatenated([i \in DOMAIN vs |-> PrintedVariable(vs[i])])
            b == Concatenated([i \in DOMAIN cs |-> PrintedConstraint(cs[i])])
<1>1. PrintedProblem(p) = a \o b
  BY DEF PrintedProblem
<1>2. vs \in Environment /\ cs \in Seq(Expression) /\ \A i \in DOMAIN cs : LiteralsFit(Plain(cs[i]))
  OBVIOUS
<1>. HIDE DEF vs, cs
<1>3. a \in Tokens /\ ParseProgram(a) = ProgramRead(vs, <<>>, TRUE)
  BY <1>2, VariablesRead
<1>. HIDE DEF a
<1>4. b \in Tokens /\ ParseProgram(a \o b) = ProgramRead(vs, WithoutWidths(cs), TRUE)
  BY <1>2, <1>3, ConstraintsRead
<1>. HIDE DEF b
<1>5. a \o b \in Tokens
  BY <1>3, <1>4, TokensConcat
<1>. QED BY <1>1, <1>4, <1>5 DEF vs, cs

-----------------------------------------------------------------------------
(* The whole way: printed, parsed and analyzed.                             *)

\* What the printer writes of a validated problem is parsed and analyzed to the
\* same problem.
THEOREM PrintedTextRebuilds == Spec => []PrintedRebuildsProblem
<1>1. Inv /\ (problem # Nothing => RebuildsFrom(WithoutWidths(problem.constraints)))
        => PrintedRebuildsProblem
  <2>. DEFINE program == Parse(source)
              vs == problem.variables
              cs == problem.constraints
  <2>1. SUFFICES ASSUME Inv, problem # Nothing, RebuildsFrom(WithoutWidths(cs))
                 PROVE  Contents(RebuildProgram(ParseProgram(PrintedProblem(problem)))) = problem
    BY DEF PrintedRebuildsProblem
  <2>2. vs \in Environment /\ cs \in Seq(Expression)
    BY <2>1 DEF Inv, ProblemIsAccepted
  <2>3. /\ source \in TypedTexts /\ RebuildProgram(program).ok
        /\ problem = Contents(RebuildProgram(program))
    BY <2>1 DEF Inv, ProblemIsRebuilt
  <2>4. /\ program \in Program /\ WithoutWidths(program.constraints) = program.constraints
        /\ \A i \in DOMAIN program.constraints : LiteralsFit(program.constraints[i])
    BY <2>3, ParserAssumption
  <2>. HIDE DEF program
  <2>5. WithoutWidths(cs) = program.constraints
    BY <2>3, <2>4, RebuiltSays
  <2>6. \A i \in DOMAIN cs : i \in DOMAIN program.constraints /\ program.constraints[i] = Plain(cs[i])
    BY <2>5 DEF WithoutWidths
  <2>7. \A i \in DOMAIN cs : LiteralsFit(Plain(cs[i]))
    BY <2>4, <2>6
  <2>8. ParseProgram(PrintedProblem(problem)) = ProgramRead(vs, WithoutWidths(cs), TRUE)
    BY <2>2, <2>7, PrintedProblemReads
  <2>9. Contents(RebuildProgram(ProgramRead(vs, WithoutWidths(cs), TRUE))) = problem
    BY <2>1 DEF RebuildsFrom, ProgramRead
  <2>. QED BY <2>8, <2>9
<1>. QED BY <1>1, InvHolds, TextRestoresContents, PTL
=============================================================================
