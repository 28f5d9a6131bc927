----------------------------- MODULE ParserProofs -----------------------------
(***************************************************************************)
(* The parser against the documented grammar, for every sequence of        *)
(* tokens.                                                                 *)
(***************************************************************************)
EXTENDS TextEntry, SequenceTheorems, TLAPS

-----------------------------------------------------------------------------
(* Sequences of tokens, taken apart at their head.                          *)

Tokens == Seq(AnyToken)
Cons(t, ts) == <<t>> \o ts

\* A token before a sequence: the parser peeks at it and advances past it.
LEMMA ConsTokens ==
  ASSUME NEW t \in AnyToken, NEW ts \in Tokens
  PROVE  /\ Cons(t, ts) \in Tokens /\ Cons(t, ts) # <<>> /\ Len(Cons(t, ts)) = Len(ts) + 1
         /\ Peek(Cons(t, ts)) = t
         /\ Advance(Cons(t, ts)) = ts
         /\ Cons(t, ts)[1] = t
         /\ Tail(Cons(t, ts)) = ts
<1>1. <<t>> \in Tokens /\ Len(<<t>>) = 1
  <2>1. \A T : \A x \in T : <<x>> \in Seq(T)
    OBVIOUS
  <2>. QED BY <2>1 DEF Tokens
<1>2. /\ Cons(t, ts) \in Tokens /\ Len(Cons(t, ts)) = Len(ts) + 1
      /\ \A i \in 1..Len(ts) + 1 : Cons(t, ts)[i] = IF i = 1 THEN t ELSE ts[i - 1]
      /\ Len(ts) \in Nat
  BY <1>1, ConcatProperties, LenProperties DEF Tokens, Cons
<1>. HIDE DEF Cons
<1>3. Cons(t, ts) # <<>> /\ Cons(t, ts)[1] = t
  BY <1>2
<1>4. Peek(Cons(t, ts)) = t
  BY <1>2, <1>3, LenProperties DEF Peek, PeekAt, Tokens
<1>5. Tail(Cons(t, ts)) = ts
  <2>1. /\ Tail(Cons(t, ts)) \in Tokens
        /\ Len(Tail(Cons(t, ts))) = Len(ts)
        /\ \A i \in 1..Len(ts) : Tail(Cons(t, ts))[i] = Cons(t, ts)[i + 1]
    BY <1>2, <1>3, HeadTailProperties DEF Tokens
  <2>2. \A i \in 1..Len(ts) : Tail(Cons(t, ts))[i] = ts[i]
    BY <1>2, <2>1
  <2>. QED BY <2>1, <2>2, SeqEqual DEF Tokens
<1>. QED BY <1>2, <1>3, <1>4, <1>5 DEF Advance

\* A sequence is empty or has a first token.
LEMMA TokensCases ==
  ASSUME NEW ts \in Tokens, ts # <<>>
  PROVE  /\ ts[1] \in AnyToken /\ Tail(ts) \in Tokens /\ ts = Cons(ts[1], Tail(ts))
         /\ Len(Tail(ts)) = Len(ts) - 1 /\ Len(ts) \in Nat \ {0}
         /\ Peek(ts) = ts[1] /\ Advance(ts) = Tail(ts)
<1>1. /\ Tail(ts) \in Tokens /\ Len(Tail(ts)) = Len(ts) - 1 /\ Len(ts) \in Nat \ {0}
      /\ \A i \in 1..Len(ts) - 1 : Tail(ts)[i] = ts[i + 1]
  BY HeadTailProperties, EmptySeq DEF Tokens
<1>2. ts[1] \in AnyToken
  BY <1>1, ElementOfSeq DEF Tokens
<1>3. ts = Cons(ts[1], Tail(ts))
  <2>1. /\ <<ts[1]>> \in Seq(AnyToken) /\ Len(<<ts[1]>>) = 1
    BY <1>2
  <2>2. /\ Cons(ts[1], Tail(ts)) \in Seq(AnyToken)
        /\ Len(Cons(ts[1], Tail(ts))) = Len(ts)
        /\ \A i \in 1..Len(ts) : Cons(ts[1], Tail(ts))[i] = IF i = 1 THEN ts[1] ELSE Tail(ts)[i - 1]
    BY <1>1, <2>1, ConcatProperties DEF Cons, Tokens
  <2>3. \A i \in 1..Len(ts) : Cons(ts[1], Tail(ts))[i] = ts[i]
    BY <1>1, <2>2
  <2>. QED BY <2>2, <2>3, SeqEqual DEF Tokens
<1>. QED BY <1>1, <1>2, <1>3, ConsTokens

\* Past the end there is the Eof token, and nothing to advance over.
LEMMA NoTokens ==
  /\ <<>> \in Tokens /\ Len(<<>>) = 0 /\ Advance(<<>>) = <<>> /\ Peek(<<>>).type = "Eof"
  BY DEF Tokens, Advance, Peek, PeekAt, Lexeme, Token

\* Only the empty sequence has length 0.
LEMMA NoLength ==
  ASSUME NEW ts \in Tokens
  PROVE  Len(ts) \in Nat /\ (Len(ts) = 0 <=> ts = <<>>)
<1>1. \A s \in Seq(AnyToken) : s # <<>> => Len(s) \in Nat \ {0}
  BY EmptySeq
<1>. QED BY <1>1, NoTokens, LenProperties DEF Tokens

\* A sequence with a length is not empty.
LEMMA LongerThanNothing ==
  ASSUME NEW ts, Len(ts) # 0
  PROVE  ts # <<>>
<1>1. Len(<<>>) = 0
  BY NoTokens
<1>. QED BY <1>1

\* advance() leaves fewer tokens, except at the end.
LEMMA AdvanceShortens ==
  ASSUME NEW ts \in Tokens
  PROVE  /\ Advance(ts) \in Tokens
         /\ Len(Advance(ts)) \in Nat /\ Len(ts) \in Nat /\ Len(Advance(ts)) <= Len(ts)
         /\ ts # <<>> => Len(Advance(ts)) < Len(ts)
<1>1. CASE ts = <<>>
  BY <1>1, NoTokens
<1>2. CASE ts # <<>>
  <2>1. Advance(ts) \in Tokens /\ Len(Advance(ts)) = Len(ts) - 1 /\ Len(ts) \in Nat \ {0}
    BY <1>2, TokensCases
  <2>. QED BY <1>2, <2>1
<1>. QED BY <1>1, <1>2

\* Tokens before tokens.
LEMMA TokensConcat ==
  ASSUME NEW a \in Tokens, NEW b \in Tokens
  PROVE  /\ a \o b \in Tokens /\ Len(a \o b) = Len(a) + Len(b) /\ Len(a) \in Nat /\ Len(b) \in Nat
         /\ a \o <<>> = a /\ <<>> \o b = b
  BY ConcatProperties, ConcatEmptySeq, LenProperties DEF Tokens

\* Concatenation is associative.
LEMMA ConcatThrice ==
  ASSUME NEW a \in Tokens, NEW b \in Tokens, NEW c \in Tokens
  PROVE  (a \o b) \o c = a \o (b \o c)
  BY ConcatAssociative DEF Tokens

\* A first token and then more.
LEMMA ConsConcat ==
  ASSUME NEW t \in AnyToken, NEW a \in Tokens, NEW b \in Tokens
  PROVE  Cons(t, a) \o b = Cons(t, a \o b)
<1>1. <<t>> \in Tokens
  <2>1. \A T : \A x \in T : <<x>> \in Seq(T)
    OBVIOUS
  <2>. QED BY <2>1 DEF Tokens
<1>. QED BY <1>1, ConcatThrice DEF Cons

-----------------------------------------------------------------------------
(* The tables of operators.                                                 *)

\* binaryOpFor, toString(BinaryOp) and the documented levels agree.
LEMMA OperatorTable ==
  \A s \in OperatorSymbols :
    /\ BinaryOpFor[s].op \in BinaryOps
    /\ BinaryOpFor[s].precedence \in 1..8
    /\ BinarySymbol[BinaryOpFor[s].op] = s
    /\ \A l \in 1..8 : BinaryOpFor[s].precedence = l <=> s \in Levels[l]
<1>1. \A s \in OperatorSymbols :
        BinaryOpFor[s].op \in BinaryOps /\ BinarySymbol[BinaryOpFor[s].op] = s
  BY DEF OperatorSymbols, BinaryOpFor, OperatorInfo, BinaryOps, BinarySymbol
<1>2. \A s \in OperatorSymbols : BinaryOpFor[s].precedence \in 1..8
  BY DEF OperatorSymbols, BinaryOpFor, OperatorInfo
<1>3. \A s \in OperatorSymbols : \A l \in 1..8 : BinaryOpFor[s].precedence = l <=> s \in Levels[l]
  BY DEF OperatorSymbols, BinaryOpFor, OperatorInfo, Levels
<1>. QED BY <1>1, <1>2, <1>3

\* An operator is the one its symbol names.
LEMMA SymbolTable ==
  /\ \A l \in 1..8 : Levels[l] \subseteq OperatorSymbols
  /\ DOMAIN BinaryOpFor = OperatorSymbols
  /\ \A s \in OperatorSymbols : OpOfSymbol(s) = BinaryOpFor[s].op
<1>1. \A l \in 1..8 : Levels[l] \subseteq OperatorSymbols
  BY DEF OperatorSymbols, Levels
<1>2. \A o, p \in BinaryOps : BinarySymbol[o] = BinarySymbol[p] => o = p
  BY DEF BinaryOps, BinarySymbol
<1>3. \A s \in OperatorSymbols : OpOfSymbol(s) = BinaryOpFor[s].op
  BY <1>2, OperatorTable DEF OpOfSymbol
<1>. QED BY <1>1, <1>3 DEF BinaryOpFor

\* The parser's prefix operators are those of the grammar.
LEMMA PrefixTable ==
  /\ PrefixSymbols = {"-", "!", "~"}
  /\ DOMAIN UnaryOpFor = {"-", "!", "~"}
  /\ \A s \in PrefixSymbols : UnaryOpOfSymbol(s) = UnaryOpFor[s]
<1>1. PrefixSymbols = {"-", "!", "~"}
  BY DEF PrefixSymbols, UnaryOps, UnarySymbol
<1>2. \A s \in {"-", "!", "~"} : UnaryOpFor[s] \in UnaryOps /\ UnarySymbol[UnaryOpFor[s]] = s
  BY DEF UnaryOpFor, UnaryOps, UnarySymbol
<1>3. \A o, p \in UnaryOps : UnarySymbol[o] = UnarySymbol[p] => o = p
  BY DEF UnaryOps, UnarySymbol
<1>4. \A s \in PrefixSymbols : UnaryOpOfSymbol(s) = UnaryOpFor[s]
  BY <1>1, <1>2, <1>3 DEF UnaryOpOfSymbol
<1>. QED BY <1>1, <1>4 DEF UnaryOpFor

-----------------------------------------------------------------------------
(* The parser's recursion.                                                  *)

GoalHeight(goal) == 2 * Len(goal.rest) + (IF goal.rule = "expression" THEN 1 ELSE 0)
GoalStep(p, parse, goal) == ParseStep(parse, goal)

IsSequence(s) == \E S : s \in Seq(S)

\* What is left is no longer than what there was.
ReadsOn(p, goal, v) ==
  /\ v.rest \in Tokens
  /\ Len(v.rest) <= Len(goal.rest)
  /\ goal.rule = "operators" => IsSequence(v.operands)

LOCAL Parsing == INSTANCE Recursion
  WITH Domain <- Goals, Height <- GoalHeight, Step <- GoalStep, Fits <- ReadsOn

\* f and g parse alike, and properly, what is shorter than n.
ParseAlike(f, g, rule, n) ==
  \A s \in Tokens : \A m \in Nat : Len(s) < n =>
    f[Goal(rule, s, m)] = g[Goal(rule, s, m)] /\ ReadsOn({}, Goal(rule, s, m), f[Goal(rule, s, m)])

\* A goal from its parts.
LEMMA GoalMade ==
  ASSUME NEW rule \in {"expression", "operators"}, NEW s \in Tokens, NEW m \in Nat
  PROVE  /\ Goal(rule, s, m) \in Goals
         /\ Goal(rule, s, m).rule = rule /\ Goal(rule, s, m).rest = s /\ Goal(rule, s, m).min = m
         /\ GoalHeight(Goal("expression", s, m)) = 2 * Len(s) + 1
         /\ GoalHeight(Goal("operators", s, m)) = 2 * Len(s)
<1>1. Len(s) \in Nat
  BY LenProperties DEF Tokens
<1>. QED BY <1>1 DEF Goals, Goal, Tokens, GoalHeight

\* The parts of a goal.
LEMMA GoalParts ==
  ASSUME NEW goal \in Goals
  PROVE  /\ goal.rule \in {"expression", "operators"} /\ goal.rest \in Tokens /\ goal.min \in Nat
         /\ goal = Goal(goal.rule, goal.rest, goal.min)
         /\ GoalHeight(goal) \in Nat /\ GoalHeight(goal) >= 2 * Len(goal.rest)
         /\ Len(goal.rest) \in Nat
<1>1. /\ goal.rule \in {"expression", "operators"} /\ goal.rest \in Tokens /\ goal.min \in Nat
      /\ goal = Goal(goal.rule, goal.rest, goal.min)
  BY DEF Goals, Goal, Tokens
<1>2. Len(goal.rest) \in Nat
  BY <1>1, LenProperties DEF Tokens
<1>3. CASE goal.rule = "expression"
  <2>1. GoalHeight(goal) = 2 * Len(goal.rest) + 1
    BY <1>3 DEF GoalHeight
  <2>. QED BY <1>1, <1>2, <2>1
<1>4. CASE goal.rule = "operators"
  <2>1. GoalHeight(goal) = 2 * Len(goal.rest)
    BY <1>2, <1>4 DEF GoalHeight
  <2>. QED BY <1>1, <1>2, <2>1
<1>. QED BY <1>1, <1>3, <1>4

\* What f and g make of one shorter goal.
LEMMA AlikeAt ==
  ASSUME NEW f, NEW g, NEW rule \in {"expression", "operators"}, NEW n, ParseAlike(f, g, rule, n),
         NEW s \in Tokens, NEW m \in Nat, Len(s) < n
  PROVE  /\ f[Goal(rule, s, m)] = g[Goal(rule, s, m)]
         /\ ReadsOn({}, Goal(rule, s, m), f[Goal(rule, s, m)])
         /\ Goal(rule, s, m).rest = s
<1>1. Goal(rule, s, m).rest = s
  BY GoalMade
<1>2. /\ f[Goal(rule, s, m)] = g[Goal(rule, s, m)]
      /\ ReadsOn({}, Goal(rule, s, m), f[Goal(rule, s, m)])
  BY DEF ParseAlike
<1>. QED BY <1>1, <1>2

\* parsePrimary looks at shorter goals only, and leaves no more than there was.
LEMMA PrimaryLooksBelow ==
  ASSUME NEW f, NEW g, NEW ts \in Tokens, ParseAlike(f, g, "expression", Len(ts))
  PROVE  /\ ParsePrimary(f, ts) = ParsePrimary(g, ts)
         /\ ParsePrimary(f, ts).rest \in Tokens
         /\ Len(ParsePrimary(f, ts).rest) <= Len(ts)
<1>1. Advance(ts) \in Tokens /\ Len(Advance(ts)) <= Len(ts) /\ Len(ts) \in Nat
      /\ (ts # <<>> => Len(Advance(ts)) < Len(ts))
  BY AdvanceShortens
<1>2. CASE Peek(ts).type = "("
  <2>. DEFINE goal == Goal("expression", Advance(ts), 0)
  <2>1. ts # <<>>
    BY <1>2, NoTokens
  <2>2. f[goal] = g[goal] /\ ReadsOn({}, goal, f[goal]) /\ goal.rest = Advance(ts)
    BY <1>1, <2>1, AlikeAt
  <2>3. /\ ParsePrimary(f, ts) = InParentheses(f[goal])
        /\ ParsePrimary(g, ts) = InParentheses(g[goal])
    BY <1>2 DEF ParsePrimary
  <2>. HIDE DEF goal
  <2>4. f[goal].rest \in Tokens /\ Len(f[goal].rest) <= Len(Advance(ts)) /\ Len(f[goal].rest) \in Nat
    BY <2>2, LenProperties DEF ReadsOn, Tokens
  <2>5. Advance(f[goal].rest) \in Tokens /\ Len(Advance(f[goal].rest)) <= Len(f[goal].rest)
    BY <2>4, AdvanceShortens
  <2>6. /\ InParentheses(f[goal]).rest \in Tokens
        /\ Len(InParentheses(f[goal]).rest) <= Len(f[goal].rest)
    BY <2>4, <2>5 DEF InParentheses, Parsed
  <2>. QED BY <1>1, <2>2, <2>3, <2>4, <2>6
<1>3. CASE Peek(ts).type # "("
  <2>1. ParsePrimary(f, ts) = ParsePrimary(g, ts)
    BY <1>3 DEF ParsePrimary
  <2>2. ParsePrimary(f, ts).rest = Advance(ts)
    BY <1>3 DEF ParsePrimary, ParseSigned, Parsed
  <2>. QED BY <1>1, <2>1, <2>2
<1>. QED BY <1>2, <1>3

\* The same of parseUnary.
LEMMA UnaryLooksBelow ==
  ASSUME NEW f, NEW g, NEW ts \in Tokens, ParseAlike(f, g, "expression", Len(ts))
  PROVE  /\ ParseUnary(f, ts) = ParseUnary(g, ts)
         /\ ParseUnary(f, ts).rest \in Tokens
         /\ Len(ParseUnary(f, ts).rest) <= Len(ts)
<1>1. CASE Peek(ts).type \in DOMAIN UnaryOpFor
  <2>. DEFINE goal == Goal("expression", Advance(ts), PrefixPrecedence)
  <2>1. ts # <<>>
    BY <1>1, NoTokens, PrefixTable
  <2>2. Advance(ts) \in Tokens /\ Len(Advance(ts)) < Len(ts) /\ Len(Advance(ts)) \in Nat /\ Len(ts) \in Nat
    BY <2>1, AdvanceShortens
  <2>3. f[goal] = g[goal] /\ ReadsOn({}, goal, f[goal]) /\ goal.rest = Advance(ts)
    <3>1. PrefixPrecedence \in Nat
      BY DEF PrefixPrecedence
    <3>. QED BY <2>2, <3>1, AlikeAt
  <2>4. /\ ParseUnary(f, ts) = Prefixed(UnaryOpFor[Peek(ts).type], f[goal])
        /\ ParseUnary(g, ts) = Prefixed(UnaryOpFor[Peek(ts).type], g[goal])
    BY <1>1 DEF ParseUnary
  <2>. HIDE DEF goal
  <2>5. f[goal].rest \in Tokens /\ Len(f[goal].rest) <= Len(Advance(ts)) /\ Len(f[goal].rest) \in Nat
    BY <2>3, LenProperties DEF ReadsOn, Tokens
  <2>6. ParseUnary(f, ts).rest = f[goal].rest
    BY <2>4 DEF Prefixed, Parsed
  <2>. QED BY <2>2, <2>3, <2>4, <2>5, <2>6
<1>2. CASE Peek(ts).type \notin DOMAIN UnaryOpFor
  <2>1. ParseUnary(f, ts) = ParsePrimary(f, ts) /\ ParseUnary(g, ts) = ParsePrimary(g, ts)
    BY <1>2 DEF ParseUnary
  <2>. QED BY <2>1, PrimaryLooksBelow
<1>. QED BY <1>1, <1>2

\* The same of an expression, whose operators may begin at the first token.
LEMMA OperandsLookBelow ==
  ASSUME NEW f, NEW g, NEW ts \in Tokens, NEW min \in Nat,
         ParseAlike(f, g, "expression", Len(ts)), ParseAlike(f, g, "operators", Len(ts) + 1)
  PROVE  /\ ParseOperands(f, ts, min) = ParseOperands(g, ts, min)
         /\ ParseOperands(f, ts, min).rest \in Tokens
         /\ Len(ParseOperands(f, ts, min).rest) <= Len(ts)
<1>. DEFINE lhs == ParseUnary(f, ts)
            goal == Goal("operators", lhs.rest, min)
<1>1. lhs = ParseUnary(g, ts) /\ lhs.rest \in Tokens /\ Len(lhs.rest) <= Len(ts)
  BY UnaryLooksBelow
<1>. HIDE DEF lhs
<1>2. Len(ts) \in Nat /\ Len(lhs.rest) \in Nat
  BY <1>1, LenProperties DEF Tokens
<1>3. f[goal] = g[goal] /\ ReadsOn({}, goal, f[goal]) /\ goal.rest = lhs.rest
  <2>1. Len(lhs.rest) < Len(ts) + 1
    BY <1>1, <1>2
  <2>. QED BY <1>1, <2>1, AlikeAt
<1>4. /\ ParseOperands(f, ts, min) =
            Parsed(Grouped(lhs.expr, f[goal].operands), f[goal].rest, lhs.ok /\ f[goal].ok)
      /\ ParseOperands(g, ts, min) =
            Parsed(Grouped(lhs.expr, g[goal].operands), g[goal].rest, lhs.ok /\ g[goal].ok)
  BY <1>1 DEF ParseOperands, lhs
<1>. HIDE DEF goal
<1>5. f[goal].rest \in Tokens /\ Len(f[goal].rest) <= Len(lhs.rest) /\ Len(f[goal].rest) \in Nat
  BY <1>3, LenProperties DEF ReadsOn, Tokens
<1>6. ParseOperands(f, ts, min).rest = f[goal].rest
  BY <1>4 DEF Parsed
<1>. QED BY <1>1, <1>2, <1>3, <1>4, <1>5, <1>6

\* Sequences of any elements, concatenated.
LEMMA SequencesJoin ==
  /\ IsSequence(<<>>)
  /\ \A x, s : IsSequence(s) => IsSequence(<<x>> \o s)
  /\ \A s, t : IsSequence(s) /\ IsSequence(t) => IsSequence(s \o t)
<1>1. \A S : <<>> \in Seq(S)
  OBVIOUS
<1>2. ASSUME NEW s, NEW t, IsSequence(s), IsSequence(t) PROVE IsSequence(s \o t)
  <2>1. PICK S, T : s \in Seq(S) /\ t \in Seq(T)
    BY <1>2 DEF IsSequence
  <2>2. s \in Seq(S \union T) /\ t \in Seq(S \union T)
    <3>1. S \subseteq S \union T /\ T \subseteq S \union T
      OBVIOUS
    <3>. QED BY <2>1, <3>1, SeqMonotonic
  <2>3. s \o t \in Seq(S \union T)
    BY <2>2, ConcatProperties
  <2>. QED BY <2>3 DEF IsSequence
<1>3. ASSUME NEW x PROVE IsSequence(<<x>>)
  <2>1. <<x>> \in Seq({x})
    OBVIOUS
  <2>. QED BY <2>1 DEF IsSequence
<1>. QED BY <1>1, <1>2, <1>3 DEF IsSequence

\* The same of the loop.
LEMMA OperatorsLookBelow ==
  ASSUME NEW f, NEW g, NEW ts \in Tokens, NEW min \in Nat,
         ParseAlike(f, g, "expression", Len(ts)), ParseAlike(f, g, "operators", Len(ts))
  PROVE  /\ ParseOperators(f, ts, min) = ParseOperators(g, ts, min)
         /\ ParseOperators(f, ts, min).rest \in Tokens
         /\ Len(ParseOperators(f, ts, min).rest) <= Len(ts)
         /\ IsSequence(ParseOperators(f, ts, min).operands)
<1>. DEFINE info == BinaryOpFor[Peek(ts).type]
            ahead == Peek(ts).type \in DOMAIN BinaryOpFor /\ info.precedence >= min
<1>1. CASE ~ ahead
  <2>1. /\ ParseOperators(f, ts, min) = Chain(<<>>, ts, TRUE)
        /\ ParseOperators(g, ts, min) = Chain(<<>>, ts, TRUE)
    BY <1>1 DEF ParseOperators
  <2>2. Len(ts) \in Nat
    BY LenProperties DEF Tokens
  <2>. QED BY <2>1, <2>2, SequencesJoin DEF Chain
<1>2. CASE ahead
  <2>1. ts # <<>>
    BY <1>2, NoTokens, SymbolTable DEF OperatorSymbols
  <2>2. Advance(ts) \in Tokens /\ Len(Advance(ts)) < Len(ts) /\ Len(Advance(ts)) \in Nat /\ Len(ts) \in Nat
    BY <2>1, AdvanceShortens
  <2>3. RightPrecedence(info) \in Nat
    BY <1>2, OperatorTable, SymbolTable DEF RightPrecedence
  <2>4. /\ ParseOperators(f, ts, min) = ParseOperator(f, info, Advance(ts), min)
        /\ ParseOperators(g, ts, min) = ParseOperator(g, info, Advance(ts), min)
    BY <1>2 DEF ParseOperators
  <2>. HIDE DEF info, ahead
  <2>. DEFINE right == Goal("expression", Advance(ts), RightPrecedence(info))
              rhs == f[right]
              loop == Goal("operators", rhs.rest, min)
              later == f[loop]
  <2>5. rhs = g[right] /\ ReadsOn({}, right, rhs) /\ right.rest = Advance(ts)
    BY <2>2, <2>3, AlikeAt
  <2>. HIDE DEF right
  <2>6. rhs.rest \in Tokens /\ Len(rhs.rest) < Len(ts) /\ Len(rhs.rest) \in Nat
    BY <2>2, <2>5, LenProperties DEF ReadsOn, Tokens
  <2>. HIDE DEF rhs
  <2>7. later = g[loop] /\ ReadsOn({}, loop, later) /\ loop.rest = rhs.rest /\ loop.rule = "operators"
    <3>1. loop.rule = "operators"
      BY DEF Goal
    <3>2. ASSUME NEW s \in Tokens, Len(s) < Len(ts)
          PROVE  /\ f[Goal("operators", s, min)] = g[Goal("operators", s, min)]
                 /\ ReadsOn({}, Goal("operators", s, min), f[Goal("operators", s, min)])
                 /\ Goal("operators", s, min).rest = s
      BY <3>2, AlikeAt
    <3>3. later = g[loop] /\ ReadsOn({}, loop, later) /\ loop.rest = rhs.rest
      BY <2>6, <3>2
    <3>. QED BY <3>1, <3>3
  <2>8. /\ ParseOperator(f, info, Advance(ts), min) =
              Chain(<< RightOperand(info.op, rhs.expr) >> \o later.operands, later.rest, rhs.ok /\ later.ok)
        /\ ParseOperator(g, info, Advance(ts), min) =
              Chain(<< RightOperand(info.op, rhs.expr) >> \o later.operands, later.rest, rhs.ok /\ later.ok)
    BY <2>5, <2>7 DEF ParseOperator, right, rhs
  <2>. HIDE DEF loop, later
  <2>9. /\ later.rest \in Tokens /\ Len(later.rest) <= Len(rhs.rest) /\ Len(later.rest) \in Nat
        /\ IsSequence(later.operands)
    BY <2>7, LenProperties DEF ReadsOn, Tokens
  <2>10. /\ ParseOperators(f, ts, min).rest = later.rest
         /\ ParseOperators(f, ts, min).operands = << RightOperand(info.op, rhs.expr) >> \o later.operands
    BY <2>4, <2>8 DEF Chain
  <2>11. IsSequence(<< RightOperand(info.op, rhs.expr) >> \o later.operands)
    BY <2>9, SequencesJoin
  <2>12. Len(later.rest) <= Len(ts)
    BY <2>2, <2>6, <2>9
  <2>13. ParseOperators(f, ts, min) = ParseOperators(g, ts, min)
    BY <2>4, <2>8
  <2>. QED BY <2>9, <2>10, <2>11, <2>12, <2>13
<1>. QED BY <1>1, <1>2

\* The function that parses, and the loop that reads operators with it.
ParseGoals == Parsing!Solution({})
Loop(ts, min) == ParseGoals[Goal("operators", ts, min)]

\* The parser's recursive function satisfies its equation.
LEMMA ParseRecursion ==
  /\ ParseGoals = [goal \in Goals |-> ParseStep(ParseGoals, goal)]
  /\ \A goal \in Goals : ReadsOn({}, goal, ParseGoals[goal])
<1>1. Parsing!HasHeights
  BY GoalParts DEF Parsing!HasHeights
<1>2. Parsing!LooksBelow({})
  <2>1. SUFFICES ASSUME NEW f, NEW g, NEW goal \in Goals, Parsing!FitsBelow({}, f, goal),
                        \A d \in Goals : GoalHeight(d) < GoalHeight(goal) => f[d] = g[d]
                 PROVE  /\ ParseStep(f, goal) = ParseStep(g, goal)
                        /\ ReadsOn({}, goal, ParseStep(f, goal))
    BY DEF Parsing!LooksBelow, GoalStep
  <2>. DEFINE ts == goal.rest
              min == goal.min
  <2>2. goal.rule \in {"expression", "operators"} /\ ts \in Tokens /\ min \in Nat /\ Len(ts) \in Nat
        /\ goal = Goal(goal.rule, ts, min)
    BY GoalParts
  <2>3. \A d \in Goals : GoalHeight(d) < GoalHeight(goal) => f[d] = g[d] /\ ReadsOn({}, d, f[d])
    BY <2>1 DEF Parsing!FitsBelow
  <2>4. ParseAlike(f, g, "expression", Len(ts))
    <3>1. SUFFICES ASSUME NEW s \in Tokens, NEW m \in Nat, Len(s) < Len(ts)
                   PROVE  /\ Goal("expression", s, m) \in Goals
                          /\ GoalHeight(Goal("expression", s, m)) < GoalHeight(goal)
      BY <2>3 DEF ParseAlike
    <3>2. Len(s) \in Nat
      BY LenProperties DEF Tokens
    <3>3. GoalHeight(Goal("expression", s, m)) = 2 * Len(s) + 1
      BY GoalMade
    <3>4. GoalHeight(goal) >= 2 * Len(ts)
      BY GoalParts
    <3>5. GoalHeight(Goal("expression", s, m)) < GoalHeight(goal)
      <4>1. GoalHeight(goal) \in Nat
        BY <1>1 DEF Parsing!HasHeights
      <4>. HIDE DEF ts
      <4>. QED BY <2>2, <3>1, <3>2, <3>3, <3>4, <4>1
    <3>. QED BY <3>5, GoalMade
  <2>5. ASSUME NEW n \in Nat, 2 * n <= GoalHeight(goal) + 1
        PROVE  ParseAlike(f, g, "operators", n)
    <3>1. SUFFICES ASSUME NEW s \in Tokens, NEW m \in Nat, Len(s) < n
                   PROVE  /\ Goal("operators", s, m) \in Goals
                          /\ GoalHeight(Goal("operators", s, m)) < GoalHeight(goal)
      BY <2>3 DEF ParseAlike
    <3>2. Len(s) \in Nat
      BY LenProperties DEF Tokens
    <3>3. GoalHeight(Goal("operators", s, m)) = 2 * Len(s)
      BY GoalMade
    <3>4. GoalHeight(Goal("operators", s, m)) < GoalHeight(goal)
      <4>1. GoalHeight(goal) \in Nat
        BY <1>1 DEF Parsing!HasHeights
      <4>. QED BY <2>5, <3>1, <3>2, <3>3, <4>1
    <3>. QED BY <3>4, GoalMade
  <2>6. CASE goal.rule = "expression"
    <3>1. GoalHeight(goal) = 2 * Len(ts) + 1
      BY <2>2, <2>6, GoalMade
    <3>2. ParseAlike(f, g, "operators", Len(ts) + 1)
      BY <2>2, <2>5, <3>1
    <3>3. /\ ParseStep(f, goal) = ParseOperands(f, ts, min)
          /\ ParseStep(g, goal) = ParseOperands(g, ts, min)
      BY <2>6 DEF ParseStep
    <3>. QED BY <2>2, <2>4, <2>6, <3>2, <3>3, OperandsLookBelow DEF ReadsOn
  <2>7. CASE goal.rule = "operators"
    <3>1. GoalHeight(goal) = 2 * Len(ts)
      BY <2>2, <2>7, GoalMade
    <3>2. ParseAlike(f, g, "operators", Len(ts))
      BY <2>2, <2>5, <3>1
    <3>3. /\ ParseStep(f, goal) = ParseOperators(f, ts, min)
          /\ ParseStep(g, goal) = ParseOperators(g, ts, min)
      BY <2>7 DEF ParseStep
    <3>. QED BY <2>2, <2>4, <2>7, <3>2, <3>3, OperatorsLookBelow DEF ReadsOn
  <2>. QED BY <2>2, <2>6, <2>7
<1>3. /\ Parsing!Solution({}) = [goal \in Goals |-> GoalStep({}, Parsing!Solution({}), goal)]
      /\ \A goal \in Goals : ReadsOn({}, goal, Parsing!Solution({})[goal])
  BY <1>1, <1>2, Parsing!RecursionSolved
<1>. QED BY <1>3 DEF ParseGoals, GoalStep

\* parseExpression and its loop satisfy their equations, and leave tokens that
\* are no more than there were.
LEMMA ParseEquations ==
  ASSUME NEW ts \in Tokens, NEW min \in Nat
  PROVE  /\ ParseExpression(ts, min) = ParseGoals[Goal("expression", ts, min)]
         /\ ParseExpression(ts, min) = ParseOperands(ParseGoals, ts, min)
         /\ ParseExpression(ts, min).rest \in Tokens
         /\ Len(ParseExpression(ts, min).rest) <= Len(ts)
         /\ Loop(ts, min) = ParseOperators(ParseGoals, ts, min)
         /\ Loop(ts, min).rest \in Tokens
         /\ Len(Loop(ts, min).rest) <= Len(ts)
         /\ IsSequence(Loop(ts, min).operands)
<1>. DEFINE expression == Goal("expression", ts, min)
            operators == Goal("operators", ts, min)
<1>1. ParseExpression(ts, min) = ParseGoals[expression]
  BY DEF ParseExpression, ParseGoals, Parsing!Solution, GoalStep
<1>2. /\ expression \in Goals /\ expression.rule = "expression"
      /\ expression.rest = ts /\ expression.min = min
      /\ operators \in Goals /\ operators.rule = "operators"
      /\ operators.rest = ts /\ operators.min = min
  BY GoalMade
<1>3. Loop(ts, min) = ParseGoals[operators]
  BY DEF Loop
<1>. HIDE DEF expression, operators
<1>4. ParseGoals[expression] = ParseOperands(ParseGoals, ts, min)
  <2>1. ParseGoals[expression] = ParseStep(ParseGoals, expression)
    BY <1>2, ParseRecursion
  <2>. QED BY <1>2, <2>1 DEF ParseStep
<1>5. ParseGoals[operators] = ParseOperators(ParseGoals, ts, min)
  <2>1. ParseGoals[operators] = ParseStep(ParseGoals, operators)
    BY <1>2, ParseRecursion
  <2>. QED BY <1>2, <2>1 DEF ParseStep
<1>6. ReadsOn({}, expression, ParseGoals[expression]) /\ ReadsOn({}, operators, ParseGoals[operators])
  BY <1>2, ParseRecursion
<1>7. /\ ParseGoals[expression].rest \in Tokens /\ Len(ParseGoals[expression].rest) <= Len(ts)
      /\ ParseGoals[operators].rest \in Tokens /\ Len(ParseGoals[operators].rest) <= Len(ts)
      /\ IsSequence(ParseGoals[operators].operands)
  BY <1>2, <1>6 DEF ReadsOn
<1>. QED BY <1>1, <1>3, <1>4, <1>5, <1>7 DEF expression

-----------------------------------------------------------------------------
(* The grammar's recursion.                                                 *)

PhraseHeight(phrase) == 11 * Len(phrase.tokens) + (PrimaryLevel - phrase.level)
PhraseStep(p, trees, phrase) == TreesOf(trees, phrase.tokens, phrase.level)
Anything(p, e, v) == TRUE

LOCAL Deriving == INSTANCE Recursion
  WITH Domain <- Phrases, Height <- PhraseHeight, Step <- PhraseStep, Fits <- Anything

\* The tokens from one position to another.
LEMMA PartProperties ==
  ASSUME NEW ts \in Tokens, NEW i \in Int, NEW j \in Int, 1 <= i, j <= Len(ts)
  PROVE  /\ Part(ts, i, j) \in Tokens
         /\ Len(Part(ts, i, j)) = IF i <= j THEN j - i + 1 ELSE 0
         /\ \A k \in 1..j - i + 1 : Part(ts, i, j)[k] = ts[i + k - 1]
<1>1. Len(ts) \in Nat /\ \A k \in i..j : ts[k] \in AnyToken
  BY ElementOfSeq, LenProperties DEF Tokens
<1>. QED BY <1>1, SubSeqProperties DEF Part, Tokens

\* A phrase from its parts.
LEMMA PhraseMade ==
  ASSUME NEW s \in Tokens, NEW l \in 1..10
  PROVE  /\ Phrase(s, l) \in Phrases
         /\ Phrase(s, l).tokens = s /\ Phrase(s, l).level = l
         /\ PhraseHeight(Phrase(s, l)) = 11 * Len(s) + (10 - l)
  BY DEF Phrases, Phrase, Tokens, PhraseHeight, PrimaryLevel

\* The parts of a phrase.
LEMMA PhraseParts ==
  ASSUME NEW phrase \in Phrases
  PROVE  /\ phrase.tokens \in Tokens /\ phrase.level \in 1..10
         /\ PhraseHeight(phrase) = 11 * Len(phrase.tokens) + (10 - phrase.level)
  BY DEF Phrases, Tokens, PhraseHeight, PrimaryLevel

\* The grammar's rules, by level.
LEMMA TreesCases ==
  ASSUME NEW f, NEW ts, NEW level \in 1..10
  PROVE  /\ ts = <<>> => TreesOf(f, ts, level) = {}
         /\ ts # <<>> /\ level = 10 => TreesOf(f, ts, level) = PrimaryTrees(f, ts)
         /\ ts # <<>> /\ level = 9 =>
              TreesOf(f, ts, level) = f[Phrase(ts, 10)] \union PrefixTrees(f, ts)
         /\ ts # <<>> /\ level \in 1..8 =>
              TreesOf(f, ts, level) = f[Phrase(ts, level + 1)] \union InfixTrees(f, ts, level)
<1>1. CASE ts = <<>>
  <2>1. TreesOf(f, ts, level) = {}
    BY <1>1 DEF TreesOf
  <2>. QED BY <1>1, <2>1
<1>2. CASE ts # <<>> /\ level = 10
  <2>1. TreesOf(f, ts, level) = PrimaryTrees(f, ts)
    <3>1. ts # <<>> /\ level = PrimaryLevel /\ level # UnaryLevel
      BY <1>2 DEF PrimaryLevel, UnaryLevel
    <3>. QED BY <3>1, Zenon DEF TreesOf
  <2>. QED BY <1>2, <2>1
<1>3. CASE ts # <<>> /\ level = 9
  <2>1. TreesOf(f, ts, level) = f[Phrase(ts, level + 1)] \union PrefixTrees(f, ts)
    BY <1>3 DEF TreesOf, PrimaryLevel, UnaryLevel
  <2>2. level + 1 = 10
    BY <1>3
  <2>. QED BY <1>3, <2>1, <2>2
<1>4. CASE ts # <<>> /\ level \in 1..8
  <2>1. TreesOf(f, ts, level) = f[Phrase(ts, level + 1)] \union InfixTrees(f, ts, level)
    BY <1>4 DEF TreesOf, PrimaryLevel, UnaryLevel
  <2>. QED BY <1>4, <2>1
<1>. QED BY <1>1, <1>2, <1>3, <1>4

\* f and g derive alike what a phrase is made of.
DeriveAlike(f, g, ts, level) ==
  \A s \in Tokens : \A l \in 1..10 :
    Len(s) < Len(ts) \/ (s = ts /\ l > level) => f[Phrase(s, l)] = g[Phrase(s, l)]

\* The rule for operands looks at shorter phrases only.
LEMMA PrimaryTreesLookBelow ==
  ASSUME NEW f, NEW g, NEW ts \in Tokens, NEW level \in 1..10, DeriveAlike(f, g, ts, level),
         ts # <<>>
  PROVE  PrimaryTrees(f, ts) = PrimaryTrees(g, ts)
<1>. DEFINE inner == Part(ts, 2, Len(ts) - 1)
<1>1. Len(ts) \in Nat \ {0}
  BY TokensCases
<1>2. CASE Len(ts) = 1
  BY <1>2 DEF PrimaryTrees
<1>3. CASE Len(ts) # 1
  <2>1. inner \in Tokens /\ Len(inner) < Len(ts)
    BY <1>1, <1>3, PartProperties
  <2>. HIDE DEF inner
  <2>2. f[Phrase(inner, 1)] = g[Phrase(inner, 1)]
    BY <2>1 DEF DeriveAlike
  <2>. QED BY <2>2, <1>3 DEF PrimaryTrees, inner
<1>. QED BY <1>2, <1>3

\* So does the rule for prefix operators.
LEMMA PrefixTreesLookBelow ==
  ASSUME NEW f, NEW g, NEW ts \in Tokens, NEW level \in 1..10, DeriveAlike(f, g, ts, level),
         ts # <<>>
  PROVE  PrefixTrees(f, ts) = PrefixTrees(g, ts)
<1>1. Tail(ts) \in Tokens /\ Len(Tail(ts)) < Len(ts)
  <2>1. Tail(ts) \in Tokens /\ Len(Tail(ts)) = Len(ts) - 1 /\ Len(ts) \in Nat
    BY TokensCases
  <2>. QED BY <2>1
<1>. DEFINE later == Tail(ts)
<1>2. f[Phrase(later, 9)] = g[Phrase(later, 9)]
  <2>. HIDE DEF later
  <2>1. later \in Tokens /\ Len(later) < Len(ts)
    BY <1>1 DEF later
  <2>. QED BY <2>1 DEF DeriveAlike
<1>. QED BY <1>2 DEF PrefixTrees, UnaryLevel

\* And so do the rules for binary operators.
LEMMA InfixTreesLookBelow ==
  ASSUME NEW f, NEW g, NEW ts \in Tokens, NEW level \in 1..8, DeriveAlike(f, g, ts, level),
         ts # <<>>
  PROVE  InfixTrees(f, ts, level) = InfixTrees(g, ts, level)
<1>1. Len(ts) \in Nat
  BY TokensCases
<1>2. ASSUME NEW i \in 2..Len(ts) - 1 PROVE SplitTrees(f, ts, level, i) = SplitTrees(g, ts, level, i)
  <2>. DEFINE left == Part(ts, 1, i - 1)
              right == Part(ts, i + 1, Len(ts))
  <2>1. left \in Tokens /\ Len(left) < Len(ts) /\ right \in Tokens /\ Len(right) < Len(ts)
    BY <1>1, PartProperties
  <2>. HIDE DEF left, right
  <2>2. f[Phrase(left, level)] = g[Phrase(left, level)]
    BY <2>1 DEF DeriveAlike
  <2>3. f[Phrase(right, level + 1)] = g[Phrase(right, level + 1)]
    BY <2>1 DEF DeriveAlike
  <2>. QED BY <2>2, <2>3 DEF SplitTrees, left, right
<1>. QED BY <1>2 DEF InfixTrees

\* Each rule looks at shorter phrases, or at the same one on a higher level.
LEMMA TreesLookBelow ==
  ASSUME NEW f, NEW g, NEW ts \in Tokens, NEW level \in 1..10, DeriveAlike(f, g, ts, level)
  PROVE  TreesOf(f, ts, level) = TreesOf(g, ts, level)
<1>1. CASE ts = <<>>
  BY <1>1, TreesCases
<1>2. CASE ts # <<>> /\ level = 10
  BY <1>2, TreesCases, PrimaryTreesLookBelow
<1>3. CASE ts # <<>> /\ level = 9
  <2>1. f[Phrase(ts, 10)] = g[Phrase(ts, 10)]
    BY <1>3 DEF DeriveAlike
  <2>2. PrefixTrees(f, ts) = PrefixTrees(g, ts)
    BY <1>3, PrefixTreesLookBelow
  <2>3. /\ TreesOf(f, ts, level) = f[Phrase(ts, 10)] \union PrefixTrees(f, ts)
        /\ TreesOf(g, ts, level) = g[Phrase(ts, 10)] \union PrefixTrees(g, ts)
    BY <1>3, TreesCases
  <2>. QED BY <2>1, <2>2, <2>3
<1>4. CASE ts # <<>> /\ level \in 1..8
  <2>1. f[Phrase(ts, level + 1)] = g[Phrase(ts, level + 1)]
    BY <1>4 DEF DeriveAlike
  <2>2. InfixTrees(f, ts, level) = InfixTrees(g, ts, level)
    BY <1>4, InfixTreesLookBelow
  <2>. QED BY <1>4, <2>1, <2>2, TreesCases
<1>. QED BY <1>1, <1>2, <1>3, <1>4

Derive == Deriving!Solution({})

\* The grammar's trees satisfy their equation.
LEMMA TreesEquation ==
  ASSUME NEW ts \in Tokens, NEW level \in 1..10
  PROVE  Trees(ts, level) = TreesOf(Derive, ts, level) /\ Trees(ts, level) = Derive[Phrase(ts, level)]
<1>1. Deriving!HasHeights
  <2>1. ASSUME NEW phrase \in Phrases PROVE PhraseHeight(phrase) \in Nat
    <3>1. phrase.level \in 1..10 /\ Len(phrase.tokens) \in Nat
      BY PhraseParts, LenProperties DEF Tokens
    <3>2. 11 * Len(phrase.tokens) \in Nat /\ 10 - phrase.level \in Nat
      BY <3>1
    <3>. QED BY <3>2, PhraseParts
  <2>. QED BY <2>1 DEF Deriving!HasHeights
<1>2. Deriving!LooksBelow({})
  <2>1. SUFFICES ASSUME NEW f, NEW g, NEW phrase \in Phrases,
                        \A d \in Phrases : PhraseHeight(d) < PhraseHeight(phrase) => f[d] = g[d]
                 PROVE  TreesOf(f, phrase.tokens, phrase.level) = TreesOf(g, phrase.tokens, phrase.level)
    BY DEF Deriving!LooksBelow, PhraseStep, Anything
  <2>2. phrase.tokens \in Tokens /\ phrase.level \in 1..10 /\ Len(phrase.tokens) \in Nat
        /\ PhraseHeight(phrase) = 11 * Len(phrase.tokens) + (10 - phrase.level)
    BY PhraseParts, LenProperties DEF Tokens
  <2>3. ASSUME NEW s \in Tokens, NEW l \in 1..10,
               Len(s) < Len(phrase.tokens) \/ (s = phrase.tokens /\ l > phrase.level)
        PROVE  f[Phrase(s, l)] = g[Phrase(s, l)]
    <3>1. Len(s) \in Nat
      BY LenProperties DEF Tokens
    <3>2. Phrase(s, l) \in Phrases /\ PhraseHeight(Phrase(s, l)) = 11 * Len(s) + (10 - l)
      BY PhraseMade
    <3>3. 11 * Len(s) + (10 - l) < 11 * Len(phrase.tokens) + (10 - phrase.level)
      <4>. DEFINE n == Len(s)
                  m == Len(phrase.tokens)
                  k == phrase.level
      <4>1. n \in Nat /\ m \in Nat /\ k \in 1..10 /\ (n < m \/ (n = m /\ l > k))
        BY <2>2, <2>3, <3>1
      <4>. HIDE DEF n, m, k
      <4>2. 11 * n + (10 - l) < 11 * m + (10 - k)
        BY <4>1
      <4>. QED BY <4>2 DEF n, m, k
    <3>. QED BY <2>1, <2>2, <3>2, <3>3
  <2>4. DeriveAlike(f, g, phrase.tokens, phrase.level)
    BY <2>3 DEF DeriveAlike
  <2>. QED BY <2>2, <2>4, TreesLookBelow
<1>3. Derive = [phrase \in Phrases |-> TreesOf(Derive, phrase.tokens, phrase.level)]
  BY <1>1, <1>2, Deriving!RecursionSolved DEF Derive, PhraseStep
<1>4. Trees(ts, level) = Derive[Phrase(ts, level)]
  BY DEF Trees, Derive, Deriving!Solution, PhraseStep
<1>5. \A phrase \in Phrases : Derive[phrase] = TreesOf(Derive, phrase.tokens, phrase.level)
  <2>. HIDE DEF Derive
  <2>. QED BY <1>3
<1>6. Derive[Phrase(ts, level)] = TreesOf(Derive, ts, level)
  <2>1. /\ Phrase(ts, level) \in Phrases
        /\ Phrase(ts, level).tokens = ts /\ Phrase(ts, level).level = level
    BY PhraseMade
  <2>. QED BY <1>5, <2>1, Zenon
<1>. QED BY <1>4, <1>6

-----------------------------------------------------------------------------
(* Grouping from the left.                                                  *)

GroupingStep(p, f, n) ==
  IF n = 0 THEN p[1] ELSE Binary(p[2][n].op, f[n - 1], p[2][n].rhs)
Itself(n) == n

LOCAL Grouping == INSTANCE Recursion
  WITH Domain <- Nat, Height <- Itself, Step <- GroupingStep, Fits <- Anything

\* The left operand grouped with the first n operators.
GroupedAt(lhs, operands) ==
  CHOOSE f : f = [n \in Nat |->
    IF n = 0 THEN lhs ELSE Binary(operands[n].op, f[n - 1], operands[n].rhs)]

\* Grouping, operand by operand.
LEMMA GroupingEquation ==
  ASSUME NEW lhs, NEW operands
  PROVE  /\ Grouped(lhs, operands) = GroupedAt(lhs, operands)[Len(operands)]
         /\ GroupedAt(lhs, operands)[0] = lhs
         /\ \A n \in Nat \ {0} : GroupedAt(lhs, operands)[n] =
              Binary(operands[n].op, GroupedAt(lhs, operands)[n - 1], operands[n].rhs)
<1>. DEFINE p == <<lhs, operands>>
            F == Grouping!Solution(p)
<1>1. Grouping!HasHeights
  BY DEF Grouping!HasHeights, Itself
<1>2. Grouping!LooksBelow(p)
  <2>1. SUFFICES ASSUME NEW f, NEW g, NEW n \in Nat, \A m \in Nat : m < n => f[m] = g[m]
                 PROVE  GroupingStep(p, f, n) = GroupingStep(p, g, n)
    BY DEF Grouping!LooksBelow, Itself, Anything
  <2>2. n # 0 => f[n - 1] = g[n - 1]
    BY <2>1
  <2>. QED BY <2>2 DEF GroupingStep
<1>3. F = [n \in Nat |-> GroupingStep(p, F, n)]
  <2>. HIDE DEF p
  <2>. QED BY <1>1, <1>2, Grouping!RecursionSolved
<1>4. \A f : [n \in Nat |-> GroupingStep(p, f, n)] =
             [n \in Nat |-> IF n = 0 THEN lhs ELSE Binary(operands[n].op, f[n - 1], operands[n].rhs)]
  BY DEF GroupingStep
<1>. HIDE DEF F, p
<1>5. F = [n \in Nat |-> IF n = 0 THEN lhs ELSE Binary(operands[n].op, F[n - 1], operands[n].rhs)]
  BY <1>3, <1>4
<1>. DEFINE G == GroupedAt(lhs, operands)
<1>6. G = [n \in Nat |-> IF n = 0 THEN lhs ELSE Binary(operands[n].op, G[n - 1], operands[n].rhs)]
  BY <1>5 DEF GroupedAt
<1>7. Grouped(lhs, operands) = G[Len(operands)]
  BY DEF Grouped, GroupedAt
<1>. HIDE DEF G
<1>8. G[0] = lhs /\ \A n \in Nat \ {0} : G[n] = Binary(operands[n].op, G[n - 1], operands[n].rhs)
  BY <1>6
<1>. QED BY <1>7, <1>8 DEF G

\* A left operand without operators stays as it is.
LEMMA GroupedAlone ==
  ASSUME NEW lhs
  PROVE  Grouped(lhs, <<>>) = lhs
<1>1. Len(<<>>) = 0
  OBVIOUS
<1>. QED BY <1>1, GroupingEquation

\* One operator more, at the front.
LEMMA GroupedCons ==
  ASSUME NEW lhs, NEW x, NEW c, IsSequence(c)
  PROVE  Grouped(lhs, <<x>> \o c) = Grouped(Binary(x.op, lhs, x.rhs), c)
<1>. DEFINE s == <<x>> \o c
            A == GroupedAt(lhs, s)
            B == GroupedAt(Binary(x.op, lhs, x.rhs), c)
<1>1. /\ Len(c) \in Nat /\ Len(s) = Len(c) + 1
      /\ s[1] = x
      /\ \A n \in 1..Len(c) : s[n + 1] = c[n]
  <2>1. PICK S : c \in Seq(S)
    BY DEF IsSequence
  <2>2. c \in Seq(S \union {x}) /\ <<x>> \in Seq(S \union {x})
    <3>1. S \subseteq S \union {x}
      OBVIOUS
    <3>2. \A T : \A y \in T : <<y>> \in Seq(T)
      OBVIOUS
    <3>. QED BY <2>1, <3>1, <3>2, SeqMonotonic
  <2>3. Len(<<x>>) = 1 /\ <<x>>[1] = x /\ Len(c) \in Nat
    BY <2>1, LenProperties
  <2>4. /\ Len(s) = Len(<<x>>) + Len(c)
        /\ \A i \in 1..Len(<<x>>) + Len(c) :
             s[i] = IF i <= Len(<<x>>) THEN <<x>>[i] ELSE c[i - Len(<<x>>)]
    BY <2>2, ConcatProperties
  <2>. HIDE DEF s
  <2>5. \A i \in 1..1 + Len(c) : s[i] = IF i <= 1 THEN <<x>>[i] ELSE c[i - 1]
    BY <2>3, <2>4
  <2>6. s[1] = x
    BY <2>3, <2>5
  <2>7. \A n \in 1..Len(c) : s[n + 1] = c[n]
    BY <2>3, <2>5
  <2>. QED BY <2>3, <2>4, <2>6, <2>7
<1>. HIDE DEF s
<1>2. /\ Grouped(lhs, s) = A[Len(s)]
      /\ A[0] = lhs
      /\ \A n \in Nat \ {0} : A[n] = Binary(s[n].op, A[n - 1], s[n].rhs)
  BY GroupingEquation
<1>3. /\ Grouped(Binary(x.op, lhs, x.rhs), c) = B[Len(c)]
      /\ B[0] = Binary(x.op, lhs, x.rhs)
      /\ \A n \in Nat \ {0} : B[n] = Binary(c[n].op, B[n - 1], c[n].rhs)
  BY GroupingEquation
<1>. HIDE DEF A, B
<1>. DEFINE S == { n \in Nat : n <= Len(c) => A[n + 1] = B[n] }
<1>4. ASSUME NEW n \in Nat, \A m \in Nat : m < n => m \in S PROVE n \in S
  <2>1. CASE n = 0
    <3>1. A[1] = Binary(s[1].op, A[0], s[1].rhs)
      BY <1>2
    <3>2. A[n + 1] = B[n]
      BY <1>1, <1>2, <1>3, <2>1, <3>1
    <3>. QED BY <3>2
  <2>2. CASE n # 0 /\ n <= Len(c)
    <3>1. A[n] = B[n - 1]
      <4>1. n - 1 \in Nat /\ n - 1 < n /\ n - 1 <= Len(c) /\ (n - 1) + 1 = n
        BY <1>1, <2>2
      <4>. QED BY <1>4, <4>1
    <3>2. A[n + 1] = Binary(s[n + 1].op, A[n], s[n + 1].rhs)
      BY <1>2
    <3>3. B[n] = Binary(c[n].op, B[n - 1], c[n].rhs)
      BY <1>3, <2>2
    <3>4. s[n + 1] = c[n]
      BY <1>1, <2>2
    <3>5. A[n + 1] = B[n]
      BY <3>1, <3>2, <3>3, <3>4
    <3>. QED BY <3>5
  <2>3. CASE ~ (n <= Len(c))
    BY <2>3
  <2>. QED BY <2>1, <2>2, <2>3
<1>5. Nat \subseteq S
  <2>. HIDE DEF S
  <2>. QED BY <1>4, Grouping!CompleteInduction
<1>6. A[Len(c) + 1] = B[Len(c)]
  BY <1>1, <1>5
<1>. QED BY <1>1, <1>2, <1>3, <1>6 DEF s

-----------------------------------------------------------------------------
(* Sequences of tokens, taken apart at a position.                          *)

\* A sequence is its parts before and after a position.
LEMMA PartsJoin ==
  ASSUME NEW ts \in Tokens, NEW i \in 0..Len(ts)
  PROVE  /\ Part(ts, 1, i) \in Tokens /\ Len(Part(ts, 1, i)) = i
         /\ Part(ts, i + 1, Len(ts)) \in Tokens /\ Len(Part(ts, i + 1, Len(ts))) = Len(ts) - i
         /\ ts = Part(ts, 1, i) \o Part(ts, i + 1, Len(ts))
<1>1. Len(ts) \in Nat
  BY LenProperties DEF Tokens
<1>. DEFINE a == Part(ts, 1, i)
            b == Part(ts, i + 1, Len(ts))
<1>2. a \in Tokens /\ Len(a) = i /\ \A k \in 1..i : a[k] = ts[k]
  BY <1>1, PartProperties
<1>3. b \in Tokens /\ Len(b) = Len(ts) - i /\ \A k \in 1..Len(ts) - i : b[k] = ts[i + k]
  BY <1>1, PartProperties
<1>. HIDE DEF a, b
<1>4. /\ a \o b \in Tokens /\ Len(a \o b) = Len(ts)
      /\ \A k \in 1..Len(ts) : (a \o b)[k] = IF k <= i THEN a[k] ELSE b[k - i]
  BY <1>1, <1>2, <1>3, ConcatProperties DEF Tokens
<1>5. \A k \in 1..Len(ts) : ts[k] = (a \o b)[k]
  BY <1>1, <1>2, <1>3, <1>4
<1>6. ts = a \o b
  BY <1>4, <1>5, SeqEqual DEF Tokens
<1>. QED BY <1>2, <1>3, <1>6 DEF a, b

\* The parts of a concatenation.
LEMMA PartsOfJoin ==
  ASSUME NEW a \in Tokens, NEW b \in Tokens
  PROVE  Part(a \o b, 1, Len(a)) = a /\ Part(a \o b, Len(a) + 1, Len(a \o b)) = b
<1>. DEFINE ts == a \o b
<1>1. /\ ts \in Tokens /\ Len(ts) = Len(a) + Len(b) /\ Len(a) \in Nat /\ Len(b) \in Nat
      /\ \A k \in 1..Len(a) + Len(b) : ts[k] = IF k <= Len(a) THEN a[k] ELSE b[k - Len(a)]
  BY ConcatProperties, LenProperties DEF Tokens
<1>. HIDE DEF ts
<1>2. /\ Part(ts, 1, Len(a)) \in Tokens /\ Len(Part(ts, 1, Len(a))) = Len(a)
      /\ \A k \in 1..Len(a) : Part(ts, 1, Len(a))[k] = ts[k]
  BY <1>1, PartProperties
<1>3. Part(ts, 1, Len(a)) = a
  BY <1>1, <1>2, SeqEqual DEF Tokens
<1>. DEFINE c == Part(ts, Len(a) + 1, Len(ts))
<1>4. c \in Tokens /\ Len(c) = Len(b) /\ \A k \in 1..Len(b) : c[k] = ts[Len(a) + k]
  BY <1>1, PartProperties
<1>. HIDE DEF c
<1>5. ASSUME NEW k \in 1..Len(b) PROVE c[k] = b[k]
  <2>1. Len(a) + k \in 1..Len(a) + Len(b) /\ ~ (Len(a) + k <= Len(a)) /\ (Len(a) + k) - Len(a) = k
    BY <1>1
  <2>2. ts[Len(a) + k] = b[k]
    BY <1>1, <2>1
  <2>. QED BY <1>4, <2>2
<1>6. c = b
  BY <1>4, <1>5, SeqEqual DEF Tokens
<1>. QED BY <1>3, <1>6 DEF ts, c

\* A token between two sequences.
LEMMA SplitAt ==
  ASSUME NEW ts \in Tokens, NEW i \in 1..Len(ts)
  PROVE  /\ ts[i] \in AnyToken
         /\ Part(ts, 1, i - 1) \in Tokens /\ Len(Part(ts, 1, i - 1)) = i - 1
         /\ Part(ts, i + 1, Len(ts)) \in Tokens /\ Len(Part(ts, i + 1, Len(ts))) = Len(ts) - i
         /\ Part(ts, i, Len(ts)) = Cons(ts[i], Part(ts, i + 1, Len(ts)))
         /\ ts = Part(ts, 1, i - 1) \o Cons(ts[i], Part(ts, i + 1, Len(ts)))
<1>1. Len(ts) \in Nat /\ ts[i] \in AnyToken
  BY LenProperties, ElementOfSeq DEF Tokens
<1>. DEFINE b == Part(ts, i, Len(ts))
            c == Part(ts, i + 1, Len(ts))
<1>2. i - 1 \in 0..Len(ts) /\ (i - 1) + 1 = i /\ i \in 0..Len(ts)
  BY <1>1
<1>3. /\ Part(ts, 1, i - 1) \in Tokens /\ Len(Part(ts, 1, i - 1)) = i - 1
      /\ ts = Part(ts, 1, i - 1) \o b
  BY <1>2, PartsJoin
<1>4. c \in Tokens /\ Len(c) = Len(ts) - i /\ \A k \in 1..Len(ts) - i : c[k] = ts[i + k]
  BY <1>1, PartProperties
<1>5. b \in Tokens /\ Len(b) = Len(ts) - i + 1 /\ \A k \in 1..Len(ts) - i + 1 : b[k] = ts[i + k - 1]
  BY <1>1, PartProperties
<1>. HIDE DEF b, c
<1>6. b # <<>>
  BY <1>1, <1>5, NoTokens
<1>7. b = Cons(b[1], Tail(b)) /\ Tail(b) \in Tokens /\ Len(Tail(b)) = Len(b) - 1
  BY <1>5, <1>6, TokensCases
<1>8. \A k \in 1..Len(b) - 1 : Tail(b)[k] = b[k + 1]
  BY <1>5, <1>6, HeadTailProperties DEF Tokens
<1>9. Tail(b) = c
  <2>1. \A k \in 1..Len(c) : Tail(b)[k] = c[k]
    BY <1>1, <1>4, <1>5, <1>8
  <2>2. Len(Tail(b)) = Len(c)
    BY <1>1, <1>4, <1>5, <1>7
  <2>. QED BY <1>4, <1>7, <2>1, <2>2, SeqEqual DEF Tokens
<1>10. b[1] = ts[i]
  BY <1>1, <1>5
<1>. QED BY <1>1, <1>3, <1>4, <1>7, <1>9, <1>10 DEF b, c

\* Around one token.
LEMMA JoinAt ==
  ASSUME NEW p \in Tokens, NEW t \in AnyToken, NEW q \in Tokens
  PROVE  /\ p \o Cons(t, q) \in Tokens
         /\ Len(p \o Cons(t, q)) = Len(p) + 1 + Len(q)
         /\ Len(p) \in Nat /\ Len(q) \in Nat
         /\ (p \o Cons(t, q))[Len(p) + 1] = t
         /\ Part(p \o Cons(t, q), 1, Len(p)) = p
         /\ Part(p \o Cons(t, q), Len(p) + 2, Len(p \o Cons(t, q))) = q
<1>. DEFINE b == Cons(t, q)
            ts == p \o b
            i == Len(p) + 1
<1>1. b \in Tokens /\ Len(b) = Len(q) + 1 /\ b[1] = t /\ Tail(b) = q
  BY ConsTokens
<1>2. /\ ts \in Tokens /\ Len(ts) = Len(p) + Len(b) /\ Len(p) \in Nat /\ Len(q) \in Nat
      /\ \A k \in 1..Len(p) + Len(b) : ts[k] = IF k <= Len(p) THEN p[k] ELSE b[k - Len(p)]
  <2>. HIDE DEF b
  <2>. QED BY <1>1, ConcatProperties, LenProperties DEF Tokens
<1>3. Part(ts, 1, Len(p)) = p /\ Part(ts, Len(p) + 1, Len(ts)) = b
  <2>. HIDE DEF b
  <2>. QED BY <1>1, PartsOfJoin
<1>4. ts[Len(p) + 1] = t
  <2>. HIDE DEF b, ts
  <2>. QED BY <1>1, <1>2
<1>5. Part(ts, Len(p) + 2, Len(ts)) = q
  <2>. HIDE DEF b, ts
  <2>1. Len(p) + 1 \in 1..Len(ts) /\ (Len(p) + 1) + 1 = Len(p) + 2
    BY <1>1, <1>2
  <2>2. /\ Part(ts, Len(p) + 1, Len(ts)) = Cons(ts[Len(p) + 1], Part(ts, Len(p) + 2, Len(ts)))
        /\ Part(ts, Len(p) + 2, Len(ts)) \in Tokens
    BY <1>2, <2>1, SplitAt
  <2>3. Tail(b) = Part(ts, Len(p) + 2, Len(ts))
    BY <1>3, <1>4, <2>2, ConsTokens
  <2>. QED BY <1>1, <2>3
<1>6. Len(ts) = Len(p) + 1 + Len(q)
  BY <1>1, <1>2
<1>. HIDE DEF ts
<1>. QED BY <1>2, <1>3, <1>4, <1>5, <1>6 DEF ts

\* A sequence between two tokens.
Between(a, q, b) == Cons(a, q \o Cons(b, <<>>))

\* Between two tokens, position by position.
LEMMA BetweenAt ==
  ASSUME NEW a \in AnyToken, NEW b \in AnyToken, NEW q \in Tokens
  PROVE  /\ Between(a, q, b) \in Tokens /\ Len(Between(a, q, b)) = Len(q) + 2 /\ Len(q) \in Nat
         /\ \A k \in 1..Len(q) + 2 :
              Between(a, q, b)[k] = IF k = 1 THEN a ELSE IF k <= Len(q) + 1 THEN q[k - 1] ELSE b
<1>. DEFINE c == Cons(b, <<>>)
            d == q \o c
            ts == Cons(a, d)
<1>1. c \in Tokens /\ Len(c) = 1 /\ c[1] = b
  <2>2. c \in Tokens /\ Len(c) = Len(<<>>) + 1 /\ c[1] = b
    BY NoTokens, ConsTokens
  <2>. QED BY <2>2
<1>. HIDE DEF c
<1>2. /\ d \in Tokens /\ Len(d) = Len(q) + 1 /\ Len(q) \in Nat
      /\ \A k \in 1..Len(q) + 1 : d[k] = IF k <= Len(q) THEN q[k] ELSE b
  <2>1. /\ d \in Tokens /\ Len(d) = Len(q) + Len(c) /\ Len(q) \in Nat
        /\ \A k \in 1..Len(q) + Len(c) : d[k] = IF k <= Len(q) THEN q[k] ELSE c[k - Len(q)]
    BY <1>1, ConcatProperties, LenProperties DEF Tokens
  <2>. HIDE DEF d
  <2>. QED BY <1>1, <2>1
<1>. HIDE DEF d
<1>4. ts \in Tokens /\ ts # <<>> /\ Len(ts) = Len(d) + 1 /\ ts[1] = a /\ Tail(ts) = d
  BY <1>2, ConsTokens
<1>. HIDE DEF ts
<1>5. \A k \in 1..Len(ts) - 1 : d[k] = ts[k + 1]
  BY <1>4, HeadTailProperties DEF Tokens
<1>6. ASSUME NEW k \in 1..Len(q) + 2
      PROVE  ts[k] = IF k = 1 THEN a ELSE IF k <= Len(q) + 1 THEN q[k - 1] ELSE b
  <2>1. CASE k = 1
    BY <1>4, <2>1
  <2>2. CASE k # 1
    <3>1. k - 1 \in 1..Len(q) + 1 /\ (k - 1) + 1 = k /\ Len(ts) - 1 = Len(q) + 1
      BY <1>2, <1>4, <2>2
    <3>2. d[k - 1] = ts[k]
      BY <1>5, <3>1
    <3>. QED BY <1>2, <2>2, <3>1, <3>2
  <2>. QED BY <2>1, <2>2
<1>7. ts = Between(a, q, b)
  BY DEF ts, d, c, Between
<1>. QED BY <1>2, <1>4, <1>6, <1>7

\* How long a bracketed sequence is.
LEMMA BetweenLength ==
  ASSUME NEW a \in AnyToken, NEW b \in AnyToken, NEW q \in Tokens
  PROVE  Between(a, q, b) \in Tokens /\ Len(Between(a, q, b)) = Len(q) + 2 /\ Len(q) \in Nat
  BY BetweenAt

\* A bracketed sequence before more tokens.
LEMMA BetweenConcat ==
  ASSUME NEW a \in AnyToken, NEW b \in AnyToken, NEW q \in Tokens, NEW r \in Tokens
  PROVE  Between(a, q, b) \o r = Cons(a, q \o Cons(b, r))
<1>. DEFINE c == Cons(b, <<>>)
<1>1. c \in Tokens
  BY NoTokens, ConsTokens
<1>2. c \o r = Cons(b, r)
  <2>1. c \o r = Cons(b, <<>> \o r)
    BY NoTokens, ConsConcat
  <2>2. <<>> \o r = r
    BY TokensConcat
  <2>. QED BY <2>1, <2>2
<1>. HIDE DEF c
<1>3. q \o c \in Tokens /\ (q \o c) \o r = q \o (c \o r)
  <2>1. q \o c \in Tokens
    BY <1>1, TokensConcat
  <2>. QED BY <1>1, <2>1, ConcatThrice
<1>4. Cons(a, q \o c) \o r = Cons(a, (q \o c) \o r)
  BY <1>3, ConsConcat
<1>5. Between(a, q, b) = Cons(a, q \o c)
  BY DEF Between, c
<1>. QED BY <1>2, <1>3, <1>4, <1>5

\* What stands in brackets.
LEMMA BetweenParts ==
  ASSUME NEW a \in AnyToken, NEW b \in AnyToken, NEW q \in Tokens
  PROVE  /\ Between(a, q, b)[1] = a /\ Between(a, q, b)[Len(Between(a, q, b))] = b
         /\ Part(Between(a, q, b), 2, Len(Between(a, q, b)) - 1) = q
<1>. DEFINE ts == Between(a, q, b)
            c == Part(ts, 2, Len(ts) - 1)
<1>1. /\ ts \in Tokens /\ Len(ts) = Len(q) + 2 /\ Len(q) \in Nat
      /\ \A k \in 1..Len(q) + 2 :
           ts[k] = IF k = 1 THEN a ELSE IF k <= Len(q) + 1 THEN q[k - 1] ELSE b
  BY BetweenAt
<1>. HIDE DEF ts
<1>2. ts[1] = a /\ ts[Len(ts)] = b
  BY <1>1
<1>3. c \in Tokens /\ Len(c) = Len(q) /\ \A k \in 1..Len(q) : c[k] = ts[k + 1]
  BY <1>1, PartProperties
<1>. HIDE DEF c
<1>4. \A k \in 1..Len(q) : c[k] = q[k]
  BY <1>1, <1>3
<1>5. c = q
  BY <1>3, <1>4, SeqEqual DEF Tokens
<1>. QED BY <1>2, <1>5 DEF ts, c

\* Two tokens or more are a first one, a last one and what is between.
LEMMA EndsSplit ==
  ASSUME NEW ts \in Tokens, Len(ts) > 1
  PROVE  /\ ts[1] \in AnyToken /\ ts[Len(ts)] \in AnyToken
         /\ Part(ts, 2, Len(ts) - 1) \in Tokens /\ Len(Part(ts, 2, Len(ts) - 1)) = Len(ts) - 2
         /\ ts = Between(ts[1], Part(ts, 2, Len(ts) - 1), ts[Len(ts)])
<1>. DEFINE c == Part(ts, 2, Len(ts) - 1)
<1>1. Len(ts) \in Nat
  BY LenProperties DEF Tokens
<1>2. ts[1] \in AnyToken /\ ts[Len(ts)] \in AnyToken
  <2>1. 1 \in 1..Len(ts) /\ Len(ts) \in 1..Len(ts)
    BY <1>1
  <2>. QED BY <2>1, ElementOfSeq DEF Tokens
<1>3. c \in Tokens /\ Len(c) = Len(ts) - 2 /\ \A k \in 1..Len(ts) - 2 : c[k] = ts[k + 1]
  BY <1>1, PartProperties
<1>. HIDE DEF c
<1>. DEFINE b == ts[Len(ts)]
            d == Between(ts[1], c, b)
<1>. HIDE DEF b
<1>4. /\ d \in Tokens /\ Len(d) = Len(c) + 2
      /\ \A k \in 1..Len(c) + 2 :
           d[k] = IF k = 1 THEN ts[1] ELSE IF k <= Len(c) + 1 THEN c[k - 1] ELSE b
  <2>1. ts[1] \in AnyToken /\ b \in AnyToken /\ c \in Tokens
    BY <1>2, <1>3 DEF b
  <2>. DEFINE first == ts[1]
  <2>. HIDE DEF first
  <2>2. first \in AnyToken
    BY <2>1 DEF first
  <2>3. b \in AnyToken /\ c \in Tokens
    BY <2>1
  <2>4. Between(first, c, b) \in Tokens /\ Len(Between(first, c, b)) = Len(c) + 2
    BY <2>2, <2>3, BetweenLength
  <2>5. \A k \in 1..Len(c) + 2 : Between(first, c, b)[k] =
          IF k = 1 THEN first ELSE IF k <= Len(c) + 1 THEN c[k - 1] ELSE b
    BY <2>2, <2>3, BetweenAt
  <2>. QED BY <2>4, <2>5 DEF first
<1>. HIDE DEF d
<1>5. ASSUME NEW k \in 1..Len(ts) PROVE ts[k] = d[k]
  <2>1. CASE k = 1
    BY <1>1, <1>3, <1>4, <2>1
  <2>2. CASE k = Len(ts)
    BY <1>1, <1>3, <1>4, <2>2 DEF b
  <2>3. CASE k # 1 /\ k # Len(ts)
    <3>1. k - 1 \in 1..Len(ts) - 2 /\ (k - 1) + 1 = k
      BY <1>1, <2>3
    <3>2. c[k - 1] = ts[k]
      BY <1>3, <3>1
    <3>. QED BY <1>1, <1>3, <1>4, <2>3, <3>2
  <2>. QED BY <2>1, <2>2, <2>3
<1>6. ts = d
  BY <1>1, <1>3, <1>4, <1>5, SeqEqual DEF Tokens
<1>. QED BY <1>2, <1>3, <1>6 DEF b, c, d

-----------------------------------------------------------------------------
(* The trees of the grammar, rule by rule.                                  *)

\* The rules, as equations about Trees.
LEMMA TreesByLevel ==
  ASSUME NEW ts \in Tokens, ts # <<>>
  PROVE  /\ Trees(ts, 10) = PrimaryTrees(Derive, ts)
         /\ Trees(ts, 9) = Trees(ts, 10) \union PrefixTrees(Derive, ts)
         /\ \A l \in 1..8 : Trees(ts, l) = Trees(ts, l + 1) \union InfixTrees(Derive, ts, l)
<1>1. Trees(ts, 10) = PrimaryTrees(Derive, ts)
  BY TreesEquation, TreesCases
<1>2. Trees(ts, 9) = Trees(ts, 10) \union PrefixTrees(Derive, ts)
  <2>1. Trees(ts, 9) = Derive[Phrase(ts, 10)] \union PrefixTrees(Derive, ts)
    BY TreesEquation, TreesCases
  <2>. QED BY <2>1, TreesEquation
<1>3. ASSUME NEW l \in 1..8 PROVE Trees(ts, l) = Trees(ts, l + 1) \union InfixTrees(Derive, ts, l)
  <2>1. Trees(ts, l) = Derive[Phrase(ts, l + 1)] \union InfixTrees(Derive, ts, l)
    BY TreesEquation, TreesCases
  <2>2. Trees(ts, l + 1) = Derive[Phrase(ts, l + 1)]
    <3>1. l + 1 \in 1..10
      OBVIOUS
    <3>. QED BY <3>1, TreesEquation
  <2>. QED BY <2>1, <2>2
<1>. QED BY <1>1, <1>2, <1>3

\* No tokens derive no tree.
LEMMA NothingDerived ==
  ASSUME NEW level \in 1..10
  PROVE  Trees(<<>>, level) = {}
  BY NoTokens, TreesEquation, TreesCases

\* A level has the trees of every higher level.
LEMMA LevelsNest ==
  ASSUME NEW ts \in Tokens, NEW k \in 1..10, NEW m \in 1..10, k <= m
  PROVE  Trees(ts, m) \subseteq Trees(ts, k)
<1>1. CASE ts = <<>>
  BY <1>1, NothingDerived
<1>2. CASE ts # <<>>
  <2>1. ASSUME NEW l \in 1..9 PROVE Trees(ts, l + 1) \subseteq Trees(ts, l)
    <3>1. CASE l = 9
      <4>1. Trees(ts, 10) \subseteq Trees(ts, 9)
        BY <1>2, TreesByLevel
      <4>. QED BY <3>1, <4>1
    <3>2. CASE l \in 1..8
      BY <1>2, <3>2, TreesByLevel
    <3>. QED BY <3>1, <3>2
  <2>. DEFINE S == { n \in Nat : n <= m - 1 => Trees(ts, m) \subseteq Trees(ts, m - n) }
  <2>2. ASSUME NEW n \in Nat, \A j \in Nat : j < n => j \in S PROVE n \in S
    <3>1. CASE n = 0
      BY <3>1
    <3>2. CASE n # 0 /\ n <= m - 1
      <4>1. n - 1 \in Nat /\ n - 1 < n /\ n - 1 <= m - 1 /\ m - (n - 1) = (m - n) + 1 /\ m - n \in 1..9
        BY <3>2
      <4>2. Trees(ts, m) \subseteq Trees(ts, (m - n) + 1)
        BY <2>2, <4>1
      <4>3. Trees(ts, (m - n) + 1) \subseteq Trees(ts, m - n)
        BY <2>1, <4>1
      <4>. QED BY <4>2, <4>3
    <3>3. CASE ~ (n <= m - 1)
      BY <3>3
    <3>. QED BY <3>1, <3>2, <3>3
  <2>3. Nat \subseteq S
    <3>. HIDE DEF S
    <3>. QED BY <2>2, Deriving!CompleteInduction
  <2>4. m - k \in Nat /\ m - k <= m - 1 /\ m - (m - k) = k
    OBVIOUS
  <2>. QED BY <2>3, <2>4
<1>. QED BY <1>1, <1>2

\* An operand is a literal or in parentheses.
LEMMA PrimaryMembers ==
  ASSUME NEW ts \in Tokens, NEW e \in Trees(ts, 10)
  PROVE  \/ \E t \in AnyToken : ts = Cons(t, <<>>) /\ e \in LiteralTrees(t)
         \/ \E a, b \in AnyToken : \E q \in Tokens :
              a.type = "(" /\ b.type = ")" /\ ts = Between(a, q, b) /\ e \in Trees(q, 1)
<1>1. ts # <<>>
  BY NothingDerived
<1>2. e \in PrimaryTrees(Derive, ts)
  BY <1>1, TreesByLevel
<1>3. ts[1] \in AnyToken /\ Tail(ts) \in Tokens /\ ts = Cons(ts[1], Tail(ts))
      /\ Len(Tail(ts)) = Len(ts) - 1 /\ Len(ts) \in Nat \ {0}
  BY <1>1, TokensCases
<1>4. CASE Len(ts) = 1
  <2>1. e \in LiteralTrees(ts[1])
    BY <1>2, <1>4 DEF PrimaryTrees
  <2>2. Tail(ts) = <<>>
    <3>1. Len(Tail(ts)) = 0
      BY <1>3, <1>4
    <3>. DEFINE later == Tail(ts)
    <3>2. later \in Tokens /\ Len(later) = 0
      BY <1>3, <3>1
    <3>. HIDE DEF later
    <3>3. later = <<>>
      BY <3>2, NoLength
    <3>. QED BY <3>3 DEF later
  <2>. QED BY <1>3, <2>1, <2>2
<1>5. CASE Len(ts) # 1
  <2>. DEFINE q == Part(ts, 2, Len(ts) - 1)
  <2>1. /\ ts[1] \in AnyToken /\ ts[Len(ts)] \in AnyToken
        /\ q \in Tokens /\ ts = Between(ts[1], q, ts[Len(ts)])
    BY <1>3, <1>5, EndsSplit
  <2>2. ts[1].type = "(" /\ ts[Len(ts)].type = ")" /\ e \in Derive[Phrase(q, 1)]
    BY <1>2, <1>5 DEF PrimaryTrees
  <2>. HIDE DEF q
  <2>3. e \in Trees(q, 1)
    BY <2>1, <2>2, TreesEquation
  <2>. QED BY <2>1, <2>2, <2>3
<1>. QED BY <1>4, <1>5

\* One token derives what it is a literal of.
LEMMA LiteralDerives ==
  ASSUME NEW t \in AnyToken
  PROVE  Trees(Cons(t, <<>>), 10) = LiteralTrees(t)
<1>. DEFINE ts == Cons(t, <<>>)
<1>1. ts \in Tokens /\ ts # <<>> /\ Len(ts) = 1 /\ ts[1] = t
  <2>1. ts \in Tokens /\ ts # <<>> /\ Len(ts) = Len(<<>>) + 1 /\ ts[1] = t
    BY NoTokens, ConsTokens
  <2>. QED BY <2>1
<1>. HIDE DEF ts
<1>2. PrimaryTrees(Derive, ts) = LiteralTrees(t)
  BY <1>1 DEF PrimaryTrees
<1>3. Trees(ts, 10) = LiteralTrees(t)
  BY <1>1, <1>2, TreesByLevel
<1>. QED BY <1>3 DEF ts

\* Parentheses change nothing but the level.
LEMMA ParenthesesDerive ==
  ASSUME NEW a \in AnyToken, NEW b \in AnyToken, NEW q \in Tokens, a.type = "(", b.type = ")"
  PROVE  Trees(Between(a, q, b), 10) = Trees(q, 1)
<1>. DEFINE ts == Between(a, q, b)
<1>1. /\ ts \in Tokens /\ Len(ts) = Len(q) + 2 /\ Len(q) \in Nat
      /\ ts[1] = a /\ ts[Len(ts)] = b /\ Part(ts, 2, Len(ts) - 1) = q
  BY BetweenAt, BetweenParts
<1>. HIDE DEF ts
<1>2. ts # <<>> /\ Len(ts) # 1
  BY <1>1, NoTokens
<1>3. PrimaryTrees(Derive, ts) = Derive[Phrase(q, 1)]
  BY <1>1, <1>2 DEF PrimaryTrees
<1>4. Trees(ts, 10) = Trees(q, 1)
  BY <1>1, <1>2, <1>3, TreesByLevel, TreesEquation
<1>. QED BY <1>4 DEF ts

\* What derives on the level of prefix operators.
LEMMA UnaryMembers ==
  ASSUME NEW ts \in Tokens, NEW e \in Trees(ts, 9)
  PROVE  \/ e \in Trees(ts, 10)
         \/ \E t \in AnyToken : \E p \in Tokens : \E d \in Trees(p, 9) :
              ts = Cons(t, p) /\ t.type \in PrefixSymbols /\ e = Unary(UnaryOpFor[t.type], d)
<1>1. ts # <<>>
  BY NothingDerived
<1>2. CASE e \in Trees(ts, 10)
  BY <1>2
<1>3. CASE e \notin Trees(ts, 10)
  <2>1. e \in PrefixTrees(Derive, ts)
    BY <1>1, <1>3, TreesByLevel
  <2>2. ts[1] \in AnyToken /\ Tail(ts) \in Tokens /\ ts = Cons(ts[1], Tail(ts))
    BY <1>1, TokensCases
  <2>3. ts[1].type \in PrefixSymbols
    BY <2>1 DEF PrefixTrees
  <2>4. PICK d \in Derive[Phrase(Tail(ts), 9)] : e = Unary(UnaryOpOfSymbol(ts[1].type), d)
    BY <2>1, <2>3 DEF PrefixTrees, UnaryLevel
  <2>5. d \in Trees(Tail(ts), 9)
    BY <2>2, TreesEquation
  <2>6. e = Unary(UnaryOpFor[ts[1].type], d)
    BY <2>3, <2>4, PrefixTable
  <2>. QED BY <2>2, <2>3, <2>5, <2>6
<1>. QED BY <1>2, <1>3

\* A prefix operator applies to an operand of its own level.
LEMMA PrefixDerives ==
  ASSUME NEW t \in AnyToken, NEW p \in Tokens, NEW d \in Trees(p, 9), t.type \in PrefixSymbols
  PROVE  Unary(UnaryOpFor[t.type], d) \in Trees(Cons(t, p), 9)
<1>. DEFINE ts == Cons(t, p)
            op == UnaryOpFor[t.type]
<1>1. ts \in Tokens /\ ts # <<>> /\ ts[1] = t /\ Tail(ts) = p
  BY ConsTokens
<1>2. op = UnaryOpOfSymbol(t.type)
  BY PrefixTable
<1>3. d \in Derive[Phrase(p, 9)]
  BY TreesEquation
<1>. HIDE DEF ts, op
<1>4. Unary(op, d) \in PrefixTrees(Derive, ts)
  BY <1>1, <1>2, <1>3 DEF PrefixTrees, UnaryLevel
<1>5. Unary(op, d) \in Trees(ts, 9)
  BY <1>1, <1>4, TreesByLevel
<1>. QED BY <1>5 DEF ts, op

\* binaryOpFor and the level of an operator's symbol.
LEMMA LevelOperators ==
  ASSUME NEW l \in 1..8, NEW s \in Levels[l]
  PROVE  s \in OperatorSymbols /\ BinaryOpFor[s].precedence = l /\ OpOfSymbol(s) = BinaryOpFor[s].op
<1>1. s \in OperatorSymbols
  BY SymbolTable
<1>2. BinaryOpFor[s].precedence = l
  BY <1>1, OperatorTable
<1>. QED BY <1>1, <1>2, SymbolTable

\* The tree e is made of a phrase of level l and one of the next level, with an
\* operator of level l between them.
IsInfix(ts, l, e) ==
  \E p, q \in Tokens : \E t \in AnyToken : \E x \in Trees(p, l), y \in Trees(q, l + 1) :
    /\ ts = p \o Cons(t, q) /\ t.type \in Levels[l]
    /\ e = Binary(BinaryOpFor[t.type].op, x, y)

\* What derives on the level of a binary operator.
LEMMA InfixMembers ==
  ASSUME NEW ts \in Tokens, NEW l \in 1..8, NEW e \in Trees(ts, l)
  PROVE  e \in Trees(ts, l + 1) \/ IsInfix(ts, l, e)
<1>1. ts # <<>>
  BY NothingDerived
<1>2. CASE e \in Trees(ts, l + 1)
  BY <1>2
<1>3. CASE e \notin Trees(ts, l + 1)
  <2>1. e \in InfixTrees(Derive, ts, l)
    BY <1>1, <1>3, TreesByLevel
  <2>2. Len(ts) \in Nat
    BY LenProperties DEF Tokens
  <2>3. PICK i \in 2..Len(ts) - 1 : ts[i].type \in Levels[l] /\ e \in SplitTrees(Derive, ts, l, i)
    BY <2>1 DEF InfixTrees
  <2>. DEFINE p == Part(ts, 1, i - 1)
              q == Part(ts, i + 1, Len(ts))
              t == ts[i]
  <2>4. t \in AnyToken /\ p \in Tokens /\ q \in Tokens /\ ts = p \o Cons(t, q)
    <3>1. i \in 1..Len(ts)
      BY <2>2
    <3>. QED BY <3>1, SplitAt
  <2>5. PICK x \in Derive[Phrase(p, l)], y \in Derive[Phrase(q, l + 1)] :
          e = Binary(OpOfSymbol(t.type), x, y)
    BY <2>3 DEF SplitTrees
  <2>. HIDE DEF p, q
  <2>6. x \in Trees(p, l)
    BY <2>4, TreesEquation
  <2>7. y \in Trees(q, l + 1)
    <3>1. l + 1 \in 1..10
      OBVIOUS
    <3>. QED BY <2>4, <3>1, TreesEquation
  <2>8. t.type \in Levels[l] /\ e = Binary(BinaryOpFor[t.type].op, x, y)
    BY <2>3, <2>5, LevelOperators
  <2>. HIDE DEF t
  <2>. QED BY <2>4, <2>6, <2>7, <2>8 DEF IsInfix
<1>. QED BY <1>2, <1>3

\* A binary operator applies to its own level on the left and to the next on the right.
LEMMA InfixDerives ==
  ASSUME NEW p \in Tokens, NEW q \in Tokens, NEW t \in AnyToken, NEW l \in 1..8,
         NEW x \in Trees(p, l), NEW y \in Trees(q, l + 1), t.type \in Levels[l]
  PROVE  Binary(BinaryOpFor[t.type].op, x, y) \in Trees(p \o Cons(t, q), l)
<1>. DEFINE ts == p \o Cons(t, q)
            i == Len(p) + 1
            e == Binary(BinaryOpFor[t.type].op, x, y)
<1>1. /\ ts \in Tokens /\ Len(ts) = Len(p) + 1 + Len(q) /\ Len(p) \in Nat /\ Len(q) \in Nat
      /\ ts[i] = t /\ Part(ts, 1, Len(p)) = p /\ Part(ts, Len(p) + 2, Len(ts)) = q
  BY JoinAt
<1>. HIDE DEF ts
<1>2. p # <<>> /\ q # <<>>
  <2>1. l + 1 \in 1..10
    OBVIOUS
  <2>. QED BY <2>1, NothingDerived
<1>3. Len(p) # 0 /\ Len(q) # 0
  BY <1>2, EmptySeq DEF Tokens
<1>4. i \in 2..Len(ts) - 1 /\ i - 1 = Len(p) /\ i + 1 = Len(p) + 2
  BY <1>1, <1>3
<1>. HIDE DEF i
<1>5. Part(ts, 1, i - 1) = p /\ Part(ts, i + 1, Len(ts)) = q
  BY <1>1, <1>4
<1>6. x \in Derive[Phrase(p, l)] /\ y \in Derive[Phrase(q, l + 1)]
  <2>1. l + 1 \in 1..10
    OBVIOUS
  <2>. QED BY <2>1, TreesEquation
<1>7. e = Binary(OpOfSymbol(ts[i].type), x, y)
  BY <1>1, LevelOperators
<1>. HIDE DEF e
<1>8. e \in SplitTrees(Derive, ts, l, i)
  BY <1>5, <1>6, <1>7 DEF SplitTrees
<1>9. e \in InfixTrees(Derive, ts, l)
  BY <1>1, <1>4, <1>8 DEF InfixTrees
<1>10. ts # <<>>
  BY <1>1, <1>3, NoTokens
<1>11. e \in Trees(ts, l)
  BY <1>1, <1>9, <1>10, TreesByLevel
<1>. QED BY <1>11 DEF ts, e

-----------------------------------------------------------------------------
(* The parser, rule by rule.                                                *)

\* No operator of at least this precedence comes next.
Blocked(ts, min) ==
  ~ (Peek(ts).type \in OperatorSymbols /\ BinaryOpFor[Peek(ts).type].precedence >= min)

\* parseUnary leaves no more than there was.
LEMMA UnaryReadsOn ==
  ASSUME NEW ts \in Tokens
  PROVE  ParseUnary(ParseGoals, ts).rest \in Tokens /\ Len(ParseUnary(ParseGoals, ts).rest) <= Len(ts)
<1>1. ParseAlike(ParseGoals, ParseGoals, "expression", Len(ts))
  <2>1. \A goal \in Goals : ReadsOn({}, goal, ParseGoals[goal])
    BY ParseRecursion
  <2>. HIDE DEF ParseGoals
  <2>. QED BY <2>1, GoalMade DEF ParseAlike
<1>. HIDE DEF ParseGoals
<1>. QED BY <1>1, UnaryLooksBelow

\* parseExpression: a left operand, then the loop.
LEMMA ExpressionRead ==
  ASSUME NEW ts \in Tokens, NEW min \in Nat
  PROVE  LET lhs == ParseUnary(ParseGoals, ts)
             chain == Loop(lhs.rest, min)
         IN ParseExpression(ts, min) =
              Parsed(Grouped(lhs.expr, chain.operands), chain.rest, lhs.ok /\ chain.ok)
<1>1. ParseExpression(ts, min) = ParseOperands(ParseGoals, ts, min)
  BY ParseEquations
<1>. QED BY <1>1 DEF ParseOperands, Loop

\* An error was reported or not.
LEMMA OkIsBoolean ==
  ASSUME NEW ts \in Tokens, NEW min \in Nat
  PROVE  Loop(ts, min).ok \in BOOLEAN /\ ParseExpression(ts, min).ok \in BOOLEAN
<1>1. Loop(ts, min) = ParseOperators(ParseGoals, ts, min)
  BY ParseEquations
<1>2. ParseOperators(ParseGoals, ts, min).ok \in BOOLEAN
  BY DEF ParseOperators, ParseOperator, Chain
<1>3. ParseExpression(ts, min) = ParseOperands(ParseGoals, ts, min)
  BY ParseEquations
<1>4. ParseOperands(ParseGoals, ts, min).ok \in BOOLEAN
  BY DEF ParseOperands, Parsed
<1>. QED BY <1>1, <1>2, <1>3, <1>4

\* The loop ends before anything but an operator that binds tightly enough.
LEMMA LoopBlocked ==
  ASSUME NEW ts \in Tokens, NEW min \in Nat, Blocked(ts, min)
  PROVE  Loop(ts, min) = Chain(<<>>, ts, TRUE)
<1>1. Loop(ts, min) = ParseOperators(ParseGoals, ts, min)
  BY ParseEquations
<1>. QED BY <1>1, SymbolTable DEF ParseOperators, Blocked

\* The loop takes an operator that does, with a right operand.
LEMMA LoopOperator ==
  ASSUME NEW t \in AnyToken, NEW s \in Tokens, NEW min \in Nat, NEW l \in 1..8,
         t.type \in Levels[l], l >= min
  PROVE  LET rhs == ParseExpression(s, l + 1)
             later == Loop(rhs.rest, min)
         IN Loop(Cons(t, s), min) =
              Chain(<< RightOperand(BinaryOpFor[t.type].op, rhs.expr) >> \o later.operands,
                    later.rest, rhs.ok /\ later.ok)
<1>. DEFINE info == BinaryOpFor[t.type]
            ts == Cons(t, s)
<1>1. ts \in Tokens /\ Peek(ts) = t /\ Advance(ts) = s
  BY ConsTokens
<1>2. t.type \in OperatorSymbols /\ info.precedence = l
  BY LevelOperators
<1>. HIDE DEF ts
<1>3. Loop(ts, min) = ParseOperators(ParseGoals, ts, min)
  BY <1>1, ParseEquations
<1>4. Loop(ts, min) = ParseOperator(ParseGoals, info, s, min)
  BY <1>1, <1>2, <1>3, SymbolTable DEF ParseOperators
<1>5. RightPrecedence(info) = l + 1
  BY <1>2 DEF RightPrecedence
<1>. DEFINE goal == Goal("expression", s, l + 1)
<1>6. ParseExpression(s, l + 1) = ParseGoals[goal]
  BY ParseEquations
<1>. HIDE DEF info
<1>. QED BY <1>4, <1>5, <1>6 DEF ParseOperator, Loop, ts, info

\* parseUnary at a prefix operator.
LEMMA UnaryOfPrefix ==
  ASSUME NEW t \in AnyToken, NEW s \in Tokens, t.type \in PrefixSymbols
  PROVE  ParseUnary(ParseGoals, Cons(t, s)) = Prefixed(UnaryOpFor[t.type], ParseExpression(s, 9))
<1>1. Peek(Cons(t, s)) = t /\ Advance(Cons(t, s)) = s
  BY ConsTokens
<1>2. ParseExpression(s, 9) = ParseGoals[Goal("expression", s, 9)]
  BY ParseEquations
<1>. QED BY <1>1, <1>2, PrefixTable DEF ParseUnary, PrefixPrecedence

\* parseUnary at anything else.
LEMMA UnaryOfPrimary ==
  ASSUME NEW t \in AnyToken, NEW s \in Tokens, t.type \notin PrefixSymbols
  PROVE  ParseUnary(ParseGoals, Cons(t, s)) = ParsePrimary(ParseGoals, Cons(t, s))
<1>1. Peek(Cons(t, s)) = t
  BY ConsTokens
<1>. QED BY <1>1, PrefixTable DEF ParseUnary

\* parseUnary at an opening parenthesis.
LEMMA UnaryOfParenthesis ==
  ASSUME NEW t \in AnyToken, NEW s \in Tokens, t.type = "("
  PROVE  ParseUnary(ParseGoals, Cons(t, s)) = InParentheses(ParseExpression(s, 0))
<1>1. Peek(Cons(t, s)) = t /\ Advance(Cons(t, s)) = s
  BY ConsTokens
<1>2. ParseExpression(s, 0) = ParseGoals[Goal("expression", s, 0)]
  BY ParseEquations
<1>3. t.type \notin PrefixSymbols
  BY PrefixTable
<1>4. ParsePrimary(ParseGoals, Cons(t, s)) = InParentheses(ParseGoals[Goal("expression", s, 0)])
  BY <1>1 DEF ParsePrimary
<1>. QED BY <1>2, <1>3, <1>4, UnaryOfPrimary

LiteralTypes ==
  {"IntLiteral", "RealLiteral", "StringLiteral", "true", "false", "Identifier"}

\* A literal derives one tree.
LEMMA LiteralTreesOfType ==
  ASSUME NEW t, NEW e \in LiteralTrees(t)
  PROVE  t.type \in LiteralTypes /\ LiteralTrees(t) = {e}
<1>1. t.type \in LiteralTypes
  BY DEF LiteralTrees, LiteralTypes
<1>2. LiteralTrees(t) = {e}
  BY <1>1 DEF LiteralTrees, LiteralTypes
<1>. QED BY <1>1, <1>2

\* A literal reads as its tree, if it has one.
LEMMA UnaryOfLiteral ==
  ASSUME NEW t \in AnyToken, NEW s \in Tokens, t.type \in LiteralTypes
  PROVE  /\ \A e \in LiteralTrees(t) : ParseUnary(ParseGoals, Cons(t, s)) = Parsed(e, s, TRUE)
         /\ ParseUnary(ParseGoals, Cons(t, s)).rest = s
         /\ ParseUnary(ParseGoals, Cons(t, s)).ok =>
              ParseUnary(ParseGoals, Cons(t, s)).expr \in LiteralTrees(t)
<1>. DEFINE ts == Cons(t, s)
<1>1. Peek(ts) = t /\ Advance(ts) = s
  BY ConsTokens
<1>. HIDE DEF ts
<1>2. t.type \notin PrefixSymbols
  BY PrefixTable DEF LiteralTypes
<1>3. ParseUnary(ParseGoals, ts) = ParsePrimary(ParseGoals, ts)
  BY <1>2, UnaryOfPrimary DEF ts
<1>4. \A e \in LiteralTrees(t) : ParsePrimary(ParseGoals, ts) = Parsed(e, s, TRUE)
  <2>1. CASE t.type = "IntLiteral"
    BY <1>1, <2>1 DEF ParsePrimary, LiteralTrees, ParseSigned
  <2>2. CASE t.type # "IntLiteral"
    BY <1>1, <2>2 DEF ParsePrimary, LiteralTrees, LiteralTypes
  <2>. QED BY <2>1, <2>2
<1>5. ParsePrimary(ParseGoals, ts).rest = s /\
      (ParsePrimary(ParseGoals, ts).ok => ParsePrimary(ParseGoals, ts).expr \in LiteralTrees(t))
  <2>1. CASE t.type = "IntLiteral"
    <3>1. ParsePrimary(ParseGoals, ts) = ParseSigned(NumberOf(t.text), s)
      BY <1>1, <2>1 DEF ParsePrimary
    <3>. QED BY <2>1, <3>1 DEF LiteralTrees, ParseSigned, Parsed
  <2>2. CASE t.type # "IntLiteral"
    <3>1. \E e \in LiteralTrees(t) : ParsePrimary(ParseGoals, ts) = Parsed(e, s, TRUE)
      BY <1>1, <2>2 DEF ParsePrimary, LiteralTrees, LiteralTypes
    <3>. QED BY <3>1 DEF Parsed
  <2>. QED BY <2>1, <2>2
<1>. QED BY <1>3, <1>4, <1>5 DEF ts

\* Anything else is an error.
LEMMA UnaryOfOther ==
  ASSUME NEW ts \in Tokens, ts = <<>> \/ ts[1].type \notin PrefixSymbols \union LiteralTypes \union {"("}
  PROVE  ParseUnary(ParseGoals, ts).ok = FALSE
<1>1. Peek(ts).type \notin PrefixSymbols \union LiteralTypes \union {"("}
  <2>1. CASE ts = <<>>
    BY <2>1, NoTokens, PrefixTable DEF LiteralTypes
  <2>2. CASE ts # <<>>
    BY <2>2, TokensCases
  <2>. QED BY <2>1, <2>2
<1>2. ParseUnary(ParseGoals, ts) = ParsePrimary(ParseGoals, ts)
  BY <1>1, PrefixTable DEF ParseUnary
<1>3. ParsePrimary(ParseGoals, ts) = Parsed(Integer(0), Advance(ts), FALSE)
  BY <1>1 DEF ParsePrimary, LiteralTypes
<1>. QED BY <1>2, <1>3 DEF Parsed

-----------------------------------------------------------------------------
(* What the grammar derives, the parser reads.                              *)

\* What blocks the loop at a level blocks it at the levels above.
LEMMA BlockedAbove ==
  ASSUME NEW ts \in Tokens
  PROVE  /\ \A n \in Nat : n > 8 => Blocked(ts, n)
         /\ \A m, n \in Nat : m <= n /\ Blocked(ts, m) => Blocked(ts, n)
<1>1. Peek(ts).type \in OperatorSymbols => BinaryOpFor[Peek(ts).type].precedence \in 1..8
  BY OperatorTable
<1>. QED BY <1>1 DEF Blocked

\* Tokens that are no operators block it always.
LEMMA BlockedByOther ==
  ASSUME NEW ts \in Tokens, NEW n \in Nat, Peek(ts).type \notin OperatorSymbols
  PROVE  Blocked(ts, n)
  BY DEF Blocked

\* An operand reads as its tree, whatever follows it.
UnaryReadsBack(p) ==
  \A e \in Trees(p, 9) : \A r \in Tokens : ParseUnary(ParseGoals, p \o r) = Parsed(e, r, TRUE)

\* The tokens p read as e, the left operand of the operators that follow.
ReadsAs(p, e, r, min) ==
  ParseExpression(p \o r, min) =
    Parsed(Grouped(e, Loop(r, min).operands), Loop(r, min).rest, Loop(r, min).ok)

\* A phrase of a level reads as its tree before no operator of a higher level.
ReadsBack(p, level) ==
  \A e \in Trees(p, level) : \A r \in Tokens : \A min \in 0..level :
    Blocked(r, level + 1) => ReadsAs(p, e, r, min)

\* Alone, before no operator at all.
LEMMA ReadsAlone ==
  ASSUME NEW p \in Tokens, NEW level \in 1..9, ReadsBack(p, level), NEW e \in Trees(p, level),
         NEW r \in Tokens, NEW min \in 0..level, Blocked(r, min)
  PROVE  ParseExpression(p \o r, min) = Parsed(e, r, TRUE)
<1>1. Blocked(r, level + 1)
  <2>1. min \in Nat /\ level + 1 \in Nat /\ min <= level + 1
    OBVIOUS
  <2>. QED BY <2>1, BlockedAbove
<1>2. Loop(r, min) = Chain(<<>>, r, TRUE)
  <2>1. min \in Nat
    OBVIOUS
  <2>. QED BY <2>1, LoopBlocked
<1>3. ParseExpression(p \o r, min) =
        Parsed(Grouped(e, Loop(r, min).operands), Loop(r, min).rest, Loop(r, min).ok)
  BY <1>1 DEF ReadsBack, ReadsAs
<1>4. Loop(r, min).operands = <<>> /\ Loop(r, min).rest = r /\ Loop(r, min).ok = TRUE
  BY <1>2 DEF Chain
<1>. QED BY <1>3, <1>4, GroupedAlone

\* Operands are read as they derive, if shorter expressions are.
LEMMA PrimaryReadsBack ==
  ASSUME NEW p \in Tokens, NEW e \in Trees(p, 10), NEW r \in Tokens,
         \A q \in Tokens : Len(q) < Len(p) => ReadsBack(q, 1)
  PROVE  ParseUnary(ParseGoals, p \o r) = Parsed(e, r, TRUE)
<1>1. CASE \E t \in AnyToken : p = Cons(t, <<>>) /\ e \in LiteralTrees(t)
  <2>1. PICK t \in AnyToken : p = Cons(t, <<>>) /\ e \in LiteralTrees(t)
    BY <1>1
  <2>2. p \o r = Cons(t, r)
    <3>1. Cons(t, <<>>) \o r = Cons(t, <<>> \o r)
      BY NoTokens, ConsConcat
    <3>2. <<>> \o r = r
      BY TokensConcat
    <3>. QED BY <2>1, <3>1, <3>2
  <2>3. t.type \in LiteralTypes
    BY <2>1, LiteralTreesOfType
  <2>. QED BY <2>1, <2>2, <2>3, UnaryOfLiteral
<1>2. CASE \E a, b \in AnyToken : \E q \in Tokens :
             a.type = "(" /\ b.type = ")" /\ p = Between(a, q, b) /\ e \in Trees(q, 1)
  <2>1. PICK a \in AnyToken, b \in AnyToken, q \in Tokens :
          a.type = "(" /\ b.type = ")" /\ p = Between(a, q, b) /\ e \in Trees(q, 1)
    BY <1>2
  <2>. DEFINE s == Cons(b, r)
  <2>2. s \in Tokens /\ Peek(s) = b /\ Advance(s) = r
    BY ConsTokens
  <2>. HIDE DEF s
  <2>3. p \o r = Cons(a, q \o s) /\ Len(q) < Len(p)
    <3>1. Len(p) = Len(q) + 2 /\ Len(q) \in Nat
      BY <2>1, BetweenAt
    <3>2. Between(a, q, b) \o r = Cons(a, q \o Cons(b, r))
      BY BetweenConcat
    <3>. QED BY <2>1, <3>1, <3>2 DEF s
  <2>4. Blocked(s, 0)
    <3>1. ")" \notin OperatorSymbols
      BY DEF OperatorSymbols
    <3>. QED BY <2>1, <2>2, <3>1, BlockedByOther
  <2>5. ParseExpression(q \o s, 0) = Parsed(e, s, TRUE)
    <3>1. ReadsBack(q, 1) /\ 1 \in 1..9 /\ 0 \in 0..1
      BY <2>3
    <3>2. q \in Tokens /\ s \in Tokens /\ e \in Trees(q, 1)
      BY <2>1, <2>2
    <3>. HIDE DEF s
    <3>. QED BY <2>4, <3>1, <3>2, ReadsAlone
  <2>6. q \o s \in Tokens
    BY <2>2, TokensConcat
  <2>7. ParseUnary(ParseGoals, Cons(a, q \o s)) = InParentheses(ParseExpression(q \o s, 0))
    BY <2>1, <2>6, UnaryOfParenthesis
  <2>8. InParentheses(Parsed(e, s, TRUE)) = Parsed(e, r, TRUE)
    BY <2>1, <2>2 DEF InParentheses, Parsed
  <2>. QED BY <2>3, <2>5, <2>7, <2>8
<1>. QED BY <1>1, <1>2, PrimaryMembers

\* So are operands with prefix operators.
LEMMA OperandReadsBack ==
  ASSUME NEW p \in Tokens, \A q \in Tokens : Len(q) < Len(p) => ReadsBack(q, 1) /\ ReadsBack(q, 9)
  PROVE  UnaryReadsBack(p)
<1>1. SUFFICES ASSUME NEW e \in Trees(p, 9), NEW r \in Tokens
               PROVE  ParseUnary(ParseGoals, p \o r) = Parsed(e, r, TRUE)
  BY DEF UnaryReadsBack
<1>2. CASE e \in Trees(p, 10)
  BY <1>2, PrimaryReadsBack
<1>3. CASE \E t \in AnyToken : \E q \in Tokens : \E d \in Trees(q, 9) :
             p = Cons(t, q) /\ t.type \in PrefixSymbols /\ e = Unary(UnaryOpFor[t.type], d)
  <2>. PICK t \in AnyToken, q \in Tokens : \E d \in Trees(q, 9) :
         p = Cons(t, q) /\ t.type \in PrefixSymbols /\ e = Unary(UnaryOpFor[t.type], d)
    BY <1>3
  <2>1. PICK d \in Trees(q, 9) :
          p = Cons(t, q) /\ t.type \in PrefixSymbols /\ e = Unary(UnaryOpFor[t.type], d)
    OBVIOUS
  <2>2. Len(q) < Len(p)
    <3>1. Len(p) = Len(q) + 1 /\ Len(q) \in Nat
      BY <2>1, ConsTokens, NoLength
    <3>. QED BY <3>1
  <2>3. p \o r = Cons(t, q \o r) /\ q \o r \in Tokens
    <3>1. Cons(t, q) \o r = Cons(t, q \o r)
      BY ConsConcat
    <3>2. q \o r \in Tokens
      BY TokensConcat
    <3>. QED BY <2>1, <3>1, <3>2
  <2>4. ParseExpression(q \o r, 9) = Parsed(d, r, TRUE)
    <3>1. Blocked(r, 9)
      BY BlockedAbove
    <3>2. ReadsBack(q, 9) /\ 9 \in 0..9 /\ 9 \in 1..9
      BY <2>2
    <3>. QED BY <3>1, <3>2, ReadsAlone
  <2>5. ParseUnary(ParseGoals, Cons(t, q \o r)) = Prefixed(UnaryOpFor[t.type], ParseExpression(q \o r, 9))
    BY <2>1, <2>3, UnaryOfPrefix
  <2>6. \A op : Prefixed(op, Parsed(d, r, TRUE)) = Parsed(Unary(op, d), r, TRUE)
    BY DEF Prefixed, Parsed
  <2>. QED BY <2>1, <2>3, <2>4, <2>5, <2>6
<1>. QED BY <1>2, <1>3, UnaryMembers

\* A derived operand is read as an expression too.
LEMMA UnaryLevelReadsBack ==
  ASSUME NEW p \in Tokens, UnaryReadsBack(p)
  PROVE  ReadsBack(p, 9)
<1>1. SUFFICES ASSUME NEW e \in Trees(p, 9), NEW r \in Tokens, NEW min \in 0..9
               PROVE  ReadsAs(p, e, r, min)
  BY DEF ReadsBack
<1>. DEFINE ts == p \o r
<1>2. ts \in Tokens /\ min \in Nat
  BY TokensConcat
<1>3. ParseUnary(ParseGoals, ts) = Parsed(e, r, TRUE)
  BY DEF UnaryReadsBack
<1>. HIDE DEF ts
<1>. DEFINE lhs == ParseUnary(ParseGoals, ts)
            chain == Loop(lhs.rest, min)
<1>4. ParseExpression(ts, min) =
        Parsed(Grouped(lhs.expr, chain.operands), chain.rest, lhs.ok /\ chain.ok)
  BY <1>2, ExpressionRead
<1>5. lhs.expr = e /\ lhs.rest = r /\ lhs.ok = TRUE
  BY <1>3 DEF Parsed
<1>. HIDE DEF lhs
<1>6. (lhs.ok /\ chain.ok) = Loop(r, min).ok
  BY <1>2, <1>5, OkIsBoolean
<1>. QED BY <1>4, <1>5, <1>6 DEF ts, ReadsAs

\* An operator of level l with its right operand, read by the loop.
LEMMA LoopReadsOperator ==
  ASSUME NEW q \in Tokens, NEW t \in AnyToken, NEW l \in 1..8, NEW y \in Trees(q, l + 1),
         NEW r \in Tokens, NEW min \in 0..l, t.type \in Levels[l],
         ReadsBack(q, l + 1), Blocked(r, l + 1)
  PROVE  Loop(Cons(t, q \o r), min) =
           Chain(<< RightOperand(BinaryOpFor[t.type].op, y) >> \o Loop(r, min).operands,
                 Loop(r, min).rest, Loop(r, min).ok)
<1>. DEFINE s == q \o r
            rhs == ParseExpression(s, l + 1)
            later == Loop(rhs.rest, min)
            op == BinaryOpFor[t.type].op
<1>1. s \in Tokens
  BY TokensConcat
<1>2. rhs = Parsed(y, r, TRUE)
  <2>1. l + 1 \in 1..9 /\ l + 1 \in 0..l + 1
    OBVIOUS
  <2>. QED BY <2>1, ReadsAlone
<1>. HIDE DEF s
<1>3. min \in Nat /\ l >= min
  OBVIOUS
<1>4. Loop(Cons(t, s), min) =
        Chain(<< RightOperand(op, rhs.expr) >> \o later.operands, later.rest, rhs.ok /\ later.ok)
  BY <1>1, <1>3, LoopOperator
<1>. HIDE DEF rhs, op
<1>5. rhs.expr = y /\ rhs.rest = r /\ rhs.ok = TRUE
  BY <1>2 DEF Parsed
<1>6. (rhs.ok /\ later.ok) = Loop(r, min).ok
  BY <1>3, <1>5, OkIsBoolean
<1>. QED BY <1>4, <1>5, <1>6 DEF s, op

\* A binary operator and its operands are read as they derive, if its operands are.
LEMMA InfixOperandsReadBack ==
  ASSUME NEW a \in Tokens, NEW q \in Tokens, NEW t \in AnyToken, NEW l \in 1..8,
         NEW x \in Trees(a, l), NEW y \in Trees(q, l + 1), NEW r \in Tokens, NEW min \in 0..l,
         t.type \in Levels[l], ReadsBack(a, l), ReadsBack(q, l + 1), Blocked(r, l + 1)
  PROVE  ReadsAs(a \o Cons(t, q), Binary(BinaryOpFor[t.type].op, x, y), r, min)
<1>. DEFINE item == RightOperand(BinaryOpFor[t.type].op, y)
            s == Cons(t, q \o r)
            loop == Loop(r, min)
            ops == loop.operands
<1>1. Loop(s, min) = Chain(<<item>> \o ops, loop.rest, loop.ok)
  BY LoopReadsOperator
<1>2. s \in Tokens /\ Peek(s) = t
  <2>1. q \o r \in Tokens
    BY TokensConcat
  <2>. QED BY <2>1, ConsTokens
<1>3. (a \o Cons(t, q)) \o r = a \o s
  <2>1. Cons(t, q) \in Tokens
    BY ConsTokens
  <2>2. (a \o Cons(t, q)) \o r = a \o (Cons(t, q) \o r)
    BY <2>1, ConcatThrice
  <2>3. Cons(t, q) \o r = s
    BY ConsConcat
  <2>. QED BY <2>2, <2>3
<1>. HIDE DEF s
<1>4. Blocked(s, l + 1)
  <2>1. BinaryOpFor[t.type].precedence = l
    BY LevelOperators
  <2>. QED BY <1>2, <2>1 DEF Blocked
<1>5. ParseExpression(a \o s, min) =
        Parsed(Grouped(x, Loop(s, min).operands), Loop(s, min).rest, Loop(s, min).ok)
  BY <1>2, <1>4 DEF ReadsBack, ReadsAs
<1>6. IsSequence(ops)
  <2>1. min \in Nat
    OBVIOUS
  <2>. QED BY <2>1, ParseEquations
<1>7. item.op = BinaryOpFor[t.type].op /\ item.rhs = y
  BY DEF RightOperand
<1>. HIDE DEF item, ops, loop
<1>8. /\ Loop(s, min).operands = <<item>> \o ops
      /\ Loop(s, min).rest = loop.rest /\ Loop(s, min).ok = loop.ok
  BY <1>1 DEF Chain
<1>9. Grouped(x, <<item>> \o ops) = Grouped(Binary(item.op, x, item.rhs), ops)
  BY <1>6, GroupedCons
<1>10. ParseExpression((a \o Cons(t, q)) \o r, min) =
         Parsed(Grouped(Binary(item.op, x, item.rhs), ops), loop.rest, loop.ok)
  BY <1>3, <1>5, <1>8, <1>9
<1>. QED BY <1>7, <1>10 DEF ops, loop, ReadsAs

\* So is every phrase of the level of a binary operator.
LEMMA InfixReadsBack ==
  ASSUME NEW p \in Tokens, NEW l \in 1..8, ReadsBack(p, l + 1),
         \A q \in Tokens : \A k \in 1..9 : Len(q) < Len(p) => ReadsBack(q, k)
  PROVE  ReadsBack(p, l)
<1>1. SUFFICES ASSUME NEW e \in Trees(p, l), NEW r \in Tokens, NEW min \in 0..l, Blocked(r, l + 1)
               PROVE  ReadsAs(p, e, r, min)
  BY DEF ReadsBack
<1>2. CASE e \in Trees(p, l + 1)
  <2>1. Blocked(r, (l + 1) + 1)
    <3>1. l + 1 \in Nat /\ (l + 1) + 1 \in Nat /\ l + 1 <= (l + 1) + 1
      OBVIOUS
    <3>. QED BY <1>1, <3>1, BlockedAbove
  <2>2. min \in 0..l + 1
    OBVIOUS
  <2>. QED BY <1>2, <2>1, <2>2 DEF ReadsBack
<1>3. ASSUME NEW a \in Tokens, NEW q \in Tokens, NEW t \in AnyToken,
             NEW x \in Trees(a, l), NEW y \in Trees(q, l + 1),
             p = a \o Cons(t, q), t.type \in Levels[l], e = Binary(BinaryOpFor[t.type].op, x, y)
      PROVE  ReadsAs(p, e, r, min)
  <2>1. Len(a) < Len(p) /\ Len(q) < Len(p)
    <3>1. Len(p) = Len(a) + 1 + Len(q) /\ Len(a) \in Nat /\ Len(q) \in Nat
      BY <1>3, JoinAt
    <3>. QED BY <3>1
  <2>2. ReadsBack(a, l) /\ ReadsBack(q, l + 1)
    <3>1. l \in 1..9 /\ l + 1 \in 1..9
      OBVIOUS
    <3>. QED BY <2>1, <3>1
  <2>3. ReadsAs(a \o Cons(t, q), Binary(BinaryOpFor[t.type].op, x, y), r, min)
    <3>1. t.type \in Levels[l]
      BY <1>3
    <3>. QED BY <1>1, <2>2, <3>1, InfixOperandsReadBack
  <2>. QED BY <1>3, <2>3
<1>4. CASE IsInfix(p, l, e)
  BY <1>3, <1>4 DEF IsInfix
<1>. QED BY <1>2, <1>4, InfixMembers

\* What the grammar derives at a level, the parser reads.
LEMMA ParserReadsTrees ==
  \A p \in Tokens : UnaryReadsBack(p) /\ \A l \in 1..9 : ReadsBack(p, l)
<1>. DEFINE S == { n \in Nat : \A p \in Tokens : Len(p) = n =>
                     UnaryReadsBack(p) /\ \A l \in 1..9 : ReadsBack(p, l) }
<1>1. ASSUME NEW n \in Nat, \A m \in Nat : m < n => m \in S PROVE n \in S
  <2>1. SUFFICES ASSUME NEW p \in Tokens, Len(p) = n
                 PROVE  UnaryReadsBack(p) /\ \A l \in 1..9 : ReadsBack(p, l)
    OBVIOUS
  <2>2. \A q \in Tokens : \A k \in 1..9 : Len(q) < Len(p) => ReadsBack(q, k)
    BY <1>1, <2>1, NoLength
  <2>3. UnaryReadsBack(p)
    BY <2>2, OperandReadsBack
  <2>4. ReadsBack(p, 9)
    BY <2>3, UnaryLevelReadsBack
  <2>. DEFINE T == { j \in Nat : j <= 8 => ReadsBack(p, 9 - j) }
  <2>5. ASSUME NEW j \in Nat, \A i \in Nat : i < j => i \in T PROVE j \in T
    <3>1. CASE j = 0
      BY <2>4, <3>1
    <3>2. CASE j # 0 /\ j <= 8
      <4>1. j - 1 \in Nat /\ j - 1 < j /\ j - 1 <= 8 /\ 9 - (j - 1) = (9 - j) + 1 /\ 9 - j \in 1..8
        BY <3>2
      <4>2. ReadsBack(p, (9 - j) + 1)
        BY <2>5, <4>1
      <4>3. ReadsBack(p, 9 - j)
        BY <2>2, <4>1, <4>2, InfixReadsBack
      <4>. QED BY <4>3
    <3>3. CASE ~ (j <= 8)
      BY <3>3
    <3>. QED BY <3>1, <3>2, <3>3
  <2>6. Nat \subseteq T
    <3>. HIDE DEF T
    <3>. QED BY <2>5, Deriving!CompleteInduction
  <2>7. ASSUME NEW l \in 1..9 PROVE ReadsBack(p, l)
    <3>1. 9 - l \in Nat /\ 9 - l <= 8 /\ 9 - (9 - l) = l
      OBVIOUS
    <3>. QED BY <2>6, <3>1
  <2>. QED BY <2>3, <2>7
<1>2. Nat \subseteq S
  <2>. HIDE DEF S
  <2>. QED BY <1>1, Deriving!CompleteInduction
<1>. QED BY <1>2, NoLength

-----------------------------------------------------------------------------
(* What the parser reads, the grammar derives.                              *)

\* The level of the expressions that parseExpression reads.
Top(min) == IF min = 0 THEN 1 ELSE min

ExpressionDerived(ts, min, read) ==
  \E p \in Tokens :
    ts = p \o read.rest /\ read.expr \in Trees(p, Top(min)) /\ Blocked(read.rest, min)

ExpressionSound(ts, min) ==
  ParseExpression(ts, min).ok => ExpressionDerived(ts, min, ParseExpression(ts, min))

UnarySound(ts) ==
  ParseUnary(ParseGoals, ts).ok =>
    \E p \in Tokens : ts = p \o ParseUnary(ParseGoals, ts).rest /\ ParseUnary(ParseGoals, ts).expr \in Trees(p, 9)

\* The left operand lhs, derived from p, with the operators read after it.
OperatorsDerived(p, lhs, ts, min, chain) ==
  \E q \in Tokens :
    /\ ts = q \o chain.rest
    /\ Grouped(lhs, chain.operands) \in Trees(p \o q, Top(min))
    /\ Blocked(chain.rest, min)

LoopSound(ts, min) ==
  \A p \in Tokens : \A m \in 1..9 : \A lhs \in Trees(p, m) :
    min <= m /\ Blocked(ts, m + 1) /\ Loop(ts, min).ok =>
      OperatorsDerived(p, lhs, ts, min, Loop(ts, min))

\* Where the loop stops, it has added nothing.
LEMMA LoopStopsSound ==
  ASSUME NEW ts \in Tokens, NEW min \in 0..9, Blocked(ts, min)
  PROVE  LoopSound(ts, min)
<1>1. SUFFICES ASSUME NEW p \in Tokens, NEW m \in 1..9, NEW lhs \in Trees(p, m), min <= m
               PROVE  OperatorsDerived(p, lhs, ts, min, Loop(ts, min))
  BY DEF LoopSound
<1>2. Loop(ts, min) = Chain(<<>>, ts, TRUE)
  <2>1. min \in Nat
    OBVIOUS
  <2>. QED BY <2>1, LoopBlocked
<1>3. Loop(ts, min).operands = <<>> /\ Loop(ts, min).rest = ts
  BY <1>2 DEF Chain
<1>4. Grouped(lhs, <<>>) = lhs
  BY GroupedAlone
<1>5. lhs \in Trees(p, Top(min))
  <2>1. Top(min) \in 1..10 /\ m \in 1..10 /\ Top(min) <= m
    BY <1>1 DEF Top
  <2>. QED BY <2>1, LevelsNest
<1>6. <<>> \in Tokens /\ ts = <<>> \o ts /\ p \o <<>> = p
  BY NoTokens, TokensConcat
<1>7. Grouped(lhs, Loop(ts, min).operands) \in Trees(p \o <<>>, Top(min))
  BY <1>3, <1>4, <1>5, <1>6
<1>8. ts = <<>> \o Loop(ts, min).rest /\ Blocked(Loop(ts, min).rest, min)
  BY <1>3, <1>6
<1>. QED BY <1>6, <1>7, <1>8 DEF OperatorsDerived

\* Sequences around an operator.
LEMMA OperatorJoinsLeft ==
  ASSUME NEW t \in AnyToken, NEW a \in Tokens, NEW b \in Tokens, NEW r \in Tokens
  PROVE  Cons(t, a \o (b \o r)) = Cons(t, a \o b) \o r
<1>1. a \o b \in Tokens
  BY TokensConcat
<1>2. a \o (b \o r) = (a \o b) \o r
  BY ConcatThrice
<1>3. Cons(t, a \o b) \o r = Cons(t, (a \o b) \o r)
  BY <1>1, ConsConcat
<1>. QED BY <1>2, <1>3

\* The same, seen from the left operand.
LEMMA OperatorJoinsRight ==
  ASSUME NEW p \in Tokens, NEW t \in AnyToken, NEW a \in Tokens, NEW b \in Tokens
  PROVE  p \o Cons(t, a \o b) = (p \o Cons(t, a)) \o b
<1>1. Cons(t, a) \in Tokens
  BY ConsTokens
<1>2. (p \o Cons(t, a)) \o b = p \o (Cons(t, a) \o b)
  BY <1>1, ConcatThrice
<1>3. Cons(t, a) \o b = Cons(t, a \o b)
  BY ConsConcat
<1>. QED BY <1>2, <1>3

\* Where the loop takes an operator, the new left operand derives from what was read so far.
LEMMA LoopOperatorSound ==
  ASSUME NEW t \in AnyToken, NEW s \in Tokens, NEW min \in 0..9, NEW l \in 1..8,
         t.type \in Levels[l], l >= min, ExpressionSound(s, l + 1),
         LoopSound(ParseExpression(s, l + 1).rest, min), Loop(Cons(t, s), min).ok,
         NEW p \in Tokens, NEW lhs \in Trees(p, l)
  PROVE  OperatorsDerived(p, lhs, Cons(t, s), min, Loop(Cons(t, s), min))
<1>. DEFINE rhs == ParseExpression(s, l + 1)
            later == Loop(rhs.rest, min)
            item == RightOperand(BinaryOpFor[t.type].op, rhs.expr)
            e == Binary(BinaryOpFor[t.type].op, lhs, rhs.expr)
<1>1. min \in Nat /\ l + 1 \in Nat /\ Top(l + 1) = l + 1
  BY DEF Top
<1>2. rhs.rest \in Tokens
  BY <1>1, ParseEquations
<1>3. Loop(Cons(t, s), min) = Chain(<<item>> \o later.operands, later.rest, rhs.ok /\ later.ok)
  BY <1>1, LoopOperator
<1>. DEFINE chain == Loop(Cons(t, s), min)
<1>4. /\ chain.operands = <<item>> \o later.operands
      /\ chain.rest = later.rest /\ rhs.ok /\ later.ok
  <2>. DEFINE ops == <<item>> \o later.operands
  <2>1. \A a, b, c : Chain(a, b, c).operands = a /\ Chain(a, b, c).rest = b /\ Chain(a, b, c).ok = c
    BY DEF Chain
  <2>2. chain = Chain(ops, later.rest, rhs.ok /\ later.ok)
    BY <1>3
  <2>. HIDE DEF ops, later, rhs, chain
  <2>3. chain.operands = ops /\ chain.rest = later.rest
    BY <2>1, <2>2
  <2>4. chain.ok = (rhs.ok /\ later.ok)
    BY <2>1, <2>2
  <2>5. chain.ok
    BY DEF chain
  <2>6. rhs.ok /\ later.ok
    BY <2>4, <2>5
  <2>. QED BY <2>3, <2>6 DEF ops
<1>5. PICK a \in Tokens : s = a \o rhs.rest /\ rhs.expr \in Trees(a, l + 1) /\ Blocked(rhs.rest, l + 1)
  BY <1>1, <1>4 DEF ExpressionSound, ExpressionDerived
<1>6. e \in Trees(p \o Cons(t, a), l)
  <2>. HIDE DEF rhs
  <2>. QED BY <1>5, InfixDerives
<1>7. later.rest \in Tokens /\ IsSequence(later.operands)
  BY <1>1, <1>2, ParseEquations
<1>8. p \o Cons(t, a) \in Tokens
  <2>1. Cons(t, a) \in Tokens
    BY ConsTokens
  <2>. QED BY <2>1, TokensConcat
<1>9. item.op = BinaryOpFor[t.type].op /\ item.rhs = rhs.expr
  BY DEF RightOperand
<1>. HIDE DEF later, item, chain
<1>10. OperatorsDerived(p \o Cons(t, a), e, rhs.rest, min, later)
  <2>1. l \in 1..9
    OBVIOUS
  <2>. HIDE DEF e, rhs
  <2>. QED BY <1>4, <1>5, <1>6, <1>8, <2>1 DEF LoopSound, later, rhs
<1>11. PICK b \in Tokens : /\ rhs.rest = b \o later.rest
                           /\ Grouped(e, later.operands) \in Trees((p \o Cons(t, a)) \o b, Top(min))
                           /\ Blocked(later.rest, min)
  BY <1>10 DEF OperatorsDerived
<1>12. Grouped(lhs, chain.operands) = Grouped(e, later.operands)
  <2>1. Grouped(lhs, <<item>> \o later.operands) =
          Grouped(Binary(item.op, lhs, item.rhs), later.operands)
    BY <1>7, GroupedCons
  <2>. QED BY <1>4, <1>9, <2>1
<1>. DEFINE q == Cons(t, a \o b)
<1>13. /\ q \in Tokens /\ Cons(t, a \o (b \o later.rest)) = q \o later.rest
       /\ p \o q = (p \o Cons(t, a)) \o b
  <2>. DEFINE r == later.rest
  <2>. HIDE DEF r
  <2>1. r \in Tokens
    BY <1>7 DEF r
  <2>2. Cons(t, a \o (b \o r)) = Cons(t, a \o b) \o r
    <3>1. \A x \in Tokens : Cons(t, a \o (b \o x)) = Cons(t, a \o b) \o x
      BY OperatorJoinsLeft
    <3>. QED BY <2>1, <3>1
  <2>3. p \o Cons(t, a \o b) = (p \o Cons(t, a)) \o b
    BY OperatorJoinsRight
  <2>4. Cons(t, a \o b) \in Tokens
    <3>1. a \o b \in Tokens
      BY TokensConcat
    <3>. QED BY <3>1, ConsTokens
  <2>. QED BY <2>2, <2>3, <2>4 DEF r
<1>14. Cons(t, s) = q \o chain.rest
  BY <1>4, <1>5, <1>11, <1>13
<1>15. Grouped(lhs, chain.operands) \in Trees(p \o q, Top(min))
  BY <1>11, <1>12, <1>13
<1>16. Blocked(chain.rest, min)
  BY <1>4, <1>11
<1>. HIDE DEF q
<1>17. OperatorsDerived(p, lhs, Cons(t, s), min, chain)
  BY <1>13, <1>14, <1>15, <1>16 DEF OperatorsDerived
<1>. QED BY <1>17 DEF chain

\* An operator that comes next has a level, and a right operand after it.
LEMMA OperatorAhead ==
  ASSUME NEW ts \in Tokens, NEW min \in Nat, ~ Blocked(ts, min)
  PROVE  \E t \in AnyToken : \E s \in Tokens : \E l \in 1..8 :
           ts = Cons(t, s) /\ Len(s) < Len(ts) /\ t.type \in Levels[l] /\ l >= min
<1>1. Peek(ts).type \in OperatorSymbols /\ BinaryOpFor[Peek(ts).type].precedence >= min
  BY DEF Blocked
<1>2. ts # <<>>
  BY <1>1, NoTokens DEF OperatorSymbols
<1>3. /\ ts[1] \in AnyToken /\ Tail(ts) \in Tokens /\ ts = Cons(ts[1], Tail(ts))
      /\ Len(Tail(ts)) = Len(ts) - 1 /\ Len(ts) \in Nat \ {0} /\ Peek(ts) = ts[1]
  BY <1>2, TokensCases
<1>. DEFINE l == BinaryOpFor[ts[1].type].precedence
<1>4. l \in 1..8 /\ ts[1].type \in Levels[l] /\ l >= min
  BY <1>1, <1>3, OperatorTable
<1>5. Len(Tail(ts)) < Len(ts)
  BY <1>3
<1>. HIDE DEF l
<1>. QED BY <1>3, <1>4, <1>5

\* Whatever the loop reads derives, if shorter expressions and loops do.
LEMMA LoopIsSound ==
  ASSUME NEW ts \in Tokens, NEW min \in 0..9,
         \A s \in Tokens : \A k \in 0..9 : Len(s) < Len(ts) => ExpressionSound(s, k) /\ LoopSound(s, k)
  PROVE  LoopSound(ts, min)
<1>1. CASE Blocked(ts, min)
  BY <1>1, LoopStopsSound
<1>2. CASE ~ Blocked(ts, min)
  <2>1. SUFFICES ASSUME NEW p \in Tokens, NEW m \in 1..9, NEW lhs \in Trees(p, m),
                        Blocked(ts, m + 1), Loop(ts, min).ok
                 PROVE  OperatorsDerived(p, lhs, ts, min, Loop(ts, min))
    BY DEF LoopSound
  <2>2. PICK t \in AnyToken, s \in Tokens, l \in 1..8 :
          ts = Cons(t, s) /\ Len(s) < Len(ts) /\ t.type \in Levels[l] /\ l >= min
    <3>1. min \in Nat
      OBVIOUS
    <3>. QED BY <1>2, <3>1, OperatorAhead
  <2>3. ExpressionSound(s, l + 1)
    <3>1. l + 1 \in 0..9
      OBVIOUS
    <3>. QED BY <2>2, <3>1
  <2>. DEFINE r == ParseExpression(s, l + 1).rest
  <2>4. r \in Tokens /\ Len(r) < Len(ts)
    <3>1. l + 1 \in Nat
      OBVIOUS
    <3>2. r \in Tokens /\ Len(r) <= Len(s)
      BY <3>1, ParseEquations
    <3>. HIDE DEF r
    <3>3. Len(r) \in Nat /\ Len(s) \in Nat /\ Len(ts) \in Nat
      BY <3>2, NoLength
    <3>. QED BY <2>2, <3>2, <3>3
  <2>5. LoopSound(r, min)
    <3>. HIDE DEF r
    <3>. QED BY <2>4
  <2>6. lhs \in Trees(p, l)
    <3>1. Peek(ts) = t
      BY <2>2, ConsTokens
    <3>2. t.type \in OperatorSymbols /\ BinaryOpFor[t.type].precedence = l
      BY <2>2, LevelOperators
    <3>3. ~ (l >= m + 1)
      BY <2>1, <3>1, <3>2 DEF Blocked
    <3>4. l \in 1..10 /\ m \in 1..10 /\ l <= m
      BY <3>3
    <3>. QED BY <3>4, LevelsNest
  <2>7. OperatorsDerived(p, lhs, Cons(t, s), min, Loop(Cons(t, s), min))
    BY <2>1, <2>2, <2>3, <2>5, <2>6, LoopOperatorSound
  <2>. QED BY <2>2, <2>7
<1>. QED BY <1>1, <1>2

\* What is read as parenthesised derives.
LEMMA ParenthesisIsSound ==
  ASSUME NEW a \in AnyToken, NEW s \in Tokens, a.type = "(", ExpressionSound(s, 0),
         ParseUnary(ParseGoals, Cons(a, s)).ok
  PROVE  \E p \in Tokens : /\ Cons(a, s) = p \o ParseUnary(ParseGoals, Cons(a, s)).rest
                           /\ ParseUnary(ParseGoals, Cons(a, s)).expr \in Trees(p, 9)
<1>. DEFINE inner == ParseExpression(s, 0)
            read == ParseUnary(ParseGoals, Cons(a, s))
<1>1. read = InParentheses(inner)
  BY UnaryOfParenthesis
<1>2. inner.rest \in Tokens
  BY ParseEquations
<1>3. inner.ok \in BOOLEAN
  BY OkIsBoolean
<1>0. read.ok
  OBVIOUS
<1>. HIDE DEF inner, read
<1>4. read.ok = (inner.ok /\ Peek(inner.rest).type = ")")
  BY <1>1 DEF InParentheses, Parsed
<1>5. inner.ok /\ Peek(inner.rest).type = ")"
  BY <1>0, <1>4
<1>6. read.rest = Advance(inner.rest) /\ read.expr = inner.expr
  BY <1>1, <1>5 DEF InParentheses, Parsed
<1>7. PICK q \in Tokens : s = q \o inner.rest /\ inner.expr \in Trees(q, 1)
  BY <1>5 DEF ExpressionSound, ExpressionDerived, Top, inner
<1>8. inner.rest # <<>>
  BY <1>5, NoTokens
<1>. DEFINE b == inner.rest[1]
            r == Tail(inner.rest)
<1>9. /\ b \in AnyToken /\ r \in Tokens /\ inner.rest = Cons(b, r)
      /\ Peek(inner.rest) = b /\ Advance(inner.rest) = r
  BY <1>2, <1>8, TokensCases
<1>. HIDE DEF b, r
<1>. DEFINE p == Between(a, q, b)
<1>10. p \in Tokens
  BY <1>9, BetweenLength
<1>11. Cons(a, s) = p \o read.rest
  <2>0. b \in AnyToken /\ r \in Tokens
    BY <1>9
  <2>1. p \o r = Cons(a, q \o Cons(b, r))
    BY <2>0, BetweenConcat
  <2>. QED BY <1>6, <1>7, <1>9, <2>1
<1>12. read.expr \in Trees(p, 9)
  <2>1. b.type = ")"
    BY <1>5, <1>9
  <2>2. inner.expr \in Trees(p, 10)
    BY <1>7, <1>9, <2>1, ParenthesesDerive
  <2>3. Trees(p, 10) \subseteq Trees(p, 9)
    BY <1>10, LevelsNest
  <2>. QED BY <1>6, <2>2, <2>3
<1>. HIDE DEF p
<1>. QED BY <1>10, <1>11, <1>12 DEF read

\* What is read behind a prefix operator derives.
LEMMA PrefixIsSound ==
  ASSUME NEW t \in AnyToken, NEW s \in Tokens, t.type \in PrefixSymbols, ExpressionSound(s, 9),
         ParseUnary(ParseGoals, Cons(t, s)).ok
  PROVE  \E p \in Tokens : /\ Cons(t, s) = p \o ParseUnary(ParseGoals, Cons(t, s)).rest
                           /\ ParseUnary(ParseGoals, Cons(t, s)).expr \in Trees(p, 9)
<1>. DEFINE inner == ParseExpression(s, 9)
            read == ParseUnary(ParseGoals, Cons(t, s))
            op == UnaryOpFor[t.type]
<1>1. read = Prefixed(op, inner)
  BY UnaryOfPrefix
<1>2. inner.rest \in Tokens
  BY ParseEquations
<1>0. read.ok
  OBVIOUS
<1>. HIDE DEF inner, op, read
<1>3. inner.ok /\ read.rest = inner.rest /\ read.expr = Unary(op, inner.expr)
  BY <1>0, <1>1 DEF Prefixed, Parsed
<1>4. PICK q \in Tokens : s = q \o inner.rest /\ inner.expr \in Trees(q, 9)
  BY <1>3 DEF ExpressionSound, ExpressionDerived, Top, inner
<1>. DEFINE p == Cons(t, q)
<1>5. p \in Tokens
  BY ConsTokens
<1>6. Cons(t, s) = p \o read.rest
  <2>. DEFINE r == inner.rest
  <2>. HIDE DEF r
  <2>1. r \in Tokens
    BY <1>2 DEF r
  <2>2. Cons(t, q) \o r = Cons(t, q \o r)
    BY <2>1, ConsConcat
  <2>. QED BY <1>3, <1>4, <2>2 DEF r
<1>7. read.expr \in Trees(p, 9)
  BY <1>3, <1>4, PrefixDerives DEF op
<1>. HIDE DEF p
<1>. QED BY <1>5, <1>6, <1>7 DEF read

\* What is read as a literal derives.
LEMMA LiteralIsSound ==
  ASSUME NEW t \in AnyToken, NEW s \in Tokens, t.type \in LiteralTypes,
         ParseUnary(ParseGoals, Cons(t, s)).ok
  PROVE  \E p \in Tokens : /\ Cons(t, s) = p \o ParseUnary(ParseGoals, Cons(t, s)).rest
                           /\ ParseUnary(ParseGoals, Cons(t, s)).expr \in Trees(p, 9)
<1>. DEFINE p == Cons(t, <<>>)
            read == ParseUnary(ParseGoals, Cons(t, s))
<1>1. read.rest = s /\ read.expr \in LiteralTrees(t)
  BY UnaryOfLiteral
<1>2. p \in Tokens
  BY NoTokens, ConsTokens
<1>3. p \o s = Cons(t, s)
  <2>1. p \o s = Cons(t, <<>> \o s)
    BY NoTokens, ConsConcat
  <2>2. <<>> \o s = s
    BY TokensConcat
  <2>. QED BY <2>1, <2>2
<1>4. read.expr \in Trees(p, 9)
  <2>1. Trees(p, 10) = LiteralTrees(t)
    BY LiteralDerives
  <2>2. Trees(p, 10) \subseteq Trees(p, 9)
    BY <1>2, LevelsNest
  <2>. QED BY <1>1, <2>1, <2>2
<1>. HIDE DEF p, read
<1>5. Cons(t, s) = p \o read.rest
  BY <1>1, <1>3
<1>6. \E x \in Tokens : Cons(t, s) = x \o read.rest /\ read.expr \in Trees(x, 9)
  BY <1>2, <1>4, <1>5
<1>. QED BY <1>6 DEF read

\* What parseUnary reads derives.
LEMMA UnaryIsSound ==
  ASSUME NEW ts \in Tokens,
         \A s \in Tokens : \A k \in 0..9 : Len(s) < Len(ts) => ExpressionSound(s, k)
  PROVE  UnarySound(ts)
<1>1. CASE ts = <<>> \/ ts[1].type \notin PrefixSymbols \union LiteralTypes \union {"("}
  BY <1>1, UnaryOfOther DEF UnarySound
<1>2. CASE ts # <<>> /\ ts[1].type \in PrefixSymbols \union LiteralTypes \union {"("}
  <2>. DEFINE t == ts[1]
              s == Tail(ts)
  <2>1. t \in AnyToken /\ s \in Tokens /\ ts = Cons(t, s) /\ Len(s) < Len(ts)
    <3>1. t \in AnyToken /\ s \in Tokens /\ ts = Cons(t, s) /\ Len(s) = Len(ts) - 1
          /\ Len(ts) \in Nat
      BY <1>2, TokensCases
    <3>. QED BY <3>1
  <2>2. t.type \in PrefixSymbols \/ t.type \in LiteralTypes \/ t.type = "("
    BY <1>2
  <2>. HIDE DEF t, s
  <2>3. ExpressionSound(s, 0) /\ ExpressionSound(s, 9)
    BY <2>1
  <2>4. ASSUME ParseUnary(ParseGoals, Cons(t, s)).ok
        PROVE  \E p \in Tokens : /\ Cons(t, s) = p \o ParseUnary(ParseGoals, Cons(t, s)).rest
                                 /\ ParseUnary(ParseGoals, Cons(t, s)).expr \in Trees(p, 9)
    <3>1. CASE t.type \in PrefixSymbols
      BY <2>1, <2>3, <2>4, <3>1, PrefixIsSound
    <3>2. CASE t.type \in LiteralTypes
      BY <2>1, <2>4, <3>2, LiteralIsSound
    <3>3. CASE t.type = "("
      BY <2>1, <2>3, <2>4, <3>3, ParenthesisIsSound
    <3>. QED BY <2>2, <3>1, <3>2, <3>3
  <2>. QED BY <2>1, <2>4 DEF UnarySound
<1>. QED BY <1>1, <1>2

\* What parseExpression reads derives, if the loop is sound.
LEMMA ExpressionIsSound ==
  ASSUME NEW ts \in Tokens, NEW min \in 0..9, UnarySound(ts), LoopSound(ts, min),
         \A s \in Tokens : Len(s) < Len(ts) => LoopSound(s, min)
  PROVE  ExpressionSound(ts, min)
<1>. DEFINE lhs == ParseUnary(ParseGoals, ts)
            chain == Loop(lhs.rest, min)
            read == ParseExpression(ts, min)
<1>1. SUFFICES ASSUME read.ok PROVE ExpressionDerived(ts, min, read)
  BY DEF ExpressionSound
<1>2. read = Parsed(Grouped(lhs.expr, chain.operands), chain.rest, lhs.ok /\ chain.ok)
  <2>1. min \in Nat
    OBVIOUS
  <2>. QED BY <2>1, ExpressionRead
<1>3. lhs.rest \in Tokens /\ Len(lhs.rest) <= Len(ts)
  BY UnaryReadsOn
<1>4. lhs.ok => \E p \in Tokens : ts = p \o lhs.rest /\ lhs.expr \in Trees(p, 9)
  BY DEF UnarySound
<1>5. chain.rest \in Tokens
  <2>1. min \in Nat
    OBVIOUS
  <2>. HIDE DEF lhs
  <2>. QED BY <1>3, <2>1, ParseEquations
<1>6. LoopSound(lhs.rest, min)
  <2>1. Len(lhs.rest) < Len(ts) \/ lhs.rest = ts \/ ~ lhs.ok
    <3>1. SUFFICES ASSUME lhs.ok PROVE Len(lhs.rest) < Len(ts)
      OBVIOUS
    <3>2. PICK p \in Tokens : ts = p \o lhs.rest /\ lhs.expr \in Trees(p, 9)
      BY <1>4, <3>1
    <3>. HIDE DEF lhs
    <3>3. Len(ts) = Len(p) + Len(lhs.rest) /\ Len(p) \in Nat /\ Len(lhs.rest) \in Nat
      BY <1>3, <3>2, TokensConcat
    <3>4. Len(p) # 0
      BY <3>2, NoLength, NothingDerived
    <3>. QED BY <3>3, <3>4
  <2>2. lhs.ok
    <3>. HIDE DEF lhs, chain, read
    <3>. QED BY <1>1, <1>2 DEF Parsed
  <2>. HIDE DEF lhs
  <2>. QED BY <1>3, <2>1, <2>2
<1>7. lhs.ok /\ chain.ok /\ read.rest = chain.rest /\ read.expr = Grouped(lhs.expr, chain.operands)
  <2>1. \A a, b, c : Parsed(a, b, c).expr = a /\ Parsed(a, b, c).rest = b /\ Parsed(a, b, c).ok = c
    BY DEF Parsed
  <2>. HIDE DEF lhs, chain, read
  <2>2. read.ok = (lhs.ok /\ chain.ok)
    BY <1>2, <2>1
  <2>3. lhs.ok /\ chain.ok
    BY <1>1, <2>2
  <2>4. read.rest = chain.rest /\ read.expr = Grouped(lhs.expr, chain.operands)
    BY <1>2, <2>1
  <2>. QED BY <2>3, <2>4
<1>8. PICK p \in Tokens : ts = p \o lhs.rest /\ lhs.expr \in Trees(p, 9)
  BY <1>4, <1>7
<1>. HIDE DEF lhs, read
<1>9. OperatorsDerived(p, lhs.expr, lhs.rest, min, chain)
  <2>1. 9 \in 1..9 /\ min <= 9
    OBVIOUS
  <2>2. Blocked(lhs.rest, 9 + 1)
    BY <1>3, BlockedAbove
  <2>. QED BY <1>6, <1>7, <1>8, <2>1, <2>2 DEF LoopSound
<1>. HIDE DEF chain
<1>10. PICK q \in Tokens :
         /\ lhs.rest = q \o chain.rest
         /\ Grouped(lhs.expr, chain.operands) \in Trees(p \o q, Top(min))
         /\ Blocked(chain.rest, min)
  BY <1>9 DEF OperatorsDerived
<1>11. p \o q \in Tokens
  BY TokensConcat
<1>12. ts = (p \o q) \o read.rest
  <2>1. (p \o q) \o chain.rest = p \o (q \o chain.rest)
    BY <1>5, ConcatThrice
  <2>. QED BY <1>7, <1>8, <1>10, <2>1
<1>13. read.expr \in Trees(p \o q, Top(min)) /\ Blocked(read.rest, min)
  BY <1>7, <1>10
<1>. QED BY <1>11, <1>12, <1>13 DEF ExpressionDerived

\* What the parser accepts as an expression, the grammar derives.
LEMMA ParserDerivesTrees ==
  \A ts \in Tokens : \A min \in 0..9 : ExpressionSound(ts, min)
<1>. DEFINE S == { n \in Nat : \A ts \in Tokens : Len(ts) = n =>
                     \A min \in 0..9 : ExpressionSound(ts, min) /\ LoopSound(ts, min) }
<1>1. ASSUME NEW n \in Nat, \A m \in Nat : m < n => m \in S PROVE n \in S
  <2>1. SUFFICES ASSUME NEW ts \in Tokens, Len(ts) = n, NEW min \in 0..9
                 PROVE  ExpressionSound(ts, min) /\ LoopSound(ts, min)
    OBVIOUS
  <2>2. \A s \in Tokens : \A k \in 0..9 :
          Len(s) < Len(ts) => ExpressionSound(s, k) /\ LoopSound(s, k)
    BY <1>1, <2>1, NoLength
  <2>3. LoopSound(ts, min)
    BY <2>2, LoopIsSound
  <2>4. UnarySound(ts)
    BY <2>2, UnaryIsSound
  <2>5. ExpressionSound(ts, min)
    BY <2>2, <2>3, <2>4, ExpressionIsSound
  <2>. QED BY <2>3, <2>5
<1>2. Nat \subseteq S
  <2>. HIDE DEF S
  <2>. QED BY <1>1, Deriving!CompleteInduction
<1>. QED BY <1>2, NoLength

-----------------------------------------------------------------------------
(* Statements.                                                              *)

\* Looking ahead, past the head of a sequence and past its end.
LEMMA PeekAtInside ==
  ASSUME NEW ts \in Tokens, NEW i \in Nat \ {0}, PeekAt(ts, i).type # "Eof"
  PROVE  i \in 1..Len(ts) /\ PeekAt(ts, i) = ts[i]
<1>1. DOMAIN ts = 1..Len(ts)
  BY LenProperties DEF Tokens
<1>2. CASE i \in DOMAIN ts
  BY <1>1, <1>2 DEF PeekAt
<1>3. CASE i \notin DOMAIN ts
  BY <1>3 DEF PeekAt, Lexeme, Token
<1>. QED BY <1>2, <1>3

\* Looking ahead within the first part.
LEMMA PeekAtConcat ==
  ASSUME NEW a \in Tokens, NEW b \in Tokens, NEW i \in 1..Len(a)
  PROVE  PeekAt(a \o b, i) = a[i]
<1>. DEFINE ts == a \o b
<1>1. /\ ts \in Tokens /\ Len(ts) = Len(a) + Len(b) /\ Len(a) \in Nat /\ Len(b) \in Nat
      /\ \A k \in 1..Len(a) + Len(b) : ts[k] = IF k <= Len(a) THEN a[k] ELSE b[k - Len(a)]
  BY ConcatProperties, LenProperties DEF Tokens
<1>. HIDE DEF ts
<1>2. DOMAIN ts = 1..Len(ts)
  BY <1>1, LenProperties DEF Tokens
<1>3. i \in 1..Len(a) + Len(b) /\ i <= Len(a)
  BY <1>1
<1>4. ts[i] = a[i]
  BY <1>1, <1>3
<1>5. PeekAt(ts, i) = ts[i]
  BY <1>1, <1>2, <1>3 DEF PeekAt
<1>. QED BY <1>4, <1>5 DEF ts

\* The next token of a concatenation.
LEMMA PeekConcat ==
  ASSUME NEW a \in Tokens, NEW b \in Tokens
  PROVE  Peek(a \o b) = IF a = <<>> THEN Peek(b) ELSE Peek(a)
<1>1. CASE a = <<>>
  BY <1>1, TokensConcat
<1>2. CASE a # <<>>
  <2>1. 1 \in 1..Len(a) /\ Peek(a) = a[1]
    BY <1>2, TokensCases
  <2>. QED BY <1>2, <2>1, PeekAtConcat DEF Peek
<1>. QED BY <1>1, <1>2

\* The tokens up to a position and those behind it.
LEMMA FromProperties ==
  ASSUME NEW ts \in Tokens, NEW i \in 1..Len(ts), NEW j, j = i + 1
  PROVE  /\ From(ts, j) \in Tokens /\ Len(From(ts, j)) = Len(ts) - i
         /\ Part(ts, 1, i) \in Tokens /\ Len(Part(ts, 1, i)) = i
         /\ ts = Part(ts, 1, i) \o From(ts, j)
<1>1. i \in 0..Len(ts)
  BY NoLength
<1>2. From(ts, i + 1) = Part(ts, i + 1, Len(ts))
  BY DEF From, Part
<1>. QED BY <1>1, <1>2, PartsJoin

\* The tokens behind the first part.
LEMMA FromConcat ==
  ASSUME NEW a \in Tokens, NEW b \in Tokens, NEW i \in Nat, i = Len(a) + 1
  PROVE  From(a \o b, i) = b
<1>1. Part(a \o b, Len(a) + 1, Len(a \o b)) = b
  BY PartsOfJoin
<1>. QED BY <1>1 DEF From, Part

PlainSorts == {"Bool", "Int", "Real", "String"}

\* A type the grammar has, before anything.
LEMMA TypeReads ==
  ASSUME NEW s \in Tokens, NEW sort \in SortsNamed(s), NEW r \in Tokens
  PROVE  ParseType(s \o r) = TypeRead(sort, r, TRUE)
<1>. DEFINE ts == s \o r
<1>0. ts \in Tokens
  BY TokensConcat
<1>1. CASE Len(s) = 1 /\ s[1].type \in PlainSorts
  <2>1. PeekAt(ts, 1) = s[1]
    <3>1. 1 \in 1..Len(s)
      BY <1>1
    <3>. QED BY <3>1, PeekAtConcat
  <2>2. From(ts, 2) = r
    <3>1. 2 \in Nat /\ 2 = Len(s) + 1
      BY <1>1
    <3>. QED BY <3>1, FromConcat
  <2>3. sort = Sort(s[1].type, 0)
    BY <1>1 DEF SortsNamed, PlainSorts
  <2>. HIDE DEF ts
  <2>4. ParseType(ts) = TypeRead(Sort(PeekAt(ts, 1).type, 0), From(ts, 2), TRUE)
    BY <1>1, <2>1 DEF ParseType, PlainSorts
  <2>. QED BY <2>1, <2>2, <2>3, <2>4 DEF ts
<1>2. CASE ~ (Len(s) = 1 /\ s[1].type \in PlainSorts)
  <2>1. /\ Len(s) = 4
        /\ s[1].type = "BitVec" /\ s[2].type = "("
        /\ s[3].type = "IntLiteral" /\ NumberOf(s[3].text) \in 1..WordBits
        /\ s[4].type = ")"
        /\ sort = BitVecSort(NumberOf(s[3].text))
    BY <1>2 DEF SortsNamed, PlainSorts
  <2>2. PeekAt(ts, 1) = s[1] /\ PeekAt(ts, 2) = s[2] /\ PeekAt(ts, 3) = s[3] /\ PeekAt(ts, 4) = s[4]
    <3>1. 1 \in 1..Len(s) /\ 2 \in 1..Len(s) /\ 3 \in 1..Len(s) /\ 4 \in 1..Len(s)
      BY <2>1
    <3>. QED BY <3>1, PeekAtConcat
  <2>3. From(ts, 5) = r
    <3>1. 5 \in Nat /\ 5 = Len(s) + 1
      BY <2>1
    <3>. QED BY <3>1, FromConcat
  <2>. HIDE DEF ts
  <2>4. ParseType(ts) = TypeRead(BitVecSort(NumberOf(PeekAt(ts, 3).text)), From(ts, 5), TRUE)
    BY <2>1, <2>2 DEF ParseType
  <2>. QED BY <2>1, <2>2, <2>3, <2>4 DEF ts
<1>. QED BY <1>1, <1>2

\* A type the parser accepts is one the grammar has.
LEMMA TypeDerived ==
  ASSUME NEW ts \in Tokens, ParseType(ts).ok
  PROVE  /\ ParseType(ts).rest \in Tokens
         /\ \E s \in Tokens :
              s # <<>> /\ ts = s \o ParseType(ts).rest /\ ParseType(ts).sort \in SortsNamed(s)
<1>. DEFINE type == ParseType(ts)
<1>1. CASE PeekAt(ts, 1).type \in PlainSorts
  <2>1. type = TypeRead(Sort(PeekAt(ts, 1).type, 0), From(ts, 2), TRUE)
    BY <1>1 DEF ParseType, PlainSorts
  <2>2. 1 \in 1..Len(ts) /\ PeekAt(ts, 1) = ts[1]
    BY <1>1, PeekAtInside DEF PlainSorts
  <2>. DEFINE s == Part(ts, 1, 1)
  <2>3. s \in Tokens /\ Len(s) = 1 /\ ts = s \o From(ts, 2) /\ From(ts, 2) \in Tokens
    <3>1. 2 = 1 + 1
      OBVIOUS
    <3>2. ts \in Tokens /\ 1 \in 1..Len(ts)
      BY <2>2
    <3>. QED BY ONLY <3>1, <3>2, FromProperties
  <2>. HIDE DEF s
  <2>4. PeekAt(ts, 1) = s[1]
    <3>1. 1 \in 1..Len(s)
      BY <2>3
    <3>2. PeekAt(s \o From(ts, 2), 1) = s[1]
      BY <2>3, <3>1, PeekAtConcat
    <3>. QED BY <2>3, <3>2
  <2>5. Sort(PeekAt(ts, 1).type, 0) \in SortsNamed(s)
    BY <1>1, <2>3, <2>4 DEF SortsNamed, PlainSorts
  <2>6. type.sort = Sort(PeekAt(ts, 1).type, 0) /\ type.rest = From(ts, 2)
    BY <2>1 DEF TypeRead
  <2>7. s # <<>>
    <3>1. Len(s) # 0
      BY <2>3
    <3>. QED BY <3>1, LongerThanNothing
  <2>. HIDE DEF type
  <2>8. type.rest \in Tokens /\ s # <<>> /\ ts = s \o type.rest /\ type.sort \in SortsNamed(s)
    BY <2>3, <2>5, <2>6, <2>7
  <2>. QED BY <2>3, <2>8 DEF type
<1>2. CASE PeekAt(ts, 1).type \notin PlainSorts
  <2>. DEFINE width == NumberOf(PeekAt(ts, 3).text)
  <2>1. /\ PeekAt(ts, 1).type = "BitVec" /\ PeekAt(ts, 2).type = "("
        /\ PeekAt(ts, 3).type = "IntLiteral" /\ width \in 1..WordBits
        /\ PeekAt(ts, 4).type = ")"
    BY <1>2 DEF ParseType, TypeRead, PlainSorts
  <2>2. type = TypeRead(BitVecSort(width), From(ts, 5), TRUE)
    BY <1>2, <2>1 DEF ParseType, PlainSorts
  <2>3. 4 \in 1..Len(ts)
    BY <2>1, PeekAtInside
  <2>. DEFINE s == Part(ts, 1, 4)
  <2>4. s \in Tokens /\ Len(s) = 4 /\ ts = s \o From(ts, 5) /\ From(ts, 5) \in Tokens
    <3>1. 5 = 4 + 1
      OBVIOUS
    <3>2. ts \in Tokens /\ 4 \in 1..Len(ts)
      BY <2>3
    <3>. QED BY ONLY <3>1, <3>2, FromProperties
  <2>. HIDE DEF s
  <2>5. PeekAt(ts, 1) = s[1] /\ PeekAt(ts, 2) = s[2] /\ PeekAt(ts, 3) = s[3] /\ PeekAt(ts, 4) = s[4]
    <3>1. 1 \in 1..Len(s) /\ 2 \in 1..Len(s) /\ 3 \in 1..Len(s) /\ 4 \in 1..Len(s)
      BY <2>4
    <3>. DEFINE x == s \o From(ts, 5)
    <3>2. PeekAt(x, 1) = s[1] /\ PeekAt(x, 2) = s[2] /\ PeekAt(x, 3) = s[3] /\ PeekAt(x, 4) = s[4]
      BY <2>4, <3>1, PeekAtConcat
    <3>. QED BY <2>4, <3>2
  <2>6. BitVecSort(width) \in SortsNamed(s)
    BY <2>1, <2>4, <2>5 DEF SortsNamed
  <2>7. type.sort = BitVecSort(width) /\ type.rest = From(ts, 5)
    BY <2>2 DEF TypeRead
  <2>8. s # <<>>
    <3>1. Len(s) # 0
      BY <2>4
    <3>. QED BY <3>1, LongerThanNothing
  <2>. HIDE DEF type
  <2>9. type.rest \in Tokens /\ s # <<>> /\ ts = s \o type.rest /\ type.sort \in SortsNamed(s)
    BY <2>4, <2>6, <2>7, <2>8
  <2>. QED BY <2>4, <2>9 DEF type
<1>. QED BY <1>1, <1>2

\* The declaration of a variable of this sort, as a program.
Declares(name, sort) == Text(<< [name |-> name, sort |-> sort] >>, <<>>)

IsVarDecl(p) ==
  Len(p) > 3 /\ p[1].type = "var" /\ p[2].type = "Identifier" /\ p[3].type = ":"

\* A derived statement is a constraint or a declaration.
LEMMA StatementCases ==
  ASSUME NEW p \in Tokens, p # <<>>, NEW e
  PROVE  e \in Statements(p) <=>
           \/ p[1].type = "constraint" /\ \E x \in Trees(Tail(p), 1) : e = Text(<<>>, <<x>>)
           \/ /\ IsVarDecl(p)
              /\ \E sort \in SortsNamed(Part(p, 4, Len(p))) : e = Declares(p[2].text, sort)
<1>1. CASE p[1].type = "constraint"
  <2>1. e \in Statements(p) <=> \E x \in Trees(Tail(p), 1) : e = Text(<<>>, <<x>>)
    BY <1>1 DEF Statements
  <2>2. ~ IsVarDecl(p)
    BY <1>1 DEF IsVarDecl
  <2>. QED BY <1>1, <2>1, <2>2
<1>2. CASE p[1].type # "constraint" /\ IsVarDecl(p)
  <2>1. p[1].type = "var" /\ Len(p) > 3 /\ p[2].type = "Identifier" /\ p[3].type = ":"
    BY <1>2 DEF IsVarDecl
  <2>2. Statements(p) = { Text(<<[name |-> p[2].text, sort |-> sort]>>, <<>>) :
                            sort \in SortsNamed(Part(p, 4, Len(p))) }
    BY <1>2, <2>1 DEF Statements
  <2>3. e \in Statements(p) <=> \E sort \in SortsNamed(Part(p, 4, Len(p))) :
          e = Declares(p[2].text, sort)
    BY <2>2 DEF Declares
  <2>. QED BY <1>2, <2>3
<1>3. CASE p[1].type # "constraint" /\ ~ IsVarDecl(p)
  <2>1. Statements(p) = {}
    BY <1>3 DEF Statements, IsVarDecl
  <2>. QED BY <1>3, <2>1
<1>. QED BY <1>1, <1>2, <1>3

\* A declaration the grammar has, before anything.
LEMMA DeclarationReads ==
  ASSUME NEW p \in Tokens, IsVarDecl(p), NEW sort \in SortsNamed(Part(p, 4, Len(p))),
         NEW r \in Tokens
  PROVE  ParseStatement(p \o r) =
           StatementRead(<< [name |-> p[2].text, sort |-> sort] >>, <<>>, r, TRUE)
<1>. DEFINE ts == p \o r
            a == Part(p, 1, 3)
            s == Part(p, 4, Len(p))
<1>1. 3 \in 0..Len(p) /\ 3 + 1 = 4
  BY NoLength DEF IsVarDecl
<1>2. a \in Tokens /\ Len(a) = 3 /\ s \in Tokens /\ p = a \o s
  BY <1>1, PartsJoin
<1>3. PeekAt(ts, 1) = p[1] /\ PeekAt(ts, 2) = p[2] /\ PeekAt(ts, 3) = p[3]
  <2>1. 1 \in 1..Len(p) /\ 2 \in 1..Len(p) /\ 3 \in 1..Len(p)
    BY <1>1
  <2>. QED BY <2>1, PeekAtConcat
<1>. HIDE DEF a, s
<1>4. From(ts, 4) = s \o r
  <2>1. ts = a \o (s \o r)
    BY <1>2, ConcatThrice
  <2>2. s \o r \in Tokens
    BY <1>2, TokensConcat
  <2>3. 4 \in Nat /\ 4 = Len(a) + 1
    BY <1>2
  <2>4. From(a \o (s \o r), 4) = s \o r
    BY <1>2, <2>2, <2>3, FromConcat
  <2>. QED BY <2>1, <2>4
<1>5. ParseType(From(ts, 4)) = TypeRead(sort, r, TRUE)
  <2>1. s \in Tokens /\ r \in Tokens /\ sort \in SortsNamed(s)
    BY <1>2 DEF s
  <2>2. ParseType(s \o r) = TypeRead(sort, r, TRUE)
    BY <2>1, TypeReads
  <2>. QED BY <1>4, <2>2
<1>. HIDE DEF ts
<1>6. ParseVarDecl(ts) = StatementRead(<< [name |-> p[2].text, sort |-> sort] >>, <<>>, r, TRUE)
  <2>1. ParseType(From(ts, 4)).ok = TRUE /\ ParseType(From(ts, 4)).rest = r
        /\ ParseType(From(ts, 4)).sort = sort
    BY <1>5 DEF TypeRead
  <2>. QED BY <1>3, <2>1 DEF ParseVarDecl, IsVarDecl
<1>7. ParseStatement(ts) = ParseVarDecl(ts)
  BY <1>3 DEF ParseStatement, Peek, IsVarDecl
<1>. QED BY <1>6, <1>7 DEF ts

\* A derived constraint is read as it derives, where no operator follows.
LEMMA ConstraintReads ==
  ASSUME NEW t \in AnyToken, NEW q \in Tokens, t.type = "constraint", NEW e \in Trees(q, 1),
         NEW r \in Tokens, Blocked(r, 0)
  PROVE  ParseStatement(Cons(t, q) \o r) = StatementRead(<<>>, <<e>>, r, TRUE)
<1>. DEFINE ts == Cons(t, q \o r)
<1>1. Cons(t, q) \o r = ts
  BY ConsConcat
<1>2. Peek(ts) = t /\ Advance(ts) = q \o r
  <2>1. q \o r \in Tokens
    BY TokensConcat
  <2>. QED BY <2>1, ConsTokens
<1>3. ParseExpression(q \o r, 0) = Parsed(e, r, TRUE)
  <2>1. 1 \in 1..9 /\ 0 \in 0..1 /\ ReadsBack(q, 1)
    BY ParserReadsTrees
  <2>. QED BY <2>1, ReadsAlone
<1>. HIDE DEF ts
<1>4. ParseStatement(ts) = ParseConstraintDecl(ts)
  BY <1>2 DEF ParseStatement
<1>5. ParseConstraintDecl(ts) = StatementRead(<<>>, <<e>>, r, TRUE)
  <2>. DEFINE read == ParseExpression(Advance(ts), 0)
  <2>1. read = Parsed(e, r, TRUE)
    BY <1>2, <1>3
  <2>2. ParseConstraintDecl(ts) = StatementRead(<<>>, << read.expr >>, read.rest, read.ok)
    BY DEF ParseConstraintDecl
  <2>. HIDE DEF read
  <2>3. read.expr = e /\ read.rest = r /\ read.ok = TRUE
    BY <2>1 DEF Parsed
  <2>. QED BY <2>2, <2>3
<1>. QED BY <1>1, <1>4, <1>5

\* A statement the grammar has; after a constraint no operator may come next.
LEMMA StatementReads ==
  ASSUME NEW p \in Tokens, p # <<>>, NEW e \in Statements(p), NEW r \in Tokens,
         p[1].type = "constraint" => Blocked(r, 0)
  PROVE  /\ p[1].type \in StatementKeywords
         /\ ParseStatement(p \o r) = StatementRead(e.variables, e.constraints, r, TRUE)
         /\ e = Text(e.variables, e.constraints)
<1>1. CASE p[1].type = "constraint" /\ \E x \in Trees(Tail(p), 1) : e = Text(<<>>, <<x>>)
  <2>1. PICK x \in Trees(Tail(p), 1) : e = Text(<<>>, <<x>>)
    BY <1>1
  <2>2. e.variables = <<>> /\ e.constraints = <<x>> /\ e = Text(e.variables, e.constraints)
    BY <2>1 DEF Text
  <2>3. p[1] \in AnyToken /\ Tail(p) \in Tokens /\ p = Cons(p[1], Tail(p))
    BY TokensCases
  <2>4. ParseStatement(Cons(p[1], Tail(p)) \o r) = StatementRead(<<>>, <<x>>, r, TRUE)
    BY <1>1, <2>3, ConstraintReads
  <2>5. p[1].type \in StatementKeywords
    BY <1>1 DEF StatementKeywords
  <2>6. ParseStatement(p \o r) = StatementRead(e.variables, e.constraints, r, TRUE)
    BY <2>2, <2>3, <2>4
  <2>. QED BY <2>2, <2>5, <2>6
<1>2. CASE IsVarDecl(p) /\ \E sort \in SortsNamed(Part(p, 4, Len(p))) : e = Declares(p[2].text, sort)
  <2>1. PICK sort \in SortsNamed(Part(p, 4, Len(p))) : e = Declares(p[2].text, sort)
    BY <1>2
  <2>2. /\ e.variables = << [name |-> p[2].text, sort |-> sort] >> /\ e.constraints = <<>>
        /\ e = Text(e.variables, e.constraints)
    BY <2>1 DEF Declares, Text
  <2>3. p[1].type \in StatementKeywords
    BY <1>2 DEF IsVarDecl, StatementKeywords
  <2>. QED BY <1>2, <2>2, <2>3, DeclarationReads
<1>. QED BY <1>1, <1>2, StatementCases

-----------------------------------------------------------------------------
(* Recovery.                                                                *)

Skipping(p, skip, s) ==
  IF Peek(s).type \in StatementKeywords \union {"Eof"} THEN s ELSE skip[Tail(s)]
Shortens(p, s, v) == v \in Tokens /\ Len(v) <= Len(s)

LOCAL Recovering == INSTANCE Recursion
  WITH Domain <- Tokens, Height <- Len, Step <- Skipping, Fits <- Shortens

\* synchronize() goes on past a token that is no keyword, and stops at one.
LEMMA SynchronizeEquation ==
  ASSUME NEW ts \in Tokens
  PROVE  /\ Synchronize(ts) \in Tokens /\ Len(Synchronize(ts)) <= Len(ts)
         /\ Synchronize(ts) =
              IF Peek(ts).type \in StatementKeywords \union {"Eof"} THEN ts ELSE Synchronize(Tail(ts))
<1>1. Recovering!HasHeights
  BY NoLength DEF Recovering!HasHeights
<1>2. Recovering!LooksBelow({})
  <2>1. SUFFICES ASSUME NEW f, NEW g, NEW s \in Tokens,
                        \A d \in Tokens : Len(d) < Len(s) => Shortens({}, d, f[d]) /\ f[d] = g[d]
                 PROVE  Skipping({}, f, s) = Skipping({}, g, s) /\ Shortens({}, s, Skipping({}, f, s))
    BY DEF Recovering!LooksBelow, Recovering!FitsBelow
  <2>2. CASE Peek(s).type \in StatementKeywords \union {"Eof"}
    BY <2>2, NoLength DEF Skipping, Shortens
  <2>3. CASE Peek(s).type \notin StatementKeywords \union {"Eof"}
    <3>1. s # <<>>
      BY <2>3, NoTokens
    <3>. DEFINE d == Tail(s)
    <3>2. d \in Tokens /\ Len(d) = Len(s) - 1 /\ Len(s) \in Nat
      BY <3>1, TokensCases
    <3>3. Skipping({}, f, s) = f[d] /\ Skipping({}, g, s) = g[d]
      BY <2>3 DEF Skipping
    <3>. HIDE DEF d
    <3>4. Len(d) < Len(s)
      BY <3>2
    <3>5. f[d] \in Tokens /\ Len(f[d]) <= Len(d) /\ f[d] = g[d]
      BY <2>1, <3>2, <3>4 DEF Shortens
    <3>6. Len(f[d]) \in Nat /\ Len(f[d]) <= Len(s)
      BY <3>2, <3>5, NoLength
    <3>. QED BY <3>3, <3>5, <3>6 DEF Shortens
  <2>. QED BY <2>2, <2>3
<1>. DEFINE F == Recovering!Solution({})
<1>3. F = [s \in Tokens |-> Skipping({}, F, s)] /\ \A s \in Tokens : Shortens({}, s, F[s])
  BY <1>1, <1>2, Recovering!RecursionSolved
<1>4. \A s : Synchronize(s) = F[s]
  BY DEF Synchronize, Recovering!Solution, Skipping, Tokens
<1>. HIDE DEF F
<1>5. F[ts] = Skipping({}, F, ts)
  BY <1>3
<1>6. Shortens({}, ts, F[ts])
  BY <1>3
<1>7. Synchronize(ts) = Skipping({}, F, ts)
  BY <1>4, <1>5
<1>. QED BY <1>4, <1>6, <1>7 DEF Skipping, Shortens

\* A statement the parser accepts is one the grammar has.
LEMMA DeclarationDerived ==
  ASSUME NEW ts \in Tokens, Peek(ts).type = "var", ParseStatement(ts).ok
  PROVE  /\ ParseStatement(ts).rest \in Tokens
         /\ \E p \in Tokens :
              /\ p # <<>> /\ p[1].type = "var" /\ ts = p \o ParseStatement(ts).rest
              /\ Text(ParseStatement(ts).variables, ParseStatement(ts).constraints) \in Statements(p)
<1>. DEFINE read == ParseStatement(ts)
            type == ParseType(From(ts, 4))
            name == PeekAt(ts, 2).text
<1>1. read = ParseVarDecl(ts)
  BY DEF ParseStatement
<1>2. PeekAt(ts, 2).type = "Identifier" /\ PeekAt(ts, 3).type = ":" /\ type.ok
  BY <1>1 DEF ParseVarDecl, StatementRead
<1>3. read = StatementRead(<< [name |-> name, sort |-> type.sort] >>, <<>>, type.rest, TRUE)
  BY <1>1, <1>2 DEF ParseVarDecl
<1>4. 3 \in 1..Len(ts)
  BY <1>2, PeekAtInside
<1>. DEFINE a == Part(ts, 1, 3)
<1>5. From(ts, 4) \in Tokens /\ a \in Tokens /\ Len(a) = 3 /\ ts = a \o From(ts, 4)
  <2>1. 4 = 3 + 1
    OBVIOUS
  <2>2. ts \in Tokens /\ 3 \in 1..Len(ts)
    BY <1>4
  <2>. QED BY ONLY <2>1, <2>2, FromProperties
<1>6. PICK s \in Tokens : s # <<>> /\ From(ts, 4) = s \o type.rest /\ type.sort \in SortsNamed(s)
  BY <1>2, <1>5, TypeDerived
<1>7. type.rest \in Tokens
  BY <1>2, <1>5, TypeDerived
<1>. HIDE DEF a, type, read
<1>. DEFINE p == a \o s
<1>8. p \in Tokens /\ Len(p) = 3 + Len(s) /\ Len(s) \in Nat /\ Len(s) # 0
  <2>1. p \in Tokens /\ Len(p) = Len(a) + Len(s) /\ Len(s) \in Nat
    BY <1>5, TokensConcat
  <2>2. Len(s) # 0
    BY <1>6, NoLength
  <2>. QED BY <1>5, <2>1, <2>2
<1>9. ts = p \o type.rest
  <2>1. \A r \in Tokens : (a \o s) \o r = a \o (s \o r)
    BY <1>5, <1>6, ConcatThrice
  <2>2. (a \o s) \o type.rest = a \o (s \o type.rest)
    BY <1>7, <2>1
  <2>. QED BY <1>5, <1>6, <2>2
<1>10. Part(p, 4, Len(p)) = s
  <2>1. Part(a \o s, Len(a) + 1, Len(a \o s)) = s
    BY <1>5, PartsOfJoin
  <2>. QED BY <1>5, <2>1
<1>. HIDE DEF p
<1>11. PeekAt(ts, 1) = p[1] /\ PeekAt(ts, 2) = p[2] /\ PeekAt(ts, 3) = p[3]
  <2>1. 1 \in 1..Len(p) /\ 2 \in 1..Len(p) /\ 3 \in 1..Len(p)
    BY <1>8
  <2>2. /\ PeekAt(p \o type.rest, 1) = p[1] /\ PeekAt(p \o type.rest, 2) = p[2]
        /\ PeekAt(p \o type.rest, 3) = p[3]
    BY <1>7, <1>8, <2>1, PeekAtConcat
  <2>. QED BY <1>9, <2>2
<1>12. IsVarDecl(p)
  <2>1. Len(p) > 3
    BY <1>8
  <2>2. p[1].type = "var"
    BY <1>11 DEF Peek
  <2>. QED BY <1>2, <1>11, <2>1, <2>2 DEF IsVarDecl
<1>13. p # <<>>
  BY <1>8, LongerThanNothing
<1>14. read.variables = << [name |-> p[2].text, sort |-> type.sort] >> /\ read.constraints = <<>>
       /\ read.rest = type.rest
  BY <1>3, <1>11 DEF StatementRead
<1>15. Text(read.variables, read.constraints) = Declares(p[2].text, type.sort)
  BY <1>14 DEF Declares
<1>16. Text(read.variables, read.constraints) \in Statements(p)
  BY <1>6, <1>8, <1>10, <1>12, <1>13, <1>15, StatementCases
<1>17. read.rest \in Tokens /\ p[1].type = "var" /\ ts = p \o read.rest
  BY <1>7, <1>9, <1>12, <1>14 DEF IsVarDecl
<1>18. \E x \in Tokens : /\ x # <<>> /\ x[1].type = "var" /\ ts = x \o read.rest
                         /\ Text(read.variables, read.constraints) \in Statements(x)
  BY <1>8, <1>13, <1>16, <1>17
<1>. QED BY <1>17, <1>18 DEF read

\* A constraint read without an error derives, and no operator follows it.
LEMMA ConstraintDerived ==
  ASSUME NEW ts \in Tokens, Peek(ts).type = "constraint", ParseStatement(ts).ok
  PROVE  /\ ParseStatement(ts).rest \in Tokens
         /\ Blocked(ParseStatement(ts).rest, 0)
         /\ \E p \in Tokens :
              /\ p # <<>> /\ p[1].type = "constraint" /\ ts = p \o ParseStatement(ts).rest
              /\ Text(ParseStatement(ts).variables, ParseStatement(ts).constraints) \in Statements(p)
<1>. DEFINE read == ParseStatement(ts)
            t == ts[1]
            later == Tail(ts)
            expr == ParseExpression(later, 0)
<1>1. ts # <<>>
  BY NoTokens
<1>2. t \in AnyToken /\ later \in Tokens /\ ts = Cons(t, later) /\ Peek(ts) = t /\ Advance(ts) = later
  BY <1>1, TokensCases
<1>. HIDE DEF t, later
<1>3. read = StatementRead(<<>>, << expr.expr >>, expr.rest, expr.ok)
  BY <1>2 DEF ParseStatement, ParseConstraintDecl
<1>0. read.ok
  OBVIOUS
<1>4. expr.rest \in Tokens
  BY <1>2, ParseEquations
<1>5. ExpressionSound(later, 0)
  BY <1>2, ParserDerivesTrees
<1>. HIDE DEF read
<1>6. /\ expr.ok /\ read.rest = expr.rest
      /\ read.variables = <<>> /\ read.constraints = << expr.expr >>
  <2>. HIDE DEF expr
  <2>. QED BY <1>0, <1>3 DEF StatementRead
<1>7. PICK q \in Tokens : later = q \o expr.rest /\ expr.expr \in Trees(q, 1) /\ Blocked(expr.rest, 0)
  BY <1>5, <1>6 DEF ExpressionSound, ExpressionDerived, Top
<1>. HIDE DEF expr
<1>. DEFINE p == Cons(t, q)
<1>8. p \in Tokens /\ p # <<>> /\ p[1] = t /\ Tail(p) = q
  BY <1>2, ConsTokens
<1>9. ts = p \o expr.rest
  <2>1. Cons(t, q) \o expr.rest = Cons(t, q \o expr.rest)
    BY <1>2, <1>4, ConsConcat
  <2>. QED BY <1>2, <1>7, <2>1
<1>. HIDE DEF p
<1>10. Text(read.variables, read.constraints) \in Statements(p)
  <2>1. Text(read.variables, read.constraints) = Text(<<>>, << expr.expr >>)
    BY <1>6
  <2>2. p[1].type = "constraint"
    BY <1>2, <1>8
  <2>. QED BY <1>7, <1>8, <2>1, <2>2, StatementCases
<1>11. p[1].type = "constraint" /\ ts = p \o read.rest /\ read.rest \in Tokens /\ Blocked(read.rest, 0)
  BY <1>2, <1>4, <1>6, <1>7, <1>8, <1>9
<1>12. \E x \in Tokens : /\ x # <<>> /\ x[1].type = "constraint" /\ ts = x \o read.rest
                         /\ Text(read.variables, read.constraints) \in Statements(x)
  BY <1>8, <1>10, <1>11
<1>. QED BY <1>11, <1>12 DEF read

\* What begins with no keyword is an error, and skipped.
LEMMA OtherFails ==
  ASSUME NEW ts \in Tokens, Peek(ts).type \notin StatementKeywords
  PROVE  ParseStatement(ts) = StatementRead(<<>>, <<>>, Synchronize(ts), FALSE)
  BY DEF ParseStatement, StatementKeywords

\* A statement read without an error derives.
LEMMA StatementDerived ==
  ASSUME NEW ts \in Tokens, ParseStatement(ts).ok
  PROVE  /\ ParseStatement(ts).rest \in Tokens
         /\ \E p \in Tokens :
              /\ p # <<>> /\ ts = p \o ParseStatement(ts).rest
              /\ Text(ParseStatement(ts).variables, ParseStatement(ts).constraints) \in Statements(p)
              /\ p[1].type = "constraint" => Blocked(ParseStatement(ts).rest, 0)
<1>1. CASE Peek(ts).type = "var"
  <2>1. ParseStatement(ts).rest \in Tokens
    BY <1>1, DeclarationDerived
  <2>2. PICK p \in Tokens :
              /\ p # <<>> /\ p[1].type = "var" /\ ts = p \o ParseStatement(ts).rest
              /\ Text(ParseStatement(ts).variables, ParseStatement(ts).constraints) \in Statements(p)
    BY <1>1, DeclarationDerived
  <2>3. p[1].type # "constraint"
    BY <2>2
  <2>. QED BY <2>1, <2>2, <2>3
<1>2. CASE Peek(ts).type = "constraint"
  BY <1>2, ConstraintDerived
<1>3. CASE Peek(ts).type \notin StatementKeywords
  <2>1. ParseStatement(ts).ok = FALSE
    BY <1>3, OtherFails DEF StatementRead
  <2>. QED BY <2>1
<1>. QED BY <1>1, <1>2, <1>3 DEF StatementKeywords

\* Whatever it meets, a statement takes at least one token, so that parsing ends.
\* The step of parse() over a token that a statement left (Parser.cpp 89-93) never
\* happens.
THEOREM StatementShortens ==
  ASSUME NEW ts \in Tokens, ts # <<>>
  PROVE  /\ ParseStatement(ts).rest \in Tokens
         /\ Len(ParseStatement(ts).rest) < Len(ts)
         /\ AfterStatement(ts, ParseStatement(ts)) = ParseStatement(ts).rest
<1>. DEFINE rest == ParseStatement(ts).rest
<1>1. /\ Advance(ts) \in Tokens /\ Advance(ts) = Tail(ts) /\ Len(Advance(ts)) < Len(ts)
      /\ Len(Advance(ts)) \in Nat /\ Len(ts) \in Nat
  BY TokensCases, AdvanceShortens
<1>2. rest \in Tokens /\ Len(rest) < Len(ts)
  <2>1. CASE ParseStatement(ts).ok
    <3>1. PICK p \in Tokens : p # <<>> /\ ts = p \o rest
      BY <2>1, StatementDerived
    <3>2. rest \in Tokens
      BY <2>1, StatementDerived
    <3>. HIDE DEF rest
    <3>3. Len(ts) = Len(p) + Len(rest) /\ Len(p) \in Nat /\ Len(rest) \in Nat
      BY <3>1, <3>2, TokensConcat
    <3>4. Len(p) # 0
      BY <3>1, NoLength
    <3>. QED BY <3>2, <3>3, <3>4
  <2>2. CASE ~ ParseStatement(ts).ok /\ Peek(ts).type = "var"
    <3>1. ParseStatement(ts) = ParseVarDecl(ts)
      BY <2>2 DEF ParseStatement
    <3>2. rest = Synchronize(Advance(ts))
      BY <2>2, <3>1 DEF ParseVarDecl, StatementRead
    <3>. HIDE DEF rest
    <3>3. rest \in Tokens /\ Len(rest) <= Len(Advance(ts)) /\ Len(rest) \in Nat
      BY <1>1, <3>2, SynchronizeEquation, NoLength
    <3>. QED BY <1>1, <3>3
  <2>3. CASE Peek(ts).type = "constraint"
    <3>1. rest = ParseExpression(Advance(ts), 0).rest
      BY <2>3 DEF ParseStatement, ParseConstraintDecl, StatementRead
    <3>. HIDE DEF rest
    <3>2. rest \in Tokens /\ Len(rest) <= Len(Advance(ts))
      BY <1>1, <3>1, ParseEquations
    <3>3. Len(rest) \in Nat
      BY <3>2, NoLength
    <3>. QED BY <1>1, <3>2, <3>3
  <2>4. CASE Peek(ts).type \notin StatementKeywords
    <3>1. rest = Synchronize(ts)
      BY <2>4, OtherFails DEF StatementRead
    <3>2. Peek(ts).type # "Eof"
      BY TokensCases DEF AnyToken
    <3>3. rest = Synchronize(Advance(ts))
      BY <1>1, <2>4, <3>1, <3>2, SynchronizeEquation
    <3>. HIDE DEF rest
    <3>4. rest \in Tokens /\ Len(rest) <= Len(Advance(ts)) /\ Len(rest) \in Nat
      BY <1>1, <3>3, SynchronizeEquation, NoLength
    <3>. QED BY <1>1, <3>4
  <2>. QED BY <2>1, <2>2, <2>3, <2>4 DEF StatementKeywords
<1>3. rest # ts
  BY <1>1, <1>2
<1>. QED BY <1>2, <1>3 DEF AfterStatement

-----------------------------------------------------------------------------
(* Programs.                                                                *)

\* What the parser reads of a text: two sequences and whether it reported no
\* error.
IsRead(v) ==
  /\ v = ProgramRead(v.variables, v.constraints, v.ok)
  /\ IsSequence(v.variables) /\ IsSequence(v.constraints) /\ v.ok \in BOOLEAN

ReadingStep(p, program, ts) == ProgramStep(program, ts)
ReadingFits(p, ts, v) == IsRead(v)

LOCAL Reading == INSTANCE Recursion
  WITH Domain <- Tokens, Height <- Len, Step <- ReadingStep, Fits <- ReadingFits

\* A statement gives a sequence of declarations and one of constraints.
LEMMA StatementSequences ==
  ASSUME NEW ts \in Tokens
  PROVE  IsSequence(ParseStatement(ts).variables) /\ IsSequence(ParseStatement(ts).constraints)
<1>1. IsSequence(<<>>) /\ \A x : IsSequence(<<x>>)
  <2>1. ASSUME NEW x PROVE IsSequence(<<x>>)
    <3>1. <<x>> \in Seq({x})
      OBVIOUS
    <3>. QED BY <3>1 DEF IsSequence
  <2>. QED BY <2>1, SequencesJoin
<1>. DEFINE read == ParseStatement(ts)
<1>2. CASE Peek(ts).type = "var"
  <2>1. read.variables = <<>> \/ \E x : read.variables = <<x>>
    BY <1>2 DEF ParseStatement, ParseVarDecl, StatementRead
  <2>2. read.constraints = <<>>
    BY <1>2 DEF ParseStatement, ParseVarDecl, StatementRead
  <2>. HIDE DEF read
  <2>3. IsSequence(read.variables) /\ IsSequence(read.constraints)
    BY <1>1, <2>1, <2>2
  <2>. QED BY <2>3 DEF read
<1>3. CASE Peek(ts).type = "constraint"
  <2>1. read.variables = <<>> /\ \E x : read.constraints = <<x>>
    BY <1>3 DEF ParseStatement, ParseConstraintDecl, StatementRead
  <2>. HIDE DEF read
  <2>2. IsSequence(read.variables) /\ IsSequence(read.constraints)
    BY <1>1, <2>1
  <2>. QED BY <2>2 DEF read
<1>4. CASE Peek(ts).type \notin StatementKeywords
  <2>1. read.variables = <<>> /\ read.constraints = <<>>
    BY <1>4, OtherFails DEF StatementRead
  <2>. QED BY <1>1, <2>1
<1>. QED BY <1>2, <1>3, <1>4 DEF StatementKeywords

\* Joining a statement and a text gives a text.
LEMMA JoinedRead ==
  ASSUME NEW s, IsSequence(s.variables), IsSequence(s.constraints), NEW v, IsRead(v)
  PROVE  IsRead(Joined(s, v))
<1>1. IsSequence(s.variables \o v.variables) /\ IsSequence(s.constraints \o v.constraints)
  BY SequencesJoin DEF IsRead
<1>2. (s.ok /\ v.ok) \in BOOLEAN
  OBVIOUS
<1>. QED BY <1>1, <1>2 DEF IsRead, Joined, ProgramRead

\* The empty text.
LEMMA NothingRead ==
  IsRead(ProgramRead(<<>>, <<>>, TRUE))
BY SequencesJoin DEF IsRead, ProgramRead

\* The parser reads a statement, then the rest of the text.
LEMMA ProgramEquation ==
  ASSUME NEW ts \in Tokens
  PROVE  /\ IsRead(ParseProgram(ts))
         /\ ts = <<>> => ParseProgram(ts) = ProgramRead(<<>>, <<>>, TRUE)
         /\ ts # <<>> =>
              ParseProgram(ts) = Joined(ParseStatement(ts), ParseProgram(ParseStatement(ts).rest))
<1>1. Reading!HasHeights
  BY NoLength DEF Reading!HasHeights
<1>2. Reading!LooksBelow({})
  <2>1. SUFFICES ASSUME NEW f, NEW g, NEW s \in Tokens,
                        \A d \in Tokens : Len(d) < Len(s) => IsRead(f[d]) /\ f[d] = g[d]
                 PROVE  ProgramStep(f, s) = ProgramStep(g, s) /\ IsRead(ProgramStep(f, s))
    BY DEF Reading!LooksBelow, Reading!FitsBelow, ReadingStep, ReadingFits
  <2>2. CASE s = <<>>
    BY <2>2, NothingRead DEF ProgramStep
  <2>3. CASE s # <<>>
    <3>. DEFINE d == AfterStatement(s, ParseStatement(s))
    <3>1. d \in Tokens /\ Len(d) < Len(s)
      BY <2>3, StatementShortens
    <3>2. /\ ProgramStep(f, s) = Joined(ParseStatement(s), f[d])
          /\ ProgramStep(g, s) = Joined(ParseStatement(s), g[d])
      BY <2>3 DEF ProgramStep
    <3>. HIDE DEF d
    <3>3. IsRead(f[d]) /\ f[d] = g[d]
      BY <2>1, <3>1
    <3>4. IsRead(Joined(ParseStatement(s), f[d]))
      BY <3>3, StatementSequences, JoinedRead
    <3>. QED BY <3>2, <3>3, <3>4
  <2>. QED BY <2>2, <2>3
<1>. DEFINE F == Reading!Solution({})
<1>3. F = [s \in Tokens |-> ProgramStep(F, s)] /\ \A s \in Tokens : IsRead(F[s])
  BY <1>1, <1>2, Reading!RecursionSolved DEF ReadingStep, ReadingFits
<1>4. \A s : ParseProgram(s) = F[s]
  BY DEF ParseProgram, Reading!Solution, ReadingStep, Tokens
<1>. HIDE DEF F
<1>5. F[ts] = ProgramStep(F, ts) /\ IsRead(F[ts])
  BY <1>3
<1>6. ts # <<>> => AfterStatement(ts, ParseStatement(ts)) = ParseStatement(ts).rest
  BY StatementShortens
<1>. QED BY <1>4, <1>5, <1>6 DEF ProgramStep

ProgramsStep(p, programs, ts) == ProgramsOf(programs, ts)

LOCAL Composing == INSTANCE Recursion
  WITH Domain <- Tokens, Height <- Len, Step <- ProgramsStep, Fits <- Anything

Compose == Composing!Solution({})

\* The programs of the grammar satisfy their equation.
LEMMA ProgramsRecursion ==
  ASSUME NEW ts \in Tokens
  PROVE  Programs(ts) = ProgramsOf(Compose, ts) /\ Programs(ts) = Compose[ts]
<1>1. Composing!HasHeights
  BY NoLength DEF Composing!HasHeights
<1>2. Composing!LooksBelow({})
  <2>1. SUFFICES ASSUME NEW f, NEW g, NEW s \in Tokens,
                        \A d \in Tokens : Len(d) < Len(s) => f[d] = g[d]
                 PROVE  ProgramsOf(f, s) = ProgramsOf(g, s)
    BY DEF Composing!LooksBelow, Composing!FitsBelow, ProgramsStep, Anything
  <2>2. CASE s = <<>>
    BY <2>2 DEF ProgramsOf
  <2>3. CASE s # <<>>
    <3>1. ASSUME NEW i \in 1..Len(s)
          PROVE  f[Part(s, i + 1, Len(s))] = g[Part(s, i + 1, Len(s))]
      <4>. DEFINE d == Part(s, i + 1, Len(s))
      <4>1. Len(s) \in Nat /\ i \in 0..Len(s)
        BY NoLength
      <4>2. d \in Tokens /\ Len(d) = Len(s) - i
        BY <4>1, PartsJoin
      <4>. HIDE DEF d
      <4>3. Len(d) < Len(s)
        BY <4>1, <4>2
      <4>4. f[d] = g[d]
        BY <2>1, <4>2, <4>3
      <4>. QED BY <4>4 DEF d
    <3>2. \A i \in 1..Len(s) : ProgramsAfter(f, s, i) = ProgramsAfter(g, s, i)
      BY <3>1 DEF ProgramsAfter
    <3>3. { ProgramsAfter(f, s, i) : i \in 1..Len(s) } = { ProgramsAfter(g, s, i) : i \in 1..Len(s) }
      BY <3>2
    <3>. QED BY <2>3, <3>3 DEF ProgramsOf
  <2>. QED BY <2>2, <2>3
<1>3. Compose = [s \in Tokens |-> ProgramsOf(Compose, s)]
  BY <1>1, <1>2, Composing!RecursionSolved DEF Compose, ProgramsStep
<1>4. Programs(ts) = Compose[ts]
  BY DEF Programs, Compose, Composing!Solution, ProgramsStep, Tokens
<1>5. Compose[ts] = ProgramsOf(Compose, ts)
  <2>. HIDE DEF Compose
  <2>. QED BY <1>3
<1>. QED BY <1>4, <1>5

\* A statement s before a program t, as a program.
Before(s, t) == Text(s.variables \o t.variables, s.constraints \o t.constraints)

\* No tokens derive the empty program.
LEMMA NoProgram ==
  Programs(<<>>) = { Text(<<>>, <<>>) }
<1>1. ProgramsOf(Compose, <<>>) = { Text(<<>>, <<>>) }
  BY DEF ProgramsOf
<1>. QED BY <1>1, NoTokens, ProgramsRecursion

\* A text that is no statement and a program has none.
LEMMA ProgramSplits ==
  ASSUME NEW ts \in Tokens, ts # <<>>, NEW e \in Programs(ts)
  PROVE  \E p \in Tokens, q \in Tokens :
           /\ p # <<>> /\ ts = p \o q
           /\ \E s \in Statements(p), t \in Programs(q) : e = Before(s, t)
<1>1. e \in UNION { ProgramsAfter(Compose, ts, i) : i \in 1..Len(ts) }
  BY ProgramsRecursion DEF ProgramsOf
<1>2. PICK i \in 1..Len(ts) : e \in ProgramsAfter(Compose, ts, i)
  BY <1>1
<1>. DEFINE p == Part(ts, 1, i)
            q == Part(ts, i + 1, Len(ts))
<1>3. i \in 0..Len(ts) /\ i # 0
  BY NoLength
<1>4. p \in Tokens /\ q \in Tokens /\ Len(p) = i /\ ts = p \o q
  BY <1>3, PartsJoin
<1>5. \E s \in Statements(p), t \in Compose[q] : e = Before(s, t)
  BY <1>2 DEF ProgramsAfter, Before
<1>. HIDE DEF p, q
<1>6. Compose[q] = Programs(q)
  BY <1>4, ProgramsRecursion
<1>7. p # <<>>
  BY <1>3, <1>4, LongerThanNothing
<1>. QED BY <1>4, <1>5, <1>6, <1>7

\* A derived statement before a derived program.
LEMMA ProgramJoins ==
  ASSUME NEW p \in Tokens, NEW q \in Tokens, p # <<>>,
         NEW s \in Statements(p), NEW t \in Programs(q)
  PROVE  Before(s, t) \in Programs(p \o q)
<1>. DEFINE ts == p \o q
            i == Len(p)
<1>1. ts \in Tokens /\ Len(ts) = Len(p) + Len(q) /\ Len(p) \in Nat /\ Len(q) \in Nat
  BY TokensConcat
<1>2. Part(ts, 1, i) = p /\ Part(ts, i + 1, Len(ts)) = q
  BY PartsOfJoin
<1>3. Len(p) # 0
  BY NoLength
<1>. HIDE DEF ts
<1>4. i \in 1..Len(ts)
  BY <1>1, <1>3
<1>5. Compose[q] = Programs(q)
  BY ProgramsRecursion
<1>6. Before(s, t) \in ProgramsAfter(Compose, ts, i)
  BY <1>2, <1>5 DEF ProgramsAfter, Before
<1>7. Before(s, t) \in UNION { ProgramsAfter(Compose, ts, j) : j \in 1..Len(ts) }
  BY <1>4, <1>6
<1>8. ts # <<>>
  <2>1. Len(ts) # 0
    BY <1>1, <1>3
  <2>. QED BY <2>1, LongerThanNothing
<1>9. Programs(ts) = UNION { ProgramsAfter(Compose, ts, j) : j \in 1..Len(ts) }
  BY <1>1, <1>8, ProgramsRecursion DEF ProgramsOf
<1>. QED BY <1>7, <1>9 DEF ts

\* Nothing is an operator at the end of a text, or at a keyword.
StartsStatement(ts) == ts = <<>> \/ Peek(ts).type \in StatementKeywords

\* A keyword, or the end, is no operator.
LEMMA StatementBlocks ==
  ASSUME NEW ts \in Tokens, StartsStatement(ts)
  PROVE  Blocked(ts, 0)
<1>1. Peek(ts).type \notin OperatorSymbols
  BY NoTokens DEF StartsStatement, StatementKeywords, OperatorSymbols
<1>. QED BY <1>1, BlockedByOther

\* A program begins with a keyword, or is empty.
LEMMA ProgramStarts ==
  ASSUME NEW ts \in Tokens, Programs(ts) # {}
  PROVE  StartsStatement(ts)
<1>1. SUFFICES ASSUME ts # <<>> PROVE Peek(ts).type \in StatementKeywords
  BY DEF StartsStatement
<1>2. PICK e \in Programs(ts) : TRUE
  OBVIOUS
<1>3. PICK p \in Tokens, q \in Tokens :
           /\ p # <<>> /\ ts = p \o q
           /\ \E s \in Statements(p), t \in Programs(q) : e = Before(s, t)
  BY <1>1, <1>2, ProgramSplits
<1>4. PICK s \in Statements(p) : TRUE
  BY <1>3
<1>5. <<>> \in Tokens /\ Blocked(<<>>, 0)
  BY NoTokens, StatementBlocks DEF StartsStatement
<1>6. p[1].type \in StatementKeywords
  BY <1>3, <1>4, <1>5, StatementReads
<1>7. Peek(ts) = p[1]
  BY <1>3, PeekConcat, TokensCases
<1>. QED BY <1>6, <1>7

\* The programs of a text, as the parser reads them.
ReadAsText(e) == ProgramRead(e.variables, e.constraints, TRUE)
TextReads(ts) ==
  \A e \in Programs(ts) : ParseProgram(ts) = ReadAsText(e) /\ e = Text(e.variables, e.constraints)

\* A derived program is read as it derives, if shorter ones are.
LEMMA TextReadsStep ==
  ASSUME NEW ts \in Tokens, \A d \in Tokens : Len(d) < Len(ts) => TextReads(d)
  PROVE  TextReads(ts)
<1>1. CASE ts = <<>>
  <2>1. ASSUME NEW e \in Programs(ts)
        PROVE  ParseProgram(ts) = ReadAsText(e) /\ e = Text(e.variables, e.constraints)
    <3>1. e = Text(<<>>, <<>>)
      BY <1>1, NoProgram
    <3>2. e.variables = <<>> /\ e.constraints = <<>>
      BY <3>1 DEF Text
    <3>3. ParseProgram(ts) = ProgramRead(<<>>, <<>>, TRUE)
      BY <1>1, ProgramEquation
    <3>. QED BY <3>1, <3>2, <3>3 DEF ReadAsText
  <2>. QED BY <2>1 DEF TextReads
<1>2. CASE ts # <<>>
  <2>1. ASSUME NEW e \in Programs(ts)
        PROVE  ParseProgram(ts) = ReadAsText(e) /\ e = Text(e.variables, e.constraints)
    <3>1. PICK p \in Tokens, q \in Tokens :
           /\ p # <<>> /\ ts = p \o q
           /\ \E s \in Statements(p), t \in Programs(q) : e = Before(s, t)
      BY <1>2, ProgramSplits
    <3>2. PICK s \in Statements(p), t \in Programs(q) : e = Before(s, t)
      BY <3>1
    <3>3. Len(q) < Len(ts)
      <4>1. Len(ts) = Len(p) + Len(q) /\ Len(p) \in Nat /\ Len(q) \in Nat /\ Len(p) # 0
        BY <3>1, TokensConcat, NoLength
      <4>. QED BY <4>1
    <3>4. TextReads(q)
      BY <3>3
    <3>5. ParseProgram(q) = ReadAsText(t)
      BY <3>4 DEF TextReads
    <3>6. Blocked(q, 0)
      BY ProgramStarts, StatementBlocks
    <3>7. ParseStatement(ts) = StatementRead(s.variables, s.constraints, q, TRUE)
      BY <3>1, <3>6, StatementReads
    <3>8. ParseStatement(ts).rest = q /\ ParseStatement(ts).variables = s.variables
          /\ ParseStatement(ts).constraints = s.constraints /\ ParseStatement(ts).ok
      BY <3>7 DEF StatementRead
    <3>9. ParseProgram(ts) = Joined(ParseStatement(ts), ReadAsText(t))
      BY <1>2, <3>5, <3>8, ProgramEquation
    <3>10. Joined(ParseStatement(ts), ReadAsText(t)) =
             ProgramRead(s.variables \o t.variables, s.constraints \o t.constraints, TRUE)
      BY <3>8 DEF Joined, ReadAsText, ProgramRead
    <3>11. /\ e.variables = s.variables \o t.variables /\ e.constraints = s.constraints \o t.constraints
           /\ e = Text(e.variables, e.constraints)
      BY <3>2 DEF Before, Text
    <3>. QED BY <3>9, <3>10, <3>11 DEF ReadAsText
  <2>. QED BY <2>1 DEF TextReads
<1>. QED BY <1>1, <1>2

\* A text of the grammar reads as each of its programs, which is the only one.
LEMMA ParserReadsPrograms ==
  \A ts \in Tokens : TextReads(ts)
<1>. DEFINE S == { n \in Nat : \A ts \in Tokens : Len(ts) = n => TextReads(ts) }
<1>1. ASSUME NEW n \in Nat, \A m \in Nat : m < n => m \in S PROVE n \in S
  <2>1. ASSUME NEW ts \in Tokens, Len(ts) = n PROVE TextReads(ts)
    <3>1. \A d \in Tokens : Len(d) < Len(ts) => TextReads(d)
      BY <1>1, <2>1, NoLength
    <3>. QED BY <3>1, TextReadsStep
  <2>. QED BY <2>1
<1>2. Nat \subseteq S
  <2>. HIDE DEF S
  <2>. QED BY <1>1, Grouping!CompleteInduction
<1>. QED BY <1>2, NoLength

TextDerived(ts) == ParseProgram(ts).ok => Read(ts) \in Programs(ts)

\* What is read without an error derives, if what is shorter does.
LEMMA TextDerivedStep ==
  ASSUME NEW ts \in Tokens, \A d \in Tokens : Len(d) < Len(ts) => TextDerived(d)
  PROVE  TextDerived(ts)
<1>1. CASE ts = <<>>
  <2>1. ParseProgram(ts) = ProgramRead(<<>>, <<>>, TRUE)
    BY <1>1, ProgramEquation
  <2>2. Read(ts) = Text(<<>>, <<>>)
    BY <2>1 DEF Read, ProgramRead
  <2>. QED BY <1>1, <2>2, NoProgram DEF TextDerived
<1>2. CASE ts # <<>>
  <2>. DEFINE s == ParseStatement(ts)
              later == ParseProgram(s.rest)
  <2>1. SUFFICES ASSUME ParseProgram(ts).ok PROVE Read(ts) \in Programs(ts)
    BY DEF TextDerived
  <2>2. ParseProgram(ts) = Joined(s, later)
    BY <1>2, ProgramEquation
  <2>3. s.ok /\ later.ok
    <3>. HIDE DEF s, later
    <3>1. Joined(s, later).ok = (s.ok /\ later.ok)
      BY DEF Joined, ProgramRead
    <3>. QED BY <2>1, <2>2, <3>1
  <2>4. s.rest \in Tokens /\ Len(s.rest) < Len(ts)
    BY <1>2, StatementShortens
  <2>5. Read(s.rest) \in Programs(s.rest)
    BY <2>3, <2>4 DEF TextDerived
  <2>6. PICK p \in Tokens : /\ p # <<>> /\ ts = p \o s.rest
                            /\ Text(s.variables, s.constraints) \in Statements(p)
    BY <2>3, StatementDerived
  <2>7. Read(ts) = Before(Text(s.variables, s.constraints), Read(s.rest))
    BY <2>2 DEF Read, Joined, ProgramRead, Before, Text
  <2>. HIDE DEF s
  <2>8. Before(Text(s.variables, s.constraints), Read(s.rest)) \in Programs(p \o s.rest)
    BY <2>4, <2>5, <2>6, ProgramJoins
  <2>. QED BY <2>6, <2>7, <2>8
<1>. QED BY <1>1, <1>2

\* What the parser accepts is a program of the grammar.
LEMMA ParserDerivesPrograms ==
  \A ts \in Tokens : TextDerived(ts)
<1>. DEFINE S == { n \in Nat : \A ts \in Tokens : Len(ts) = n => TextDerived(ts) }
<1>1. ASSUME NEW n \in Nat, \A m \in Nat : m < n => m \in S PROVE n \in S
  <2>1. ASSUME NEW ts \in Tokens, Len(ts) = n PROVE TextDerived(ts)
    <3>1. \A d \in Tokens : Len(d) < Len(ts) => TextDerived(d)
      BY <1>1, <2>1, NoLength
    <3>. QED BY <3>1, TextDerivedStep
  <2>. QED BY <2>1
<1>2. Nat \subseteq S
  <2>. HIDE DEF S
  <2>. QED BY <1>1, Grouping!CompleteInduction
<1>. QED BY <1>2, NoLength

\* Precedence climbing accepts exactly the texts of the documented grammar, and
\* gives them the one program the grammar gives them.
THEOREM ParserImplementsGrammar ==
  ASSUME NEW ts \in Tokens
  PROVE  Programs(ts) = IF ParseProgram(ts).ok THEN {Read(ts)} ELSE {}
<1>1. ASSUME NEW e \in Programs(ts) PROVE ParseProgram(ts).ok /\ e = Read(ts)
  <2>1. ParseProgram(ts) = ReadAsText(e) /\ e = Text(e.variables, e.constraints)
    BY ParserReadsPrograms DEF TextReads
  <2>. QED BY <2>1 DEF ReadAsText, ProgramRead, Read
<1>2. ParseProgram(ts).ok => Read(ts) \in Programs(ts)
  BY ParserDerivesPrograms DEF TextDerived
<1>. QED BY <1>1, <1>2

-----------------------------------------------------------------------------
(* A text before a keyword.                                                 *)

NoConstraint(ts) == \A j \in 1..Len(ts) : ts[j].type # "constraint"

\* Parts of a text without constraints are without constraints.
LEMMA NoConstraintParts ==
  ASSUME NEW a \in Tokens, NEW b \in Tokens, NoConstraint(a \o b)
  PROVE  NoConstraint(a) /\ NoConstraint(b)
<1>. DEFINE ts == a \o b
<1>1. /\ Len(ts) = Len(a) + Len(b) /\ Len(a) \in Nat /\ Len(b) \in Nat
      /\ \A k \in 1..Len(a) + Len(b) : ts[k] = IF k <= Len(a) THEN a[k] ELSE b[k - Len(a)]
  BY ConcatProperties, LenProperties DEF Tokens
<1>2. \A k \in 1..Len(ts) : ts[k].type # "constraint"
  BY DEF NoConstraint
<1>. HIDE DEF ts
<1>3. ASSUME NEW j \in 1..Len(a) PROVE a[j].type # "constraint"
  <2>1. j \in 1..Len(ts) /\ ts[j] = a[j]
    BY <1>1
  <2>. QED BY <1>2, <2>1
<1>4. ASSUME NEW j \in 1..Len(b) PROVE b[j].type # "constraint"
  <2>. DEFINE k == Len(a) + j
  <2>1. k \in 1..Len(ts) /\ k \in 1..Len(a) + Len(b) /\ ~ (k <= Len(a)) /\ k - Len(a) = j
    BY <1>1
  <2>. HIDE DEF k
  <2>2. ts[k] = b[j]
    BY <1>1, <2>1
  <2>. QED BY <1>2, <2>1, <2>2
<1>. QED BY <1>3, <1>4 DEF NoConstraint

\* synchronize() stops at the keyword that follows, or before it.
SynchronizesAlike(ts, k) ==
  /\ Synchronize(ts \o k) = Synchronize(ts) \o k
  /\ NoConstraint(ts) => NoConstraint(Synchronize(ts))

\* Skipping does not depend on what stands behind the next keyword; one token.
LEMMA SynchronizeStep ==
  ASSUME NEW k \in Tokens, StartsStatement(k),
         NEW ts \in Tokens, \A d \in Tokens : Len(d) < Len(ts) => SynchronizesAlike(d, k)
  PROVE  SynchronizesAlike(ts, k)
<1>1. CASE ts = <<>>
  <2>1. Synchronize(<<>>) = <<>>
    BY NoTokens, SynchronizeEquation
  <2>2. Synchronize(k) = k
    BY NoTokens, SynchronizeEquation DEF StartsStatement
  <2>3. <<>> \o k = k
    BY NoTokens, TokensConcat
  <2>. QED BY <1>1, <2>1, <2>2, <2>3 DEF SynchronizesAlike
<1>2. CASE ts # <<>> /\ Peek(ts).type \in StatementKeywords
  <2>1. Peek(ts \o k) = Peek(ts) /\ ts \o k \in Tokens
    BY <1>2, PeekConcat, TokensConcat
  <2>2. Synchronize(ts) = ts
    BY <1>2, SynchronizeEquation
  <2>3. Synchronize(ts \o k) = ts \o k
    BY <1>2, <2>1, SynchronizeEquation
  <2>. QED BY <2>2, <2>3 DEF SynchronizesAlike
<1>3. CASE ts # <<>> /\ Peek(ts).type \notin StatementKeywords
  <2>. DEFINE t == ts[1]
              d == Tail(ts)
  <2>1. /\ t \in AnyToken /\ d \in Tokens /\ ts = Cons(t, d) /\ Peek(ts) = t
        /\ Len(d) = Len(ts) - 1 /\ Len(ts) \in Nat
    BY <1>3, TokensCases
  <2>. HIDE DEF t, d
  <2>2. Peek(ts \o k) = t /\ ts \o k \in Tokens
    BY <1>3, <2>1, PeekConcat, TokensConcat
  <2>3. Tail(ts \o k) = d \o k /\ Tail(ts) = d
    <3>1. ts \o k = Cons(t, d \o k) /\ d \o k \in Tokens
      <4>1. Cons(t, d) \o k = Cons(t, d \o k)
        BY <2>1, ConsConcat
      <4>2. d \o k \in Tokens
        BY <2>1, TokensConcat
      <4>. QED BY <2>1, <4>1, <4>2
    <3>. QED BY <2>1, <3>1, ConsTokens
  <2>4. t.type \notin StatementKeywords \union {"Eof"}
    BY <1>3, <2>1 DEF AnyToken
  <2>5. Synchronize(ts) = Synchronize(d) /\ Synchronize(ts \o k) = Synchronize(d \o k)
    BY <2>1, <2>2, <2>3, <2>4, SynchronizeEquation
  <2>6. Len(d) < Len(ts)
    BY <2>1
  <2>7. Synchronize(d \o k) = Synchronize(d) \o k /\ (NoConstraint(d) => NoConstraint(Synchronize(d)))
    BY <2>1, <2>6 DEF SynchronizesAlike
  <2>8. NoConstraint(ts) => NoConstraint(d)
    <3>1. <<t>> \in Tokens
      <4>1. \A T : \A x \in T : <<x>> \in Seq(T)
        OBVIOUS
      <4>. QED BY <2>1, <4>1 DEF Tokens
    <3>. QED BY <2>1, <3>1, NoConstraintParts DEF Cons
  <2>. QED BY <2>5, <2>7, <2>8 DEF SynchronizesAlike
<1>. QED BY <1>1, <1>2, <1>3

\* Skipping does not depend on what stands behind the next keyword.
LEMMA SynchronizeConcat ==
  ASSUME NEW k \in Tokens, StartsStatement(k)
  PROVE  \A ts \in Tokens : SynchronizesAlike(ts, k)
<1>. DEFINE S == { n \in Nat : \A ts \in Tokens : Len(ts) = n => SynchronizesAlike(ts, k) }
<1>1. ASSUME NEW n \in Nat, \A m \in Nat : m < n => m \in S PROVE n \in S
  <2>1. ASSUME NEW ts \in Tokens, Len(ts) = n PROVE SynchronizesAlike(ts, k)
    <3>1. \A d \in Tokens : Len(d) < Len(ts) => SynchronizesAlike(d, k)
      BY <1>1, <2>1, NoLength
    <3>. QED BY <3>1, SynchronizeStep
  <2>. QED BY <2>1
<1>2. Nat \subseteq S
  <2>. HIDE DEF S
  <2>. QED BY <1>1, Grouping!CompleteInduction
<1>. QED BY <1>2, NoLength

\* Two ways to take a sequence apart.
SameJoin(a, k, p, r) == a \o k = p \o r
BeginsWith(a, p) == \E q \in Tokens : a = p \o q

\* Of two beginnings of one sequence the longer begins with the shorter.
LEMMA PrefixOfConcat ==
  ASSUME NEW a \in Tokens, NEW k \in Tokens, NEW p \in Tokens, NEW r \in Tokens,
         SameJoin(a, k, p, r), Len(p) <= Len(a)
  PROVE  BeginsWith(a, p)
<1>0. a \o k = p \o r
  BY DEF SameJoin
<1>. DEFINE n == Len(p)
            x == Part(a, 1, n)
            q == Part(a, n + 1, Len(a))
<1>1. n \in 0..Len(a)
  BY NoLength
<1>2. x \in Tokens /\ Len(x) = n /\ q \in Tokens /\ a = x \o q
  BY <1>1, PartsJoin
<1>. HIDE DEF x, q
<1>3. a \o k = x \o (q \o k) /\ q \o k \in Tokens
  <2>1. (x \o q) \o k = x \o (q \o k)
    <3>1. x \in Tokens /\ q \in Tokens /\ k \in Tokens
      BY <1>2
    <3>. QED BY ONLY <3>1, ConcatThrice, SMTT(30)
  <2>2. q \o k \in Tokens
    BY <1>2, TokensConcat
  <2>. QED BY <1>2, <2>1, <2>2
<1>4. Part(x \o (q \o k), 1, Len(x)) = x
  BY <1>2, <1>3, PartsOfJoin
<1>5. Part(p \o r, 1, Len(p)) = p
  BY PartsOfJoin
<1>6. x = p
  BY <1>0, <1>2, <1>3, <1>4, <1>5
<1>. QED BY <1>2, <1>6 DEF BeginsWith

\* A declaration has one keyword, its first token.
LEMMA DeclarationKeywords ==
  ASSUME NEW p \in Tokens, IsVarDecl(p), NEW sort \in SortsNamed(Part(p, 4, Len(p))),
         NEW j \in 2..Len(p)
  PROVE  p[j].type \notin StatementKeywords
<1>. DEFINE s == Part(p, 4, Len(p))
<1>1. Len(p) > 3 /\ Len(p) \in Nat /\ p[2].type = "Identifier" /\ p[3].type = ":"
  BY NoLength DEF IsVarDecl
<1>2. Len(s) = Len(p) - 3 /\ \A k \in 1..Len(p) - 3 : s[k] = p[k + 3]
  <2>1. 4 \in Int /\ Len(p) \in Int /\ 1 <= 4 /\ Len(p) <= Len(p) /\ 4 <= Len(p)
    BY <1>1
  <2>2. Len(s) = IF 4 <= Len(p) THEN Len(p) - 4 + 1 ELSE 0
    BY <2>1, PartProperties
  <2>3. \A k \in 1..Len(p) - 4 + 1 : s[k] = p[4 + k - 1]
    BY <2>1, PartProperties
  <2>. HIDE DEF s
  <2>4. ASSUME NEW k \in 1..Len(p) - 3 PROVE s[k] = p[k + 3]
    <3>1. k \in 1..Len(p) - 4 + 1 /\ 4 + k - 1 = k + 3
      BY <2>1
    <3>. QED BY <2>3, <3>1
  <2>5. Len(s) = Len(p) - 3
    BY <2>1, <2>2
  <2>. QED BY <2>4, <2>5
<1>. HIDE DEF s
<1>3. \A k \in 1..Len(s) : s[k].type \notin StatementKeywords
  <2>1. sort \in SortsNamed(s)
    BY DEF s
  <2>2. \/ Len(s) = 1 /\ s[1].type \in {"Bool", "Int", "Real", "String"}
        \/ /\ Len(s) = 4 /\ s[1].type = "BitVec" /\ s[2].type = "("
           /\ s[3].type = "IntLiteral" /\ s[4].type = ")"
    BY <2>1 DEF SortsNamed
  <2>. QED BY <2>2 DEF StatementKeywords
<1>4. CASE j > 3
  <2>. DEFINE k == j - 3
  <2>1. k \in 1..Len(s) /\ k \in 1..Len(p) - 3 /\ k + 3 = j
    BY <1>1, <1>2, <1>4
  <2>. HIDE DEF k
  <2>. QED BY <1>2, <1>3, <2>1
<1>5. CASE j = 2 \/ j = 3
  BY <1>1, <1>5 DEF StatementKeywords
<1>6. j > 3 \/ j = 2 \/ j = 3
  BY <1>1
<1>. QED BY <1>4, <1>5, <1>6

\* A declaration that ends in a text before a keyword ends before the keyword.
LEMMA DeclarationEnds ==
  ASSUME NEW a \in Tokens, a # <<>>, NEW k \in Tokens, StartsStatement(k),
         NEW p \in Tokens, p # <<>>, p[1].type = "var", NEW e \in Statements(p), NEW r \in Tokens,
         a \o k = p \o r
  PROVE  Len(p) <= Len(a)
<1>1. SUFFICES ASSUME Len(p) > Len(a) PROVE FALSE
  BY NoLength
<1>. DEFINE ts == a \o k
            i == Len(a) + 1
<1>2. /\ Len(a) \in Nat /\ Len(k) \in Nat /\ Len(p) \in Nat /\ Len(r) \in Nat
      /\ Len(ts) = Len(a) + Len(k) /\ Len(ts) = Len(p) + Len(r) /\ Len(a) # 0
  BY TokensConcat, NoLength
<1>3. /\ \A j \in 1..Len(a) + Len(k) : ts[j] = IF j <= Len(a) THEN a[j] ELSE k[j - Len(a)]
      /\ \A j \in 1..Len(p) + Len(r) : ts[j] = IF j <= Len(p) THEN p[j] ELSE r[j - Len(p)]
  BY ConcatProperties, SMTT(30) DEF Tokens
<1>. HIDE DEF ts
<1>4. Len(k) # 0 /\ i \in 1..Len(a) + Len(k) /\ ~ (i <= Len(a)) /\ i - Len(a) = 1
      /\ i \in 1..Len(p) + Len(r) /\ i <= Len(p) /\ i \in 2..Len(p)
  BY <1>1, <1>2
<1>. HIDE DEF i
<1>5. ts[i] = k[1] /\ ts[i] = p[i]
  BY <1>3, <1>4
<1>6. k # <<>>
  BY <1>4, LongerThanNothing
<1>7. k[1].type \in StatementKeywords
  BY <1>6, TokensCases DEF StartsStatement
<1>8. p[1].type # "constraint"
  OBVIOUS
<1>9. IsVarDecl(p) /\ \E sort \in SortsNamed(Part(p, 4, Len(p))) : e = Declares(p[2].text, sort)
  BY <1>8, StatementCases
<1>10. p[i].type \notin StatementKeywords
  BY <1>4, <1>9, DeclarationKeywords
<1>. QED BY <1>5, <1>7, <1>10

\* A text the parser accepts, or one without a constraint.
Closed(ts) == ParseProgram(ts).ok \/ NoConstraint(ts)

\* A text whose first statement reads as before the keyword as alone, and
\* leaves a text of the same kind.
StatementResumes(a, k) ==
  /\ ParseStatement(a \o k) =
       StatementRead(ParseStatement(a).variables, ParseStatement(a).constraints,
                     ParseStatement(a).rest \o k, ParseStatement(a).ok)
  /\ NoConstraint(a) => NoConstraint(ParseStatement(a).rest)

\* A statement read without an error.
LEMMA ReadStatementResumes ==
  ASSUME NEW a \in Tokens, NEW k \in Tokens, StartsStatement(k), ParseStatement(a).ok
  PROVE  StatementResumes(a, k)
<1>. DEFINE s == ParseStatement(a)
<1>1. s.rest \in Tokens
  BY StatementDerived
<1>2. PICK p \in Tokens :
        /\ p # <<>> /\ a = p \o s.rest
        /\ Text(s.variables, s.constraints) \in Statements(p)
        /\ p[1].type = "constraint" => Blocked(s.rest, 0)
  BY StatementDerived
<1>. DEFINE e == Text(s.variables, s.constraints)
<1>3. e \in Statements(p) /\ e.variables = s.variables /\ e.constraints = s.constraints
  BY <1>2 DEF Text
<1>4. s.ok = TRUE
  <2>1. s.ok \in BOOLEAN
    <3>1. ParseStatement(p \o s.rest) = StatementRead(e.variables, e.constraints, s.rest, TRUE)
      BY <1>1, <1>2, StatementReads
    <3>2. s = StatementRead(e.variables, e.constraints, s.rest, TRUE)
      BY <1>2, <3>1
    <3>3. \A x, y, z : StatementRead(x, y, z, TRUE).ok = TRUE
      BY DEF StatementRead
    <3>. HIDE DEF s, e
    <3>. QED BY <3>2, <3>3
  <2>. QED BY <2>1
<1>. HIDE DEF s, e
<1>5. s.rest \o k \in Tokens
  BY <1>1, TokensConcat
<1>6. p[1].type = "constraint" => Blocked(s.rest \o k, 0)
  <2>1. Blocked(k, 0)
    BY StatementBlocks
  <2>2. Peek(s.rest \o k) = Peek(k) \/ Peek(s.rest \o k) = Peek(s.rest)
    BY <1>1, PeekConcat
  <2>. QED BY <1>2, <2>1, <2>2 DEF Blocked
<1>7. a \o k = p \o (s.rest \o k)
  <2>1. \A r \in Tokens : (p \o r) \o k = p \o (r \o k)
    BY ConcatThrice
  <2>2. (p \o s.rest) \o k = p \o (s.rest \o k)
    BY <1>1, <2>1
  <2>. QED BY <1>2, <2>2
<1>8. ParseStatement(p \o (s.rest \o k)) = StatementRead(e.variables, e.constraints, s.rest \o k, TRUE)
  BY <1>2, <1>3, <1>5, <1>6, StatementReads
<1>9. ParseStatement(a \o k) = StatementRead(s.variables, s.constraints, s.rest \o k, s.ok)
  BY <1>3, <1>4, <1>7, <1>8
<1>10. NoConstraint(a) => NoConstraint(s.rest)
  BY <1>1, <1>2, NoConstraintParts
<1>. QED BY <1>9, <1>10 DEF StatementResumes, s

\* Stepping over the first token of the first part.
LEMMA AdvanceConcat ==
  ASSUME NEW a \in Tokens, a # <<>>, NEW k \in Tokens
  PROVE  /\ Advance(a \o k) = Advance(a) \o k /\ Advance(a) \in Tokens
         /\ NoConstraint(a) => NoConstraint(Advance(a))
<1>. DEFINE t == a[1]
            d == Tail(a)
<1>1. t \in AnyToken /\ d \in Tokens /\ a = Cons(t, d) /\ Advance(a) = d
  BY TokensCases
<1>. HIDE DEF t, d
<1>2. Cons(t, d) \o k = Cons(t, d \o k)
  BY <1>1, ConsConcat
<1>3. d \o k \in Tokens
  BY <1>1, TokensConcat
<1>4. Advance(Cons(t, d \o k)) = d \o k
  BY <1>1, <1>3, ConsTokens
<1>5. NoConstraint(a) => NoConstraint(d)
  <2>1. <<t>> \in Tokens
    <3>1. \A T : \A x \in T : <<x>> \in Seq(T)
      OBVIOUS
    <3>. QED BY <1>1, <3>1 DEF Tokens
  <2>. QED BY <1>1, <2>1, NoConstraintParts DEF Cons
<1>. QED BY <1>1, <1>2, <1>4, <1>5

\* A broken declaration: the keyword that follows does not repair it.
LEMMA BrokenDeclarationResumes ==
  ASSUME NEW a \in Tokens, NEW k \in Tokens, StartsStatement(k),
         ~ ParseStatement(a).ok, Peek(a).type = "var"
  PROVE  StatementResumes(a, k)
<1>1. a # <<>>
  BY NoTokens
<1>2. a \o k \in Tokens /\ Peek(a \o k) = Peek(a)
  BY <1>1, TokensConcat, PeekConcat
<1>3. ~ ParseStatement(a \o k).ok
  <2>1. SUFFICES ASSUME ParseStatement(a \o k).ok PROVE FALSE
    OBVIOUS
  <2>. DEFINE x == ParseStatement(a \o k)
  <2>2. x.rest \in Tokens
    BY <1>2, <2>1, DeclarationDerived
  <2>3. PICK p \in Tokens :
          /\ p # <<>> /\ p[1].type = "var" /\ a \o k = p \o x.rest
          /\ Text(x.variables, x.constraints) \in Statements(p)
    BY <1>2, <2>1, DeclarationDerived
  <2>. HIDE DEF x
  <2>4. Len(p) <= Len(a)
    BY <1>1, <2>2, <2>3, DeclarationEnds
  <2>. DEFINE r == x.rest
  <2>. HIDE DEF r
  <2>10. r \in Tokens /\ a \o k = p \o r
    BY <2>2, <2>3 DEF r
  <2>5. BeginsWith(a, p)
    <3>1. SameJoin(a, k, p, r)
      BY <2>10 DEF SameJoin
    <3>. QED BY <3>1, <2>4, <2>10, PrefixOfConcat
  <2>11. PICK q \in Tokens : a = p \o q
    BY <2>5 DEF BeginsWith
  <2>6. p[1].type # "constraint"
    BY <2>3
  <2>7. PICK e \in Statements(p) : TRUE
    BY <2>3
  <2>8. ParseStatement(p \o q) = StatementRead(e.variables, e.constraints, q, TRUE)
    BY <2>3, <2>6, StatementReads
  <2>9. ParseStatement(p \o q).ok
    BY <2>8 DEF StatementRead
  <2>. QED BY <2>9, <2>11
<1>4. \A ts : Peek(ts).type = "var" /\ ~ ParseStatement(ts).ok =>
        ParseStatement(ts) = StatementRead(<<>>, <<>>, Synchronize(Advance(ts)), FALSE)
  BY DEF ParseStatement, ParseVarDecl, StatementRead
<1>5. /\ ParseStatement(a) = StatementRead(<<>>, <<>>, Synchronize(Advance(a)), FALSE)
      /\ ParseStatement(a \o k) = StatementRead(<<>>, <<>>, Synchronize(Advance(a \o k)), FALSE)
  BY <1>2, <1>3, <1>4
<1>6. Advance(a \o k) = Advance(a) \o k /\ Advance(a) \in Tokens
      /\ (NoConstraint(a) => NoConstraint(Advance(a)))
  BY <1>1, AdvanceConcat
<1>7. SynchronizesAlike(Advance(a), k)
  BY <1>6, SynchronizeConcat
<1>8. ParseStatement(a).variables = <<>> /\ ParseStatement(a).constraints = <<>>
      /\ ParseStatement(a).rest = Synchronize(Advance(a)) /\ ParseStatement(a).ok = FALSE
  BY <1>5 DEF StatementRead
<1>. QED BY <1>5, <1>6, <1>7, <1>8 DEF StatementResumes, SynchronizesAlike

\* Tokens that start no statement.
LEMMA OtherResumes ==
  ASSUME NEW a \in Tokens, a # <<>>, NEW k \in Tokens, StartsStatement(k),
         Peek(a).type \notin StatementKeywords
  PROVE  StatementResumes(a, k)
<1>1. a \o k \in Tokens /\ Peek(a \o k) = Peek(a)
  BY TokensConcat, PeekConcat
<1>2. /\ ParseStatement(a) = StatementRead(<<>>, <<>>, Synchronize(a), FALSE)
      /\ ParseStatement(a \o k) = StatementRead(<<>>, <<>>, Synchronize(a \o k), FALSE)
  BY <1>1, OtherFails
<1>3. SynchronizesAlike(a, k)
  BY SynchronizeConcat
<1>4. ParseStatement(a).variables = <<>> /\ ParseStatement(a).constraints = <<>>
      /\ ParseStatement(a).rest = Synchronize(a) /\ ParseStatement(a).ok = FALSE
  BY <1>2 DEF StatementRead
<1>. QED BY <1>2, <1>3, <1>4 DEF StatementResumes, SynchronizesAlike

\* Statements read without an error, and all but constraints, resume at a keyword.
LEMMA ClosedStatementResumes ==
  ASSUME NEW a \in Tokens, a # <<>>, NEW k \in Tokens, StartsStatement(k),
         ParseStatement(a).ok \/ NoConstraint(a)
  PROVE  StatementResumes(a, k)
<1>1. CASE ParseStatement(a).ok
  BY <1>1, ReadStatementResumes
<1>2. CASE ~ ParseStatement(a).ok /\ Peek(a).type = "var"
  BY <1>2, BrokenDeclarationResumes
<1>3. CASE Peek(a).type \notin StatementKeywords
  BY <1>3, OtherResumes
<1>4. CASE ~ ParseStatement(a).ok /\ Peek(a).type = "constraint"
  <2>1. NoConstraint(a)
    BY <1>4
  <2>2. 1 \in 1..Len(a) /\ Peek(a) = a[1]
    BY TokensCases
  <2>. QED BY <1>4, <2>1, <2>2 DEF NoConstraint
<1>. QED BY <1>1, <1>2, <1>3, <1>4 DEF StatementKeywords

-----------------------------------------------------------------------------
\* Reading one text after the other.
LEMMA JoinedAfterNothing ==
  ASSUME NEW v, IsRead(v)
  PROVE  Joined(ProgramRead(<<>>, <<>>, TRUE), v) = v
<1>1. \A s : IsSequence(s) => <<>> \o s = s
  BY ConcatEmptySeq DEF IsSequence
<1>2. <<>> \o v.variables = v.variables /\ <<>> \o v.constraints = v.constraints
  BY <1>1 DEF IsRead
<1>3. (TRUE /\ v.ok) = v.ok
  BY DEF IsRead
<1>4. v = ProgramRead(v.variables, v.constraints, v.ok)
  BY DEF IsRead
<1>5. Joined(ProgramRead(<<>>, <<>>, TRUE), v) =
        ProgramRead(<<>> \o v.variables, <<>> \o v.constraints, TRUE /\ v.ok)
  BY DEF Joined, ProgramRead
<1>. QED BY <1>2, <1>3, <1>4, <1>5

\* Concatenation of sequences of anything is associative.
LEMMA ConcatAny ==
  ASSUME NEW x, NEW y, NEW z, IsSequence(x), IsSequence(y), IsSequence(z)
  PROVE  (x \o y) \o z = x \o (y \o z)
<1>1. PICK X : x \in Seq(X)
  BY DEF IsSequence
<1>2. PICK Y : y \in Seq(Y)
  BY DEF IsSequence
<1>3. PICK Z : z \in Seq(Z)
  BY DEF IsSequence
<1>. DEFINE S == X \union Y \union Z
<1>4. X \subseteq S /\ Y \subseteq S /\ Z \subseteq S
  OBVIOUS
<1>5. x \in Seq(S) /\ y \in Seq(S) /\ z \in Seq(S)
  BY <1>1, <1>2, <1>3, <1>4, SeqMonotonic
<1>. HIDE DEF S
<1>. QED BY <1>5, ConcatAssociative

\* Joining is associative.
LEMMA JoinedThrice ==
  ASSUME NEW s, IsSequence(s.variables), IsSequence(s.constraints), NEW v, IsRead(v),
         NEW w, IsRead(w)
  PROVE  Joined(Joined(s, v), w) = Joined(s, Joined(v, w))
<1>1. /\ (s.variables \o v.variables) \o w.variables = s.variables \o (v.variables \o w.variables)
      /\ (s.constraints \o v.constraints) \o w.constraints
           = s.constraints \o (v.constraints \o w.constraints)
  <2>1. /\ IsSequence(v.variables) /\ IsSequence(v.constraints)
        /\ IsSequence(w.variables) /\ IsSequence(w.constraints)
    BY DEF IsRead
  <2>. DEFINE Associates(x, y, z) == (x \o y) \o z = x \o (y \o z)
  <2>4. \A x, y, z : IsSequence(x) /\ IsSequence(y) /\ IsSequence(z) => Associates(x, y, z)
    BY ConcatAny
  <2>. HIDE DEF Associates
  <2>5. /\ Associates(s.variables, v.variables, w.variables)
        /\ Associates(s.constraints, v.constraints, w.constraints)
    BY <2>1, <2>4
  <2>2. (s.variables \o v.variables) \o w.variables = s.variables \o (v.variables \o w.variables)
    BY <2>5 DEF Associates
  <2>3. (s.constraints \o v.constraints) \o w.constraints
          = s.constraints \o (v.constraints \o w.constraints)
    BY <2>5 DEF Associates
  <2>. QED BY <2>2, <2>3
<1>2. Joined(Joined(s, v), w) =
        ProgramRead((s.variables \o v.variables) \o w.variables,
                    (s.constraints \o v.constraints) \o w.constraints, s.ok /\ v.ok /\ w.ok)
  BY DEF Joined, ProgramRead
<1>3. Joined(s, Joined(v, w)) =
        ProgramRead(s.variables \o (v.variables \o w.variables),
                    s.constraints \o (v.constraints \o w.constraints), s.ok /\ v.ok /\ w.ok)
  BY DEF Joined, ProgramRead
<1>. QED BY <1>1, <1>2, <1>3

\* A text that is closed reads, before a keyword, as alone.
TextResumes(a, k) ==
  Closed(a) => ParseProgram(a \o k) = Joined(ParseProgram(a), ParseProgram(k))

\* A text before a keyword has no influence behind it, if shorter ones have none.
LEMMA TextResumesStep ==
  ASSUME NEW k \in Tokens, StartsStatement(k),
         NEW a \in Tokens, \A d \in Tokens : Len(d) < Len(a) => TextResumes(d, k)
  PROVE  TextResumes(a, k)
<1>1. CASE a = <<>>
  <2>1. a \o k = k
    BY <1>1, TokensConcat
  <2>2. ParseProgram(a) = ProgramRead(<<>>, <<>>, TRUE)
    BY <1>1, ProgramEquation
  <2>3. IsRead(ParseProgram(k))
    BY ProgramEquation
  <2>. QED BY <2>1, <2>2, <2>3, JoinedAfterNothing DEF TextResumes
<1>2. CASE a # <<>>
  <2>. DEFINE s == ParseStatement(a)
              later == ParseProgram(s.rest)
  <2>1. SUFFICES ASSUME Closed(a)
                 PROVE  ParseProgram(a \o k) = Joined(ParseProgram(a), ParseProgram(k))
    BY DEF TextResumes
  <2>2. ParseProgram(a) = Joined(s, later)
    BY <1>2, ProgramEquation
  <2>3. s.rest \in Tokens /\ Len(s.rest) < Len(a)
    BY <1>2, StatementShortens
  <2>4. ParseProgram(a).ok => s.ok /\ later.ok
    <3>. HIDE DEF s, later
    <3>1. Joined(s, later).ok = (s.ok /\ later.ok)
      BY DEF Joined, ProgramRead
    <3>. QED BY <2>2, <3>1
  <2>5. StatementResumes(a, k)
    <3>1. s.ok \/ NoConstraint(a)
      BY <2>1, <2>4 DEF Closed
    <3>. QED BY <1>2, <3>1, ClosedStatementResumes
  <2>6. Closed(s.rest)
    BY <2>1, <2>4, <2>5 DEF Closed, StatementResumes
  <2>7. ParseProgram(s.rest \o k) = Joined(later, ParseProgram(k))
    BY <2>3, <2>6 DEF TextResumes
  <2>. DEFINE x == ParseStatement(a \o k)
  <2>8. x = StatementRead(s.variables, s.constraints, s.rest \o k, s.ok)
    BY <2>5 DEF StatementResumes
  <2>9. ParseProgram(a \o k) = Joined(x, ParseProgram(x.rest))
    <3>1. a \o k \in Tokens /\ a \o k # <<>>
      <4>1. Len(a \o k) = Len(a) + Len(k) /\ Len(a) \in Nat /\ Len(k) \in Nat /\ Len(a) # 0
        BY <1>2, TokensConcat, NoLength
      <4>2. Len(a \o k) # 0
        BY <4>1
      <4>. QED BY <4>2, TokensConcat, LongerThanNothing
    <3>. QED BY <3>1, ProgramEquation
  <2>10. IsSequence(s.variables) /\ IsSequence(s.constraints) /\ IsRead(later) /\ IsRead(ParseProgram(k))
    BY <2>3, StatementSequences, ProgramEquation
  <2>. HIDE DEF s, later, x
  <2>11. x.variables = s.variables /\ x.constraints = s.constraints /\ x.rest = s.rest \o k /\ x.ok = s.ok
    BY <2>8 DEF StatementRead
  <2>12. \A w : Joined(x, w) = Joined(s, w)
    BY <2>11 DEF Joined
  <2>13. ParseProgram(a \o k) = Joined(s, Joined(later, ParseProgram(k)))
    BY <2>7, <2>9, <2>11, <2>12
  <2>14. Joined(Joined(s, later), ParseProgram(k)) = Joined(s, Joined(later, ParseProgram(k)))
    BY <2>10, JoinedThrice
  <2>. QED BY <2>2, <2>13, <2>14
<1>. QED BY <1>1, <1>2

\* No text before a keyword has any influence behind it.
LEMMA TextsResume ==
  ASSUME NEW k \in Tokens, StartsStatement(k)
  PROVE  \A a \in Tokens : TextResumes(a, k)
<1>. DEFINE S == { n \in Nat : \A a \in Tokens : Len(a) = n => TextResumes(a, k) }
<1>1. ASSUME NEW n \in Nat, \A m \in Nat : m < n => m \in S PROVE n \in S
  <2>1. ASSUME NEW a \in Tokens, Len(a) = n PROVE TextResumes(a, k)
    <3>1. \A d \in Tokens : Len(d) < Len(a) => TextResumes(d, k)
      BY <1>1, <2>1, NoLength
    <3>. QED BY <3>1, TextResumesStep
  <2>. QED BY <2>1
<1>2. Nat \subseteq S
  <2>. HIDE DEF S
  <2>. QED BY <1>1, Grouping!CompleteInduction
<1>. QED BY <1>2, NoLength

\* After a text that reads without an error, and after one without a
\* constraint, however broken its declarations, the parser reads what stands
\* from a keyword on as if it stood alone.
THEOREM ParserResumes ==
  ASSUME NEW ts \in Tokens, NEW i \in 1..Len(ts)
  PROVE  ResumesAt(ts, i)
<1>. DEFINE a == Part(ts, 1, i - 1)
            k == Part(ts, i, Len(ts))
<1>1. /\ a \in Tokens /\ Len(a) = i - 1 /\ ts[i] \in AnyToken
      /\ k = Cons(ts[i], Part(ts, i + 1, Len(ts))) /\ Part(ts, i + 1, Len(ts)) \in Tokens
      /\ ts = a \o Cons(ts[i], Part(ts, i + 1, Len(ts)))
  BY SplitAt
<1>2. k \in Tokens /\ Peek(k) = ts[i]
  BY <1>1, ConsTokens
<1>3. SUFFICES ASSUME ts[i].type \in StatementKeywords,
                      ParseProgram(a).ok \/ \A j \in 1..i - 1 : ts[j].type # "constraint"
               PROVE  ParseProgram(ts) = Joined(ParseProgram(a), ParseProgram(k))
  BY DEF ResumesAt
<1>4. \A j \in 1..i - 1 : a[j] = ts[j]
  <2>1. Len(ts) \in Nat
    BY NoLength
  <2>2. i \in Int /\ i - 1 \in Int /\ 1 <= 1 /\ i - 1 <= Len(ts) /\ 1 \in Int
    BY <2>1
  <2>3. \A j \in 1..(i - 1) - 1 + 1 : a[j] = ts[1 + j - 1]
    BY <2>2, PartProperties
  <2>. HIDE DEF a
  <2>4. ASSUME NEW j \in 1..i - 1 PROVE a[j] = ts[j]
    <3>1. j \in 1..(i - 1) - 1 + 1 /\ 1 + j - 1 = j
      BY <2>2
    <3>. QED BY <2>3, <3>1
  <2>. QED BY <2>4
<1>5. ts = a \o k
  BY <1>1
<1>. HIDE DEF a, k
<1>6. Closed(a)
  BY <1>1, <1>3, <1>4 DEF Closed, NoConstraint
<1>7. StartsStatement(k)
  BY <1>2, <1>3 DEF StartsStatement
<1>. QED BY <1>1, <1>2, <1>5, <1>6, <1>7, TextsResume DEF TextResumes

-----------------------------------------------------------------------------
(* The text as it is typed.                                                 *)

\* The text is one of those its topic has.
TextOfTopic == \E t \in Topics : text \in t.texts

\* The text is one of its topic's texts.
LEMMA TextStaysInTopic ==
  EntrySpec => []TextOfTopic
<1>1. EntryInit => TextOfTopic
  BY ScannerAssumption DEF EntryInit, TextOfTopic
<1>2. TextOfTopic /\ [EntryNext]_entryVars => TextOfTopic'
  <2>1. ASSUME TextOfTopic, NEW t \in Topics, NEW piece \in t.pieces, TypePiece(t, piece)
        PROVE  TextOfTopic'
    BY <2>1 DEF TypePiece, TextOfTopic
  <2>2. ASSUME TextOfTopic, UNCHANGED entryVars PROVE TextOfTopic'
    BY <2>2 DEF TextOfTopic, entryVars
  <2>. QED BY <2>1, <2>2 DEF EntryNext
<1>. QED BY <1>1, <1>2, PTL DEF EntrySpec

\* So the scanner makes tokens of it.
LEMMA TextScans ==
  ASSUME TextOfTopic
  PROVE  Scan(text).tokens \in Tokens
BY ScannerAssumption DEF TextOfTopic, Tokens

\* Whatever the scanner's tokens, while a user types, the parser accepts exactly
\* the texts of the documented grammar and builds the one tree the grammar
\* gives them (Parser.cpp 75-433).
THEOREM SpecParsesAsGrammar ==
  EntrySpec => []ParsesAsGrammar
<1>1. TextOfTopic => ParsesAsGrammar
  BY TextScans, ParserImplementsGrammar DEF ParsesAsGrammar
<1>. QED BY <1>1, TextStaysInTopic, PTL

\* After a finished text and after any broken declaration the parser resumes at
\* the next keyword and loses nothing of what follows (Parser.cpp 160-205).
THEOREM SpecResumesAtKeyword ==
  EntrySpec => []ResumesAtKeyword
<1>1. TextOfTopic => ResumesAtKeyword
  BY TextScans, ParserResumes DEF ResumesAtKeyword
<1>. QED BY <1>1, TextStaysInTopic, PTL
=============================================================================
