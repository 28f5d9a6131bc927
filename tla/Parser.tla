-------------------------------- MODULE Parser --------------------------------
(***************************************************************************)
(* The parser of the workbench language: from the tokens of a text to its  *)
(* statements.  The code keeps a position in the token list; here a reader *)
(* gets the tokens from that position on and returns what it read, the     *)
(* tokens that are left and whether no error was reported.  Messages and   *)
(* locations are left out.                                                 *)
(***************************************************************************)
EXTENDS Tokens

PeekAt(ts, i) == IF i \in DOMAIN ts THEN ts[i] ELSE Lexeme("Eof")
From(ts, i)   == SubSeq(ts, i, Len(ts))

Peek(ts) == PeekAt(ts, 1)

\* advance(): not past the end.
Advance(ts) == IF ts = <<>> THEN ts ELSE Tail(ts)

Parsed(expr, rest, ok) == [expr |-> expr, rest |-> rest, ok |-> ok]

-----------------------------------------------------------------------------
(* Expressions.                                                             *)

OperatorInfo(op, precedence) == [op |-> op, precedence |-> precedence]

OperatorSymbols ==
  {"||", "&&", "==", "!=", "<", "<=", ">", ">=", "&", "|", "^", "<<", ">>", "+", "-", "*", "/", "%"}

BinaryOpFor == [symbol \in OperatorSymbols |->
  CASE symbol = "||" -> OperatorInfo("Or", 1)
    [] symbol = "&&" -> OperatorInfo("And", 2)
    [] symbol = "==" -> OperatorInfo("Eq", 3)
    [] symbol = "!=" -> OperatorInfo("Neq", 3)
    [] symbol = "<"  -> OperatorInfo("Lt", 4)
    [] symbol = "<=" -> OperatorInfo("Le", 4)
    [] symbol = ">"  -> OperatorInfo("Gt", 4)
    [] symbol = ">=" -> OperatorInfo("Ge", 4)
    [] symbol = "&"  -> OperatorInfo("BvAnd", 5)
    [] symbol = "|"  -> OperatorInfo("BvOr", 5)
    [] symbol = "^"  -> OperatorInfo("BvXor", 5)
    [] symbol = "<<" -> OperatorInfo("BvShl", 6)
    [] symbol = ">>" -> OperatorInfo("BvShr", 6)
    [] symbol = "+"  -> OperatorInfo("Add", 7)
    [] symbol = "-"  -> OperatorInfo("Sub", 7)
    [] symbol = "*"  -> OperatorInfo("Mul", 8)
    [] symbol = "/"  -> OperatorInfo("Div", 8)
    [] symbol = "%"  -> OperatorInfo("Rem", 8)]

PrefixPrecedence == 9

UnaryOpFor == [symbol \in {"-", "!", "~"} |->
  CASE symbol = "-" -> "Neg"
    [] symbol = "!" -> "Not"
    [] symbol = "~" -> "BvNot"]

\* Operators of one level that group to the right.
SamePrecedence(info) == info.precedence

\* The least binding power the right operand of an operator may have: one
\* more than its own, which makes every operator left-associative.
RightPrecedence(info) == info.precedence + 1

\* What parseExpression has still to read: an expression, or, in its loop, the
\* operators (with their right operands) that follow a left operand.
Goal(rule, rest, min) == [rule |-> rule, rest |-> rest, min |-> min]
Goals == [rule: {"expression", "operators"}, rest: Seq(AnyToken), min: Nat]

\* parseSigned: a literal beyond the int64 range is an error and reads as 0.
ParseSigned(n, rest) ==
  IF n > MaxSigned THEN Parsed(Integer(0), rest, FALSE) ELSE Parsed(Integer(n), rest, TRUE)

\* After '(' and an expression: match(RParen).
InParentheses(inner) ==
  Parsed(inner.expr,
         IF Peek(inner.rest).type = ")" THEN Advance(inner.rest) ELSE inner.rest,
         inner.ok /\ Peek(inner.rest).type = ")")

\* parsePrimary: an unexpected token is skipped and reads as 0.
ParsePrimary(parse, ts) ==
  LET t == Peek(ts)
      next == Advance(ts)
  IN CASE t.type = "IntLiteral"    -> ParseSigned(NumberOf(t.text), next)
       [] t.type = "RealLiteral"   -> Parsed(RealValue(t.text), next, TRUE)
       [] t.type = "StringLiteral" -> Parsed(StringValue(t.text), next, TRUE)
       [] t.type = "true"          -> Parsed(Boolean(1), next, TRUE)
       [] t.type = "false"         -> Parsed(Boolean(0), next, TRUE)
       [] t.type = "Identifier"    -> Parsed(Variable(t.text), next, TRUE)
       [] t.type = "("             -> InParentheses(parse[Goal("expression", next, 0)])
       [] OTHER                    -> Parsed(Integer(0), next, FALSE)

Prefixed(op, operand) == Parsed(Unary(op, operand.expr), operand.rest, operand.ok)

ParseUnary(parse, ts) ==
  IF Peek(ts).type \in DOMAIN UnaryOpFor
  THEN Prefixed(UnaryOpFor[Peek(ts).type],
                parse[Goal("expression", Advance(ts), PrefixPrecedence)])
  ELSE ParsePrimary(parse, ts)

\* A run of operators with their right operands, and the left operand grouped
\* with them from the left.
RightOperand(op, rhs) == [op |-> op, rhs |-> rhs]
Chain(operands, rest, ok) == [operands |-> operands, rest |-> rest, ok |-> ok]

Grouped(lhs, operands) ==
  LET tree[n \in Nat] ==
        IF n = 0 THEN lhs ELSE Binary(operands[n].op, tree[n - 1], operands[n].rhs)
  IN tree[Len(operands)]

\* One operator of the loop in parseExpression, its right operand and the rest
\* of the loop.
ParseOperator(parse, info, ts, min) ==
  LET rhs == parse[Goal("expression", ts, RightPrecedence(info))]
      later == parse[Goal("operators", rhs.rest, min)]
  IN Chain(<< RightOperand(info.op, rhs.expr) >> \o later.operands, later.rest, rhs.ok /\ later.ok)

\* The loop of parseExpression, entered with the left operand read.
ParseOperators(parse, ts, min) ==
  IF /\ Peek(ts).type \in DOMAIN BinaryOpFor
     /\ BinaryOpFor[Peek(ts).type].precedence >= min
  THEN ParseOperator(parse, BinaryOpFor[Peek(ts).type], Advance(ts), min)
  ELSE Chain(<<>>, ts, TRUE)

ParseOperands(parse, ts, min) ==
  LET lhs == ParseUnary(parse, ts)
      chain == parse[Goal("operators", lhs.rest, min)]
  IN Parsed(Grouped(lhs.expr, chain.operands), chain.rest, lhs.ok /\ chain.ok)

ParseStep(parse, goal) ==
  IF goal.rule = "expression" THEN ParseOperands(parse, goal.rest, goal.min)
  ELSE ParseOperators(parse, goal.rest, goal.min)

ParseExpression(ts, min) ==
  LET parse[goal \in Goals] == ParseStep(parse, goal)
  IN parse[Goal("expression", ts, min)]

-----------------------------------------------------------------------------
(* Statements.                                                              *)

StatementKeywords == {"var", "constraint"}

\* A recovery that also skips the keyword it finds.
SynchronizePast(ts) ==
  LET skip[s \in Seq(AnyToken)] ==
        IF Peek(s).type \in StatementKeywords \union {"Eof"} THEN Advance(s) ELSE skip[Tail(s)]
  IN skip[ts]

\* synchronize(): the next statement keyword, or the end.
Synchronize(ts) ==
  LET skip[s \in Seq(AnyToken)] ==
        IF Peek(s).type \in StatementKeywords \union {"Eof"} THEN s ELSE skip[Tail(s)]
  IN skip[ts]

TypeRead(sort, rest, ok) == [sort |-> sort, rest |-> rest, ok |-> ok]

\* parseType
ParseType(ts) ==
  LET TypeAt(i) == PeekAt(ts, i).type
      width == NumberOf(PeekAt(ts, 3).text)
  IN CASE TypeAt(1) \in {"Bool", "Int", "Real", "String"} ->
            TypeRead(Sort(TypeAt(1), 0), From(ts, 2), TRUE)
       [] /\ TypeAt(1) = "BitVec"
          /\ TypeAt(2) = "("
          /\ TypeAt(3) = "IntLiteral"
          /\ width \in 1..WordBits
          /\ TypeAt(4) = ")" ->
            TypeRead(BitVecSort(width), From(ts, 5), TRUE)
       [] OTHER -> TypeRead(IntSort, ts, FALSE)

StatementRead(variables, constraints, rest, ok) ==
  [variables |-> variables, constraints |-> constraints, rest |-> rest, ok |-> ok]

\* parseVarDecl: a broken declaration is dropped and the parser skips to the
\* next statement.  No token it can have read by then is a keyword of one.
ParseVarDecl(ts) ==
  LET type == ParseType(From(ts, 4))
  IN IF /\ PeekAt(ts, 2).type = "Identifier"
        /\ PeekAt(ts, 3).type = ":"
        /\ type.ok
     THEN StatementRead(<< [name |-> PeekAt(ts, 2).text, sort |-> type.sort] >>, <<>>,
                        type.rest, TRUE)
     ELSE StatementRead(<<>>, <<>>, Synchronize(Advance(ts)), FALSE)

\* parseConstraintDecl keeps what parseExpression made, errors or not.
ParseConstraintDecl(ts) ==
  LET expr == ParseExpression(Advance(ts), 0)
  IN StatementRead(<<>>, << expr.expr >>, expr.rest, expr.ok)

ParseStatement(ts) ==
  CASE Peek(ts).type = "var"        -> ParseVarDecl(ts)
    [] Peek(ts).type = "constraint" -> ParseConstraintDecl(ts)
    [] OTHER                        -> StatementRead(<<>>, <<>>, Synchronize(ts), FALSE)

ProgramRead(variables, constraints, ok) ==
  [variables |-> variables, constraints |-> constraints, ok |-> ok]

\* What two texts read one after the other give.
Joined(first, later) ==
  ProgramRead(first.variables \o later.variables, first.constraints \o later.constraints,
              first.ok /\ later.ok)

\* After a statement; one that read nothing is stepped over.
AfterStatement(ts, first) == IF first.rest = ts THEN Advance(ts) ELSE first.rest

ProgramStep(program, ts) ==
  IF ts = <<>> THEN ProgramRead(<<>>, <<>>, TRUE)
  ELSE Joined(ParseStatement(ts), program[AfterStatement(ts, ParseStatement(ts))])

\* parse(): the declarations and the constraints in their order.
ParseProgram(ts) ==
  LET program[s \in Seq(AnyToken)] == ProgramStep(program, s) IN program[ts]
=============================================================================
