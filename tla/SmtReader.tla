------------------------------ MODULE SmtReader ------------------------------
(***************************************************************************)
(* SmtLib2Reader: from the characters of an SMT-LIB 2 file to a problem,   *)
(* and the import that prints what was read as workbench text and rebuilds *)
(* the problem from it.  The reader stops at its first error.              *)
(***************************************************************************)
EXTENDS SmtSyntax, Semantics

-----------------------------------------------------------------------------
(* Lexer::next.  A token is "(", ")", a symbol, a numeral or a string.      *)

SymbolCharacter == IdentifierPart \union Characters("-.#/*+<>=")

\* skipSpaces: blanks and comments.
RECURSIVE SkipSpaces(_, _)
SkipSpaces(s, i) ==
  CASE At(s, i) \in Blank -> SkipSpaces(s, i + 1)
    [] At(s, i) = ";"     -> SkipSpaces(s, LineEnd(s, i))
    [] OTHER              -> i

\* A lexeme with a digit or "#x" in front is a numeral, whatever follows.
SmtWord(text) ==
  Token(IF At(text, 1) \in Digit \/ Pair(text, 1) = "#x" THEN "Numeral" ELSE "Symbol", text)

\* lexString: a doubled quote stands for one; a string that does not end
\* becomes a symbol.
RECURSIVE ScanSmtString(_, _, _)
ScanSmtString(s, i, value) ==
  CASE i > Len(s)           -> Scanned(<<Token("Symbol", "unterminated string: " \o value)>>, i, TRUE)
    [] Pair(s, i) = "\"\""  -> ScanSmtString(s, i + 2, value \o "\"")
    [] At(s, i) = "\""      -> Scanned(<<Token("String", value)>>, i + 1, TRUE)
    [] OTHER                -> ScanSmtString(s, i + 1, value \o At(s, i))

ScanSmtWord(s, i, end) == Scanned(<<SmtWord(SubSeq(s, i, end - 1))>>, end, TRUE)

\* An unknown character makes a symbol of its own.
ScanSmtToken(s, i) ==
  CASE At(s, i) \in {"(", ")"}      -> Scanned(<<Lexeme(At(s, i))>>, i + 1, TRUE)
    [] At(s, i) = "\""              -> ScanSmtString(s, i + 1, "")
    [] At(s, i) \in SymbolCharacter -> ScanSmtWord(s, i, After(s, i, SymbolCharacter))
    [] OTHER                        -> Scanned(<<Token("Symbol", At(s, i))>>, i + 1, TRUE)

RECURSIVE ScanSmtFrom(_, _)
ScanSmtFrom(s, read) ==
  LET i == SkipSpaces(s, read.pos)
  IN IF i > Len(s) THEN read.tokens
     ELSE ScanSmtFrom(s, AfterToken(read, ScanSmtToken(s, i)))

SmtLex(s) == ScanSmtFrom(s, Scanned(<<>>, 1, TRUE))

TypeAt(ts, pos) == PeekAt(ts, pos).type

\* What was read at a position, and the position after it.
ReadTo(expr, pos, ok) == [expr |-> expr, pos |-> pos, ok |-> ok]

IsSymbol(ts, pos, text) == PeekAt(ts, pos) = Token("Symbol", text)

-----------------------------------------------------------------------------
(* Numbers.                                                                 *)

\* strtoull on decimal digits: it stops at the first other character, and at
\* the largest number it can return.  The sign (and, in hexadecimal, a second
\* "0x") it would also take in front of the digits is left out.
LeadingNumber(text, largest) ==
  LET n == ValueOf(SubSeq(text, 1, After(text, 1, Digit) - 1), 10)
  IN IF n > largest THEN largest ELSE n

\* Hexadecimal digits: four bits a character; a literal without digits or wider
\* than a word reads as the integer 0.
ReadHex(digits) ==
  IF 4 * Len(digits) \in 1..WordBits
  THEN BitVector(ValueOf(SubSeq(digits, 1, After(digits, 1, HexDigit) - 1), 16), 4 * Len(digits))
  ELSE Integer(0)

\* parseNumeral
ReadNumeral(text) ==
  IF Pair(text, 1) = "#x" THEN ReadHex(SubSeq(text, 3, Len(text)))
  ELSE IF Characters(text) \intersect {".", "/"} # {} THEN RealValue(text)
  ELSE Integer(LeadingNumber(text, MaxSigned))

-----------------------------------------------------------------------------
(* parseExpr                                                                *)

Unreadable(pos) == ReadTo(Integer(0), pos, FALSE)

\* What was read up to a closing parenthesis.
Closed(ts, read) ==
  IF read.ok /\ TypeAt(ts, read.pos) = ")" THEN [read EXCEPT !.pos = @ + 1]
  ELSE Unreadable(read.pos)

\* "(_ bvN W)", from the token after "_".
ReadIndexed(ts, pos) ==
  LET width == LeadingNumber(PeekAt(ts, pos + 1).text, MaxUnsigned)
      literal == PeekAt(ts, pos).text
  IN IF Pair(literal, 1) = "bv" /\ TypeAt(ts, pos + 1) = "Numeral" /\ width \in 1..WordBits
     THEN ReadTo(BitVector(LeadingNumber(SubSeq(literal, 3, Len(literal)), MaxUnsigned), width),
                 pos + 2, TRUE)
     ELSE Unreadable(pos)

\* A table that takes bvneg for the complement.
ReaderUnaryComplement ==
  "not" :> "Not" @@ "-" :> "Neg" @@ "bvneg" :> "BvNot" @@ "bvnot" :> "BvNot"

\* The heads read as unary, which are tried before the table of binary ones.
ReaderUnary == "not" :> "Not" @@ "-" :> "Neg" @@ "bvneg" :> "Neg" @@ "bvnot" :> "BvNot"

\* s_mapBinary
ReaderBinary ==
     "and" :> "And"     @@ "or" :> "Or"       @@ "=" :> "Eq"       @@ "distinct" :> "Neq"
  @@ "<" :> "Lt"        @@ "<=" :> "Le"       @@ ">" :> "Gt"       @@ ">=" :> "Ge"
  @@ "+" :> "Add"       @@ "-" :> "Sub"       @@ "*" :> "Mul"      @@ "/" :> "Div"
  @@ "div" :> "Div"     @@ "mod" :> "Rem"     @@ "bvand" :> "BvAnd" @@ "bvor" :> "BvOr"
  @@ "bvxor" :> "BvXor" @@ "bvshl" :> "BvShl" @@ "bvlshr" :> "BvShr"
  @@ "bvudiv" :> "Div"  @@ "bvurem" :> "Rem"

\* A table that confuses the two shifts.
ReaderOpSwapped(f) == IF f = "bvlshr" THEN "BvShl" ELSE ReaderBinary[f]

ReaderOp(f) == ReaderBinary[f]

RECURSIVE ReadExpr(_, _)

ReadUnary(op, operand) == [operand EXCEPT !.expr = Unary(op, operand.expr)]

\* The right operand follows the left one.
ReadBinary(ts, op, left) ==
  IF ~ left.ok THEN left
  ELSE LET right == ReadExpr(ts, left.pos)
       IN [right EXCEPT !.expr = Binary(op, left.expr, right.expr)]

\* Operator and operands; exactly two where ')' is expected next.
ReadCompound(ts, pos, head) ==
  CASE TypeAt(ts, pos) # "Symbol"   -> Unreadable(pos)
    [] head = "_"                   -> ReadIndexed(ts, pos + 1)
    [] head \in DOMAIN ReaderUnary  -> ReadUnary(ReaderUnary[head], ReadExpr(ts, pos + 1))
    [] OTHER                        -> IF head \in DOMAIN ReaderBinary
                                       THEN ReadBinary(ts, ReaderOp(head), ReadExpr(ts, pos + 1))
                                       ELSE Unreadable(pos)

ReadSymbol(text) ==
  IF text \in {"true", "false"} THEN Boolean(IF text = "true" THEN 1 ELSE 0) ELSE Variable(text)

ReadExpr(ts, pos) ==
  LET t == PeekAt(ts, pos)
  IN CASE t.type = "Numeral" -> ReadTo(ReadNumeral(t.text), pos + 1, TRUE)
       [] t.type = "String"  -> ReadTo(StringValue(t.text), pos + 1, TRUE)
       [] t.type = "Symbol"  -> ReadTo(ReadSymbol(t.text), pos + 1, TRUE)
       [] t.type = "("       -> Closed(ts, ReadCompound(ts, pos + 1, PeekAt(ts, pos + 1).text))
       [] OTHER              -> Unreadable(pos)

-----------------------------------------------------------------------------
(* parseCommand and run                                                     *)

\* parseSort: the sort at pos and the position after it.
ReadSort(ts, pos) ==
  LET width == LeadingNumber(PeekAt(ts, pos + 3).text, MaxUnsigned)
  IN CASE /\ TypeAt(ts, pos) = "Symbol"
          /\ PeekAt(ts, pos).text \in {"Bool", "Int", "Real", "String"} ->
            [sort |-> Sort(PeekAt(ts, pos).text, 0), pos |-> pos + 1, ok |-> TRUE]
       [] /\ TypeAt(ts, pos) = "("
          /\ IsSymbol(ts, pos + 1, "_")
          /\ IsSymbol(ts, pos + 2, "BitVec")
          /\ TypeAt(ts, pos + 3) = "Numeral"
          /\ width \in 1..WordBits
          /\ TypeAt(ts, pos + 4) = ")" ->
            [sort |-> BitVecSort(width), pos |-> pos + 5, ok |-> TRUE]
       [] OTHER -> [sort |-> IntSort, pos |-> pos, ok |-> FALSE]

IsValidVariableName(name) ==
  At(name, 1) \in IdentifierStart /\ Characters(name) \subseteq IdentifierPart

\* Problem::addVariable refuses a name twice, and what is not an identifier.
CanAddVariable(p, name) == IsValidVariableName(name) /\ name \notin DeclaredNames(p.variables)

\* What was read of the file: the problem so far.
Unread(p, pos) == [p EXCEPT !.pos = pos, !.ok = FALSE]

ReadDeclareConst(ts, pos, p) ==
  LET sort == ReadSort(ts, pos + 1)
      name == PeekAt(ts, pos).text
  IN IF /\ TypeAt(ts, pos) = "Symbol"
        /\ sort.ok
        /\ CanAddVariable(p, name)
        /\ TypeAt(ts, sort.pos) = ")"
     THEN [p EXCEPT !.variables = Append(@, [name |-> name, sort |-> sort.sort]),
                    !.pos = sort.pos + 1]
     ELSE Unread(p, pos)

ReadAssert(p, read) ==
  IF read.ok THEN [p EXCEPT !.constraints = Append(@, read.expr), !.pos = read.pos]
  ELSE Unread(p, read.pos)

\* skipList: to the parenthesis that closes `depth` open ones, or the end.
RECURSIVE SkipList(_, _, _)
SkipList(ts, pos, depth) ==
  IF depth = 0 \/ pos > Len(ts) THEN pos
  ELSE SkipList(ts, pos + 1, CASE TypeAt(ts, pos) = "(" -> depth + 1
                               [] TypeAt(ts, pos) = ")" -> depth - 1
                               [] OTHER                 -> depth)

\* The command whose name stands at pos; all but two commands are skipped.
ReadCommand(ts, pos, p) ==
  CASE TypeAt(ts, pos) # "Symbol"          -> Unread(p, pos)
    [] IsSymbol(ts, pos, "declare-const")  -> ReadDeclareConst(ts, pos + 1, p)
    [] IsSymbol(ts, pos, "assert")         -> ReadAssert(p, Closed(ts, ReadExpr(ts, pos + 1)))
    [] OTHER                               -> [p EXCEPT !.pos = SkipList(ts, pos + 1, 1)]

RECURSIVE ReadCommands(_, _)
ReadCommands(ts, p) ==
  CASE ~ p.ok \/ p.pos > Len(ts)  -> p
    [] TypeAt(ts, p.pos) = "("    -> ReadCommands(ts, ReadCommand(ts, p.pos + 1, p))
    [] OTHER                      -> Unread(p, p.pos)

\* SmtLib2Reader::read
ReadProblem(text) ==
  ReadCommands(SmtLex(text), [variables |-> <<>>, constraints |-> <<>>, pos |-> 1, ok |-> TRUE])

-----------------------------------------------------------------------------
(* importSmtLib2: read, print as workbench text, rebuild from that text.    *)

RebuildRead(read) == IF read.ok THEN RebuildProblem(PrintProblem(read)) ELSE NotRebuilt

Imported(text) == RebuildRead(ReadProblem(text))
=============================================================================
