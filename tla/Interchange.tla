----------------------------- MODULE Interchange -----------------------------
(***************************************************************************)
(* A problem on its way through the program: typed as text, handed to the  *)
(* solver, exported to an SMT-LIB 2 file and imported again; or read from  *)
(* a file another tool wrote.  What the handlers do to the window is in    *)
(* Workspace; here it is what they do to the contents.  The scanners and   *)
(* parsers, which work on characters, are parameters: Roundtrip has them.  *)
(***************************************************************************)
EXTENDS SmtLib2

CONSTANTS
  TypedTexts,     \* the texts a user types
  ForeignScripts, \* what the files of other tools say
  Parse(_),       \* the parser: what it makes of a text
  ImportFile(_),  \* what an import makes of a file with this script
  Nothing         \* no problem, no document, no query yet

-----------------------------------------------------------------------------
(* What a text says of a constraint: everything but the widths of literals. *)

\* One node, where `plain` has its operands.
PlainNode(plain, e) ==
  CASE e.node = "Constant"    -> IF e.kind = "BitVec" THEN Integer(e.value) ELSE e
    [] e.node = "VariableRef" -> e
    [] e.node = "Unary"       -> Unary(e.op, plain[e.operand])
    [] e.node = "Binary"      -> Binary(e.op, plain[e.lhs], plain[e.rhs])

Plain(e) == LET plain[t \in Expression] == PlainNode(plain, t) IN plain[e]

WithoutWidths(constraints) == [i \in DOMAIN constraints |-> Plain(constraints[i])]

\* Whether every integer literal is one a text can say: the language has no
\* negative ones, and refuses those beyond the range.
FitsNode(fits, e) ==
  CASE e.node = "Constant"    -> e.kind = "Int" => e.value \in 0..MaxSigned
    [] e.node = "VariableRef" -> TRUE
    [] e.node = "Unary"       -> fits[e.operand]
    [] e.node = "Binary"      -> fits[e.lhs] /\ fits[e.rhs]

LiteralsFit(e) == LET fits[t \in Expression] == FitsNode(fits, t) IN fits[e]

\* The parser builds trees of the kinds of nodes the analyzer knows, from literals
\* in range, and has no widths to give to them.
ASSUME ParserAssumption ==
  \A text \in TypedTexts :
    LET program == Parse(text)
    IN /\ program \in Program
       /\ WithoutWidths(program.constraints) = program.constraints
       /\ \A i \in DOMAIN program.constraints : LiteralsFit(program.constraints[i])

-----------------------------------------------------------------------------

VARIABLES
  problem,    \* the problem typed in the editor, once its text is valid
  source,     \* that text
  document,   \* the script in the .smt2 file
  exported,   \* the problem the file was exported from, if it was
  imported,   \* the problem an import added to the project
  query       \* what the solver was asked

vars == <<problem, source, document, exported, imported, query>>

Contents(p) == [variables |-> p.variables, constraints |-> p.constraints]

Init ==
  /\ problem = Nothing
  /\ source = Nothing
  /\ document = Nothing
  /\ exported = Nothing
  /\ imported = Nothing
  /\ query = Nothing

\* The user types a text; only a valid one becomes contents.
TypeText(text) ==
  /\ problem = Nothing
  /\ document = Nothing
  /\ \E rebuilt \in { RebuildProgram(Parse(text)) } :
       /\ rebuilt.ok
       /\ problem' = Contents(rebuilt)
  /\ source' = text
  /\ UNCHANGED <<document, exported, imported, query>>

\* Z3Solver::solve converts the constraints of its copy of the problem.
Solve ==
  /\ problem # Nothing
  /\ query = Nothing
  /\ query' = [i \in DOMAIN problem.constraints |->
                 Convert(problem.variables, problem.constraints[i])]
  /\ UNCHANGED <<problem, source, document, exported, imported>>

ExportProblem ==
  /\ problem # Nothing
  /\ document = Nothing
  /\ document' = SerializeProblem(problem)
  /\ exported' = problem
  /\ UNCHANGED <<problem, source, imported, query>>

\* A file another tool wrote.
ReceiveDocument(script) ==
  /\ problem = Nothing
  /\ document = Nothing
  /\ document' = script
  /\ UNCHANGED <<problem, source, exported, imported, query>>

\* importSmtLib2: nothing happens unless the file reads and validates.
ImportSmtLib2 ==
  /\ document # Nothing
  /\ imported = Nothing
  /\ \E result \in { ImportFile(document) } :
       /\ result.ok
       /\ imported' = Contents(result)
  /\ UNCHANGED <<problem, source, document, exported, query>>

Next ==
  \/ \E text \in TypedTexts : TypeText(text)
  \/ \E script \in ForeignScripts : ReceiveDocument(script)
  \/ Solve
  \/ ExportProblem
  \/ ImportSmtLib2

Spec == Init /\ [][Next]_vars

-----------------------------------------------------------------------------
(* Properties                                                               *)

\* A problem is what its text says: the analyzer, which rewrites trees to give
\* literals a width, drops no constraint and alters no operator, no name and no
\* value (rebuildProblemFromSource, ProblemParser.cpp 73-110; coerceSide,
\* SemanticAnalyzer.cpp 54-90).
ContentsSaySource ==
  problem # Nothing =>
    LET program == Parse(source)
    IN /\ problem.variables = program.variables
       /\ WithoutWidths(problem.constraints) = program.constraints

\* Whatever the analyzer accepts, the converter turns into well-sorted Boolean
\* terms: Z3 never throws on a problem that validated (SemanticAnalyzer.cpp
\* 118-342 against Z3ExpressionConverter.cpp 69-190).
QueryIsWellSorted ==
  query # Nothing => SortsOf(problem.variables, query) \subseteq {BoolSort}

Asked(p) == { Convert(p.variables, p.constraints[i]) : i \in DOMAIN p.constraints }

\* An exported file says nothing but what the solver is asked: each assertion
\* that SMT-LIB accepts is, function by function, a term the converter makes,
\* and a file it accepts as a whole asserts them all.  The serializer's own
\* inference of sorts picks the same functions as the converter, which asks Z3.
ExportMeansQuery ==
  exported # Nothing =>
    LET stated == AssertedTerms(document)
        accepted == { t \in stated : TermSort(exported.variables, t) = BoolSort }
    IN /\ accepted \subseteq Asked(exported)
       /\ accepted = stated => Asked(exported) = stated
=============================================================================
