------------------------------ MODULE Roundtrip ------------------------------
(***************************************************************************)
(* Interchange with the parser and the reader of the code, which gives its *)
(* operator parameters their values: a text through the scanner and parser *)
(* of the workbench language, a file through those of SMT-LIB 2.           *)
(***************************************************************************)
EXTENDS PrintedTokens, SmtReader, SmtMeaning

\* The conversions std::to_string and "0x%llX".
DecimalText(n) == ToString(n)
PrefixedHex(n) == "0x" \o HexText(n)

\* importSmtLib2 reads the characters of the file.
ImportScript(script) == Imported(WriteScript(script))

-----------------------------------------------------------------------------
(* Properties                                                               *)

\* A reading of one variable of a sort: few values of the unbounded sorts,
\* every value of the bounded ones.
SortValues(sort) ==
  CASE sort = BoolSort       -> 0..1
    [] IsBitVecSort(sort)    -> 0..(2 ^ sort.width - 1)
    [] OTHER                 -> 0..2

Assignments(vs, names) ==
  { a \in [names -> 0..MaxUnsigned] :
      \A name \in names : a[name] \in SortValues(SortOfVariable(vs, name)) }

\* Two terms mean the same: they agree under every assignment.
SameMeaning(vs, s, t) ==
  \A a \in Assignments(vs, FreeSymbols(s) \union FreeSymbols(t)) :
    TermValue(vs, a, s) = TermValue(vs, a, t)

\* Printing a validated problem and rebuilding it gives the same problem:
\* parentheses, widths of constants and literals survive
\* (DslPrinter.cpp, SmtLib2Test.cpp:105 "re-parses to identical expressions").
PrintRebuildsProblem ==
  problem # Nothing => Contents(RebuildProblem(PrintProblem(problem))) = problem

\* The scanner makes of the printed text the tokens the printer means: names,
\* numbers in both bases, reals and strings with escapes come back as they were
\* (DslPrinter.cpp 9-140 against Lexer.cpp 36-490).
PrintsTokens ==
  problem # Nothing =>
    LET scanned == Lex(PrintProblem(problem))
    IN scanned.ok /\ scanned.tokens = PrintedProblem(problem)

\* Importing an exported file either fails or gives back the very problem:
\* reader, printer, parser and analyzer together never alter a constraint.
ImportRestoresExport ==
  (exported # Nothing /\ imported # Nothing) => imported = exported

\* Every function in the term has a variable below it.  The width of a literal
\* is not part of the printed text: where only literals meet, nothing restores
\* it, and "(= (bvneg (_ bv1 2)) (_ bv3 2))" comes back as -1 == 3.
RECURSIVE Anchored(_)
Anchored(t) ==
  t.args # <<>> => /\ FreeSymbols(t) # {}
                   /\ \A i \in DOMAIN t.args : Anchored(t.args[i])

\* A file of another tool is refused or becomes a problem that asks the solver
\* what the file says, if the file is well-sorted and anchored
\* (SmtLib2Reader.cpp 395-582, importSmtLib2 at WorkspaceViewModel.cpp 421-429:
\* "so the problem becomes identical to a hand-typed one").
ImportKeepsMeaning ==
  imported # Nothing =>
    /\ DOMAIN imported.constraints = DOMAIN Asserted(document)
    /\ \A i \in DOMAIN imported.constraints :
         LET term == Asserted(document)[i]
         IN (TermSort(Declared(document), term) = BoolSort /\ Anchored(term)) =>
              SameMeaning(Declared(document), term,
                          Convert(imported.variables, imported.constraints[i]))

\* Documentation.md, 9: "Unsupported constructs (quantifiers, uninterpreted
\* functions, arrays) are reported"; the comment at SmtLib2Reader.cpp 417: "unknown
\* names are rejected later by the normal validation pipeline".  So a problem that
\* was imported names what the file names.
ImportKeepsNames ==
  imported # Nothing =>
    UNION { FreeSymbols(Asserted(document)[i]) : i \in DOMAIN Asserted(document) }
      \subseteq DeclaredNames(imported.variables)

\* ARCHITECTURE.md: "The reader accepts the exporter's subset."
ReaderAcceptsExports ==
  exported # Nothing => ReadProblem(WriteScript(document)).ok

\* SmtLib2Serializer.hpp: "the output is portable across solver backends".
ExportIsPortable ==
  exported # Nothing =>
    SortsOf(exported.variables, Asserted(document)) \subseteq {BoolSort}
=============================================================================
