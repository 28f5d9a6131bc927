# Z3 Workbench: a TLA+ model

Z3 Workbench is a desktop program: a user edits constraint problems in a small
language (the DSL), a background thread hands them to Z3, and the answer comes
back to the window. This directory models the two parts of it that are hard to get
right by testing: the meeting of the window, the worker thread and the project files
on disk; and the translations of a constraint between characters, tree, Z3 query and
SMT-LIB 2 file, which must all mean the same. Paths below are relative to the repository.

## 1. Inventory of the system

| Part | Code | State it keeps | Operations | What makes it correct |
|---|---|---|---|---|
| View model | `src/gui/viewmodels/WorkspaceViewModel.*` | project, selected id, editor state, status, busy, request number, token, dirty mark, project path | about twenty handlers called from QML, and the queued slot `onSolveFinished` | handlers leave project, editor, panels and status consistent in every order; a verdict belongs to the text beside it; busy ends |
| Worker | `src/gui/threading/SolverWorker.*` | its thread's event queue, the job it is in | `doSolve`, `solveFinished` | exactly one answer for a job, nothing shared but the cancellation flag |
| Cancellation | `src/core/solver/AtomicCancellation.hpp` | one atomic flag per request | `cancel`, `isCancelled` | a stop concerns its own request only |
| Backend | `src/core/solver/z3/Z3Solver.cpp` | none between calls | `solve`, `toSmtLib2` | a cancelled job still gets its answer; a model comes with SAT only |
| Domain | `src/core/domain/*` | problems in order, each with id, name, text, variables, constraints; a process-wide id counter | add, adopt, find, remove, rename, duplicate, reset contents | ids and names unique; ids never reused |
| Parser pipeline | `src/core/parser/*` | none | lex, parse, analyse, rebuild a problem | a problem is replaced as a whole or not at all |
| Project storage | `src/core/serialization/JsonProjectStorage.cpp` | the file | `save`, `load` | what is saved loads back; a refused load changes nothing |
| Export, SMT-LIB2 | `src/core/serialization/*`, `src/core/parser/DslPrinter.cpp` | none | print, serialise, read | written text means the same when read |
| Highlighter | `src/gui/highlighting/DslHighlighter.cpp` | one number per line | `highlightBlock` | a line is coloured as a comment just when the scanner skips it |
| Recent projects | `WorkspaceViewModel.cpp` 157-319, `src/qml/Main.qml` | a list of paths in the settings, beyond the end of a session | open, save, open recent | the paths used last, each once |
| Panels | `src/qml/**` | rows shown, text shown, highlighted row | clicks and key strokes | rows shown are the rows acted on |

Interactions. QML calls the view model on the GUI thread, one handler at a time
and each to its end. `solve()` posts a `SolveJob` (a copy of the problem and a
shared pointer to a cancellation flag) to the worker's queue; the worker posts a
`SolveJobResult` back to the GUI thread's queue. `stop()` sets the flag from the
GUI thread. Open, save, export and import run on the GUI thread and refuse to run
while busy; editing and managing problems is allowed while busy. The destructor
of the view model stops the worker's event loop and waits for it.

The hard behaviours: a result that arrives after the selection or the text has
changed; a stop that comes before, during or after the worker reads the flag;
closing during a check; contents of a problem that lag behind its text; rows and
a selection left over from a project that was replaced; saves that fail or die half
way; texts that are unfinished when they are parsed; and every place where two pieces
of code know the same table (printer and scanner, serializer and reader, analyzer and
converter, scanner and highlighter). `PROJECT.json` lists each hazard at its line.

## 2. Modules

| Module | Models |
|---|---|
| `Project` | The domain layer as operators on a sequence of problems: ids, names, texts, contents, unique names, adopting, duplicating, removing, renaming, rebuilding from a text, and the stored form of a project. |
| `Workspace` | The program at run time. EXTENDS `Project`. One action per handler of the view model, two steps of the worker, the queues, the file, the panels' own state, shutdown. |
| `SolveSession` | The abstract promise: requests one at a time, each answered once while the window is open, a stop concerns the pending request only. |
| `EditHistory` | `Workspace` with a history variable: whether the text being solved was edited meanwhile. |
| `ProjectFiles` | All the project files and the list of recent projects, across sessions: opens, saves, failing saves, crashes, files that disappear. |
| `Lexer` | The DSL scanner, from characters to tokens. |
| `Expressions` | Sorts, variables and expression trees, the operators' symbols, machine words. |
| `Tokens` | The tokens of the DSL. |
| `Parser` | The parser, from tokens to statements: precedence climbing, types, declarations, recovery. |
| `Dsl` | The printer, from trees to characters, and the spelling of numbers. |
| `PrintedTokens` | The printer again, from a problem to the tokens it means, and what the parser and `Typing` make of them. EXTENDS `Interchange` and `Parser`. |
| `Highlighter` | The state the highlighter hands from line to line. |
| `Typing` | Trees of bounded depth; the typing rules of the analyzer, literal adaptation, the part of rebuilding a problem that comes after the parser. |
| `Semantics` | Rebuilding a problem from a text: scanner, parser and `Typing` in one. |
| `SmtTerms` | SMT-LIB terms and scripts and the sorts of terms (the standard's and Z3's, so external). |
| `SmtLib2` | The Z3 converter and the serializer, from trees to terms. |
| `Interchange` | A problem's way through the program, a state machine over the translators. The parser and the import are parameters. |
| `SmtSyntax`, `SmtMeaning` | The characters of a script; the values of terms (external). |
| `SmtReader` | The reader, from the characters of a file to a problem, and what an import does to its result. |
| `Roundtrip` | `Interchange` with the parser and the reader of the code, and the properties that need them. |
| `Syntax` | The documented grammar, as the sets of trees and of programs a sequence of tokens derives: the reference for the parser. |
| `TextEntry` | A text typed piece by piece, and parsed after every piece. The scanner is a parameter. |
| `Grammar` | `TextEntry` with the documented lexemes as the reference for the scanner, and the scanner as the reference for the highlighter. |
| `MCWorkspace`, `MCHistory`, `MCProjectFiles`, `MCGrammar`, `MCInterchange` | Values for TLC. |
| `WorkspaceProofs`, `EditorProofs`, `FilesProofs`, `TranslationProofs`, `ParserProofs`, `PrinterProofs` | The proofs, section 4. |
| `Recursion`, `Trees` | Recursive functions and trees in general, for the proofs: a recursive function satisfies its equation, and induction over levels. |

The two halves meet in the text. `Workspace` only needs to know whether a text
parses and whether it has a solution, and takes both as constants; `Semantics`
and `Parser` say which texts parse and into what. `Workspace` and `ProjectFiles` meet in
the file: the first has one file and all handlers, the second all files and only the
handlers that reach them.

### How the state corresponds to the code

| Variable of `Workspace` | Code |
|---|---|
| `problems`, `lastId` | `m_oProject`, the counter in `Ids.cpp` (it also numbers variables and constraints; only the order of problem ids matters here, so they are consecutive) |
| `current` | `m_oCurrentId`, 0 for the invalid id |
| `editor` | `m_oEditor`: `bValid`, whether `vecDiags` is empty, `oProblem` |
| `view`, `explorer` | the text in the QML `TextArea`, the rows of `m_oProblemsModel` |
| `panel`, `status` | `m_oVariablesModel` (whose variables, whose model values), `m_strResultStatus` |
| `busy`, `lastRequest`, `token`, `armed` | `m_bBusy`, `m_uNextRequestId`, `m_spCancellation`, the flags that are set |
| `requests`, `worker`, `results` | the two event queues and the job inside `check()` |
| `dirty`, `file` | `m_bDirty`, what the file at `m_strProjectPath` holds |
| `phase` | open, closing (inside the destructor), exited |

A text is a value with two attributes the rest of the program can observe,
whether it parses (`ValidTexts`) and whether its constraints have a solution
(`SatTexts`). The contents parsed from a text are named by that text, so
"contents older than the text" is visible as two different values. Z3 is trusted
to be sound but may answer UNKNOWN or fail (`Answers`). Values of a model are
named by the text they solve; a value is shown beside any variables, while the
code looks each up by its name, so the model shows stale values at least as often.

GUI handlers are atomic because the Qt event loop runs one at a time. The worker
takes a job in one step (`WorkerBegin`, which reads the flag) and answers in
another (`WorkerFinish`), so that every handler can run during `check()`.
Handlers that are refused and change nothing are not actions. An open that is refused half way
is one (`OpenRefused`): the problems it had built are dropped, and the ids they took are gone. `createProblem`
really may skip the re-parse (the early return of `setEditorText`), `solve`,
`exportProblem` and the rest really re-parse, and the model does the same.

`disturbed` of `EditHistory` is no state of the program. It becomes true when a step
replaces the text of the problem whose job is on its way, and false again with the
next request for a problem of the project.

| Variable of `ProjectFiles` | Code |
|---|---|
| `disk` | the files, by path; a path is a name and a suffix, because `saveProjectAs` looks at the suffix |
| `recents` | `recentProjects` in the `QSettings` |
| `project`, `projectPath`, `dirty`, `busy` | `m_oProject`, `m_strProjectPath`, `m_bDirty`, `m_bBusy` |
| `uses`, `lastUse` | history: when each path was last opened or saved |

A save can fail before or after it truncates the file. A process can die inside a save
with the file torn, or with the file written and the list of recent projects not yet;
the next session starts with a new project on that disk and that list. A file with a
text that does not parse, or with a name twice, can be written and never loads.

### How the language modules correspond to the code

A text is a TLA+ string and is read character by character. The scanners
and the reader are functions from a position to what was read and the next position, as
the methods are that move `m_uPos`. The parser works on tokens; where the code has a position in
its list, the model has the tokens from there on (`rest`), and a method is a function from these to
what it read, what it left and whether it objected. `parseExpression` and its loop, which call each
other and themselves, are one recursive function on `Goals`: the tokens left, what is to be
read (a whole expression, or the operators behind a left operand) and the binding power
asked for. The analyzer returns the type and whether a diagnostic
was raised; a translator returns a term, with a failure where the code returns an error.
Messages and locations are left out: an error is `ok = FALSE`. `WordBits` stands for
64: the largest signed and unsigned integers, the largest bit-vector width and the range
checks of the parser and the reader are all derived from it.

The analyzer, the converter and the serializer are recursive functions on trees:
`Expression` has the trees with at most `MaxDepth` operators above a leaf, and each
translator is split into what it does at one node (`Resolution`, `Conversion`,
`Serialization`, `InfersBitVec`, `InfersReal`, and `Sorting` for Z3's own sorts) and the function
that applies it throughout. Each looks at the operands only, as the code's recursion does.
The program has no bound on the depth of a tree; `MaxDepth` is any natural number.

The state of `Interchange` is what survives between handlers: the edited problem, its
text (`source`, the `m_strSource` that `resetContents` sets with the contents),
the file, the problem it was exported from, the imported problem, the last query. The
variable `document` keeps the file as a tree of terms, so that its meaning can be
stated. What a parser makes of a text and an import of a file are the operator parameters
`Parse` and `ImportFile`: what is proved holds for every parser that yields trees of
the right kinds, and the configurations give `ParseSource` and `ImportScript`, which read
what is typed, and what `WriteScript` makes of the file, character by character. A
foreign file is written in the same layout.

The state of `TextEntry` is the text; scanner, parser and highlighter run on each, as they do on
every edit. The scanner (`Scan`) and the number that digits stand for (`NumberOf` in `Tokens`) are
operator parameters: what is proved of the parser holds whatever they are, and `grammar` gives
`Lex` and `SpelledNumber`, which read characters.

## 3. Runs

The first six use module `MCWorkspace`, `files` with `EditHistory` beside it; they check
for deadlock, the program's only end being `Exited`. The runs of the languages switch the
deadlock check off, because there each behaviour follows one problem or one text to its end.

| Run | Checks | Result |
|---|---|---|
| `session` | `OneJobInFlight`, `JobsAreChecked`, `EditorInSync`, `IdsAndNamesUnique`, `VerdictDropsWithText`, `IdsNeverReturn`, `BusyEnds`, `CloseEnds`, `ImplementsSession` | hold under the fairness below, for every handler |
| `files` | `TypeOK`, `CleanMeansSaved`, `EditorInSync`, `JobsAreChecked`, `VerdictFitsUndisturbed`, `IdsNeverReturn` | hold with other projects opened, and refused half way, between edits and solves |
| `open_explorer` | `ExplorerListsProject` | violated: after File/Open the explorer keeps the old rows |
| `edit_while_solving` | `ErrorsShowInvalid` | violated: a late verdict replaces INVALID |
| `idle_status` | `SolvingMeansBusy` | violated: a discarded result leaves Solving or Cancelling on an idle window |
| `last_valid` | `KeepsLastValidState` | violated: breaking a text brings back older contents than the last valid ones |
| `grammar` | `LexesAsDocumented`, `ParsesAsGrammar`, `ResumesAtKeyword`, `BlockStatesFollowComments` | hold for every text of the pieces below, unfinished ones included |
| `interchange` | `ContentsSaySource`, `QueryIsWellSorted`, `PrintRebuildsProblem`, `PrintsTokens`, `PrintedRebuildsProblem`, `ExportMeansQuery`, `ImportRestoresExport`, `ImportKeepsMeaning` | hold for the texts and scripts below |
| `recents` | `RecentsAreLastUsed`, `WindowFitsItsFile` | hold over several sessions, failing saves and crashes |
| `reader_accepts` | `ReaderAcceptsExports` | violated: the reader refuses exported subtractions and BitVec comparisons |
| `portable` | `ExportIsPortable` | violated: BitVec sums are exported with the arithmetic functions |
| `odd_names` | `ImportKeepsNames` | violated: an undeclared symbol `a-b` comes back as an expression over `a` and `b` |

Bounds of the workbench. Two rows are enough for "the selected problem and another one",
which is all any handler distinguishes; two requests are enough for a late answer to meet
a second solve. `MaxId`, `MaxRows` and `MaxRequest` are guards of the actions that use
them up. `session` has every input except other projects: two ids, a text that does not
parse and the one the starter has, so that a problem can be broken, mended, deleted,
duplicated, imported and renamed to a name that collides or is no name. It can only
reopen the window's own file, which succeeds if everything in it parses. `files` adds the stored projects (a good
one, one with a text that does not parse, one with a name twice) and a third id, which
lets a project be opened in place of another, and an unsatisfiable text, so that a verdict can be
the wrong one; renames and imports are left to `session`.
`recents` has four paths, of which one gets its suffix on a save and one has it in
capitals, a list of two places, and five opens and saves: enough to fill the list, to push
a path out, to bring it back and to move one to the front. The program's `k_iMaxRecentProjects` is 10.

Bounds of the languages. `WordBits = 4` keeps every limit of the 64-bit code in
reach: of the literals, 1 fits every type, 5 fits the bit-vector of width 3 and not
that of width 2, and 9 is beyond the largest signed integer. `grammar` has ten
beginnings, each with its own alphabet of pieces and number of them (`MCTopics`):
whole statements (5 pieces), an expression with parentheses (5), an expression with one
operator of each level (4: three operands and two operators), one with operands of each kind (3), the end of a bit-vector
declaration (5), and, character by character, comments (7: an opening, a body of two and
a closing, with a line break anywhere), numbers (5), operators (4), strings (6), and
strings with the marks of comments in them (4).
`interchange` types (with every operand in parentheses) every tree of one node over all
operators and a leaf of every kind (a variable of each sort, an undeclared one, every
literal, strings with each escape), and the trees of two nodes where one node takes any
operator and the other one of each family; a typing rule looks at one node and the types
of its operands, so two nodes show all their cases. `MaxDepth = 3` is more than the typed
trees need (the deepest has two operators above a leaf). The foreign scripts do the same with
the reader's functions and some it does not have, and add commands out of order, twice,
unknown and with reserved names. Meanings are compared under every value of
the bit-vectors and Booleans and three values of the unbounded sorts; the
divisions of reals and integers and the signed functions are uninterpreted, equal only
to themselves on equal arguments.

Fairness. `WorkerBegin`, `WorkerFinish`, `OnSolveFinished` and `WorkerExit` are
weakly fair: both event loops run as long as the process lives, and the timeout
set on Z3 (5000 ms, `SolverConfig.hpp`) bounds `check()`. Nothing a user starts is
fair. `BusyEnds`, `CloseEnds` and the fairness of `SolveSession` follow from these four.

What `VerdictFitsUndisturbed` says and does not say. As long as the text that is being
solved is not edited, a shown verdict, and the values beside the variables, are the
selected text's own, also after selecting, creating, deleting, opening and stopping, and
while other problems are edited. When it is edited they need not be: `onSolveFinished`
compares problem ids only, which `edit_while_solving` shows in its most visible form. The
attempt to prove it found two cases that a weaker history variable had covered up:
`createProblem` with the early return of `setEditorText` keeps the values on the screen, and
after an open `solve()` runs with an id no problem has and clears nothing. So only
a request for a problem of the project makes `disturbed` false again.

What `CleanMeansSaved` says and does not say. It makes an exception of the file a failed save
has torn: `save()` truncates before it writes, the mark of the window does not change, and
the project that was stored is lost. Otherwise a clean window equals its file, also after an open that
was refused at a later row, when part of the other project had been built already.

What `ExportMeansQuery` says and does not say. The serializer guesses sorts by rules of
its own, so it picks other functions than the converter in some places: for the sum, difference and
product of bit-vectors it writes `+`, `-` and `*`, which SMT-LIB refuses on bit-vectors
(`portable`). The property says that this is the only way to differ: an assertion that is
well sorted is, function by function, what the solver is asked, and a file of which every
assertion is well sorted asserts them all. Equality of terms implies equality of
meaning, whatever the functions mean.

What `ImportKeepsMeaning` says and does not say. It asks that the file is well sorted
and `Anchored`: every function in it has a variable below. The width of a
literal is not part of the printed text, so where only literals meet an import may
change it, and a literal beyond the signed range is clamped without a word (a hazard no property
covers; the scripts hold none). The names of the
foreign files are ordinary there; `odd_names` shows why.

What the three properties about the printer say. `PrintRebuildsProblem` is about the program: the
printed characters, scanned, parsed and analyzed, are the same problem. It falls into two
halves. `PrintsTokens`: the scanner makes of the printed characters the tokens that
`PrintedTokens` says the printer means; here are the escapes, the two bases of numbers, and the spaces
that keep tokens apart. `PrintedRebuildsProblem`: the parser and the analyzer make of these
tokens the same problem; here are the parentheses, the widths, and the order of statements. The first half is about characters and only model-checked, the second is
proved for every problem (`PrintedTextRebuilds`).

What `BlockStatesFollowComments` says and does not say. The highlighter knows lines only:
it takes an opening behind `//` or in a string for one, and on a line inside a comment it
searches the end from the third column, as if there were an opening to step over, so that
a last line `*/` does not end the comment and everything below is coloured as one. The
property leaves out the texts with lines of exactly these kinds (`Deviates`); without any
one of the three exceptions TLC refutes it.

## 4. What is proved

TLAPS checks these for every value of the constants (any number of texts, problems,
requests, paths and sessions, trees of any depth, words of any width), from the assumptions
`TextAssumption`, `WordAssumption`, `WorkspaceAssumption`, `FilesAssumption`,
`WordBitsAssumption`, `DepthAssumption`, `ParserAssumption`, `ScannerAssumption`, `LexemeAssumption`
and `SpellingAssumption`, which TLC evaluates on the runs. `ParserAssumption` says of the parser what
`Parser.cpp` shows: it builds nodes of the kinds the analyzer knows, gives no literal a width, and has no
literal below 0 or beyond the range of a signed integer (Parser.cpp 412-433; `LiteralsFit`).
`ScannerAssumption` says that a scanner returns a sequence of tokens, `LexemeAssumption` that the lexemes of the
language are tokens, which is evident but not to the provers: they do not know that a literal string
is in `STRING`. `SpellingAssumption` says of `std::to_string` and the format `0x%llX` that the parser's
conversion reads what they write. None says that a text is accepted or that a name is declared.

The workbench:

- `TypeCorrect`: `Spec => []TypeOK`. `TypeOK` is inductive alone.
- `NoTwoShareAnIdOrAName`: `Spec => []IdsAndNamesUnique`. Not inductive: a fresh id
  differs from the others only because all of them were issued before, so the
  invariant adds `IdsIssued`. That a generated name is free is `UniqueNameIsFree`:
  among n + 1 suffixes one is free of n names, by the pigeonhole principle, and the
  least of them is what the loop of `makeUniqueName` returns.
- `AnIdNeverReturns`: `Spec => IdsNeverReturn`, from `FreshOrKept`: every problem
  after a step was there before or has an id the counter had not issued.
- `OneJobAtATime`: `Spec => []OneJobInFlight`. The strengthening `BusyHasToken`
  (the token of a busy window is not 0) makes a job taken by the worker visible.
- `OnlyCheckedJobs`: `Spec => []JobsAreChecked`. `solve()` posts what the editor
  holds, so the invariant adds `ValidIsChecked`: a valid editor's problem has a
  text that parsed, the contents of that text, and a real id.
- `SessionSafety`: `Spec => Session!Init /\ [][Session!Next]_(Session!vars)`, the
  safety half of the refinement, from `OneJobInFlight`, which identifies the pending
  request with the token.
- `EditorFollowsProject`: `Spec => []EditorInSync`. The step that needs an argument is
  the early return of `setEditorText`: what is kept there was the verdict on an equal
  text, so the invariant adds `EditorParsed`, which says of the editor's own
  text what `EditorInSync` says of the project's, whether or not a problem is selected.
- `TextTakesVerdictAlong`: `Spec => VerdictDropsWithText`, an action property: each
  handler that changes the text goes through `reparseEditor`.
- `CleanWindowIsSaved`: `Spec => []CleanMeansSaved`. An open that succeeds needs that a document is what the
  project it loads as is written back as (`EncodeOfLoad`); one that is refused leaves ids behind and nothing
  else (`RefusedKeeps`).
- `UndisturbedVerdictsFit`: `HistorySpec => []VerdictFitsUndisturbed`. The invariant is
  `StateInv /\ ScreenFits /\ PendingFits`: the screen fits the editor's text, and what is
  on its way (queued, in `check()` or answered) fits the text that the problem it was sent
  for has, in the project and in the editor, unless disturbed. `StateInv` collects the
  invariants above, `IdsTravel` (the ids in the editor and in flight were issued, so that no
  later problem gets them) and `SelectionKnown` (where the early return of `setEditorText`
  leaves editor and selection with two ids, only another project can drop them, and both).
- `RecentsCorrect` and `WindowIsItsFile`, about `ProjectFiles`: the list of recent
  projects and the window's file, for a list of any length. The order of the list needs
  that the clock is ahead of every use (`ClockIsAhead`).

The languages:

- `ContentsFollowSource`: `Spec => []ContentsSaySource`. The analyzer rewrites a tree to give literals
  a width; it must not lose or alter anything else. `AcceptedIsPreserved` says so of every tree it accepts.
- `TextRestoresContents`: since the printer writes everything but the widths of literals, the
  analyzer makes the very same problem of what is printed, provided the printed text
  is read as the tree it stands for.
- `PrintedTextRebuilds`: `Spec => []PrintedRebuildsProblem`, which removes that proviso as far as tokens go.
  `PrintedTreeDerives`: of what is printed of a tree the documented grammar has one tree,
  that one, and no other, at any depth. It is an induction over the levels of trees; the claim
  is that the tokens derive the tree as a primary expression, which then stands at
  every level an operator may ask for; that no other tree is derived follows from `ParserReadsTrees`. Negative
  literals, which the printer would write with an operator, are no literals of a problem (`LiteralsFit`).
  `PrintedProblemReads` goes on to statements, with `StatementReads` (what the grammar derives, the parser
  reads) for each, and
  with `ParserResumes` for one after the other: each printed statement begins with a
  keyword, and what was read before had no error. `TextRestoresContents` does the rest.
- `QueriesAreWellSorted`: `Spec => []QueryIsWellSorted`, and `ExportsMeanQueries`:
  `Spec => []ExportMeansQuery`. Both follow from `AcceptedTranslates`: a tree the analyzer
  accepts with a sort becomes a term of that sort, and the serializer's term is
  the same one or has no sort. The claim is not inductive over trees by itself. The
  serializer looks at its guesses (`IsBitVec`, `IsReal`) for the left operand, so the claim
  adds that they are right about it, with one exception that is a fact of the code: a Boolean
  may pass for a bit-vector (a comparison of bit-vectors does), which is harmless because no function
  the analyzer allows on Booleans has two names. An operand that was serialized ill-sorted makes
  the whole term ill-sorted (`IllSortedArguments`), so the difference cannot be hidden by an
  outer operator. And literals that adapt must stay within the width (`CoercionTranslates`).
- The invariant of the state machine is `ProblemIsAccepted /\ ProblemIsRebuilt /\
  QueryIsConverted /\ FileIsExported`: the problem in the editor is what the analyzer made of its text and
  translates, the query is its conversion, the file its serialization. The properties alone are not inductive,
  because they say nothing about a problem that has not yet been solved or exported.
- `ParserImplementsGrammar`: for every sequence of tokens, the documented grammar derives exactly the
  program the parser returns if it reports no error, and none if it does. So precedence climbing, with its
  binding powers and its loop, is the grammar of eight levels; every operator groups to the left; no text is
  ambiguous; and nothing that the parser repairs is passed off as correct. `SpecParsesAsGrammar`:
  `EntrySpec => []ParsesAsGrammar` follows for whatever the scanner makes of the text. The two directions are two inductions
  over the number of tokens, and each needs more than the claim. What the grammar derives, the parser reads
  (`ParserReadsTrees`): a phrase is read as its tree also when other tokens follow, provided the next one is no
  operator of at least the level asked for, because that is how a phrase is met inside a longer
  one. What the parser reads, the grammar derives (`ExpressionIsSound`, `LoopIsSound`): the loop
  carries the tokens read so far as a phrase of the level of the last operator, so that the operators it takes
  must come in an order that fits; that is where `RightPrecedence` enters.
- `ParserResumes`: before a keyword, a text that reads without an error, or one without constraints, however broken,
  has no influence on what follows: the parser reads the rest as if it stood alone. `SpecResumesAtKeyword`:
  `EntrySpec => []ResumesAtKeyword`. A broken declaration contains no other keyword up to where
  `synchronize()` begins to skip (`DeclarationKeywords`), and skipping commutes with what stands behind
  the next keyword (`SynchronizeConcat`). A broken constraint is excepted in the property itself: its error
  recovery steps over a token that may be the keyword.
- `StatementShortens`: whatever it meets, a statement takes at least one token, so that parsing ends,
  and the step of `parse()` over a token that no statement took (Parser.cpp 89-93) never happens.

The proofs about the languages rest on three lemmas that are mathematics and say nothing of the program:

- `TreeRecursion`, `TreeInduction` (module `Trees`) and `RecursionSolved` (module
  `Recursion`): TLA+ chooses a recursive function as one that satisfies its equation, if there is one. That
  there is one is proved once, for every recursion that goes down in height, by gluing
  partial solutions together. Heights of trees are the levels at which they first appear. In the parser
  the tokens of a recursive call are themselves what another call left, so the recursion only goes down if that call
  returned no more tokens than it got; `Fits` is such a condition on the values, proved together with the
  equation.
  The modules are instantiated with the domain and the step of each function. The library's
  own theorems of this kind take an operator as a parameter, which the provers
  cannot instantiate; constants of an instantiated module they can.

Only model-checked: liveness (`BusyEnds`, `CloseEnds`, and with it the fairness
conjunct of `ImplementsSession`), which is out of the prover's reach, and what depends on the
characters of a text: `LexesAsDocumented`, `BlockStatesFollowComments`, `PrintsTokens`, and with it `PrintRebuildsProblem`,
`ImportRestoresExport` and `ImportKeepsMeaning`. Scanners, printer and reader take strings apart, of which
the provers know nothing but that they are equal or not, and are `RECURSIVE` operators,
which the provers cannot expand. These properties hold over the bounded inputs above.

## 5. Plan

1. Done: `Project`, `Workspace`, `SolveSession`, `EditHistory` and their proofs.
2. Done: the languages from characters on: `Lexer`, `Tokens`, `Parser`, `Syntax`, `TextEntry`, `Expressions`,
   `Dsl`, `PrintedTokens`, `Typing`, `Semantics`, `SmtTerms`, `SmtLib2`, `SmtSyntax`, `SmtMeaning`, `SmtReader`, `Highlighter`,
   `Grammar`, `Interchange`, `Roundtrip`.
3. Done: `ProjectFiles` and its proofs.
4. Done: the proofs about the analyzer, the converter and the serializer, for trees of every depth.
5. Done: the parser as a recursive function on the tokens left, and the proof that it implements the grammar
   and recovers, for texts of any length.
6. Done: the printer on the level of tokens, and the proof that what it prints is read back, for problems of
   any size.
7. Left: the refinement between `Workspace` with its one file and `ProjectFiles`, which so far
   share the handlers but no variables; the proof would need the map from a stored
   document to a member of `Projects`.
8. Left: the scanner as a function on characters given as a sequence, to prove that it moves forward, and that
   highlighter and scanner agree on comments for a text of any length.

## 6. Not modelled

- `Z3ModelConverter` formats the values Z3 returns; what they are is the library's matter, as
  are exceptions out of `check()` and `get_model()` (a hazard without a property).
- The JSON and TXT listings of the exporter, which nothing reads back, and the layout and
  schema version of the project file: `EncodeProject` is its data.
- `remapVariables`, which only changes ids; variables are named here. The reading of `oSource`
  after a reallocation in `duplicateProblem` only reaches a log line (a hazard without a property).
- `removeRecentProject`, `resetSelectionToFirst`, `removeVariable`, `removeConstraint` and
  `setConstraintEnabled` have no caller in the program.
- Bytes beyond ASCII in texts; a sign or a second prefix inside an SMT-LIB literal, which
  `strtoull` would take; locations and messages of diagnostics.
- The colours within a line, the console, the theme, the list models and the read-only
  SMT-LIB view: they show what they are handed. Window geometry, logging, statistics and
  solve times are presentation.
