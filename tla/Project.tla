------------------------------- MODULE Project -------------------------------
(***************************************************************************)
(* The domain layer: a Problem, the ordered list of problems a Project     *)
(* owns, and the operations the program performs on that list.             *)
(*                                                                         *)
(* Data is abstracted to what the rest of the program tells apart.         *)
(*   - A DSL text is a member of Texts; ValidTexts are the ones that lex,  *)
(*     parse and type-check without a diagnostic.                          *)
(*   - The parsed contents of a problem (its variables and constraints)    *)
(*     are named by the text they were parsed from.  EmptyText stands for  *)
(*     the text "", which declares nothing.                                *)
(*   - A name is a sequence of <<word, number>> pairs: "problem_1" is      *)
(*     << <<"problem", 1>> >>, its copy "problem_1_copy_1" appends         *)
(*     <<"copy", 1>>, and a typed word without a suffix has number 0.      *)
(***************************************************************************)
EXTENDS Naturals, Sequences, FiniteSets, SequencesExt

CONSTANTS
  Texts,       \* the DSL texts a user can have in the editor or in a file
  ValidTexts,  \* those rebuildProblemFromSource accepts
  EmptyText,   \* the empty text: valid, no variables, no constraints
  Words        \* the words names are made of

ASSUME TextAssumption ==
  /\ ValidTexts \subseteq Texts
  /\ EmptyText \in ValidTexts

\* The words of the names the program makes itself.
ASSUME WordAssumption == {"problem", "import", "copy"} \subseteq Words

-----------------------------------------------------------------------------
(* Problem: `contents` are m_vecVariables and m_vecConstraints.            *)

Name == Seq(Words \X Nat)

Problem == [id : Nat, name : Name, source : Texts, contents : Texts]

\* Problem's default constructor: no name, no text, and the invalid id 0.
NoProblem == [id |-> 0, name |-> <<>>, source |-> EmptyText, contents |-> EmptyText]

\* Problem(strName): a fresh id and no contents yet.
NewProblem(id, name) == [NoProblem EXCEPT !.id = id, !.name = name]

\* The id the process-wide counter issues after `last`; 0 is never issued. The
\* ids it gives to variables, to constraints and to the problem of a refused
\* import are skipped here: problems only need theirs to differ and to grow.
PostIncrementedId(last) == last
NextId(last) == last + 1

ProblemNames(ps) == { ps[i].name : i \in DOMAIN ps }

\* findProblem(id) # nullptr
HasProblem(ps, id) == \E i \in DOMAIN ps : ps[i].id = id

\* findProblem(id): ids are unique, so the first match is the only one.
RowOf(ps, id) == CHOOSE i \in DOMAIN ps : ps[i].id = id

FindProblem(ps, id) == ps[RowOf(ps, id)]

\* setSourceText on the problem with that id: the contents stay as they were.
SetSourceText(ps, id, text) == [ps EXCEPT ![RowOf(ps, id)].source = text]

\* makeUniqueName: the base with the least suffix, from 1, that nobody has.
MakeUniqueName(prefix, word, taken) ==
  LET free == { k \in 1..(Cardinality(taken) + 1) : Append(prefix, <<word, k>>) \notin taken }
  IN  Append(prefix, <<word, CHOOSE k \in free : \A j \in free : k <= j>>)

\* adoptProblem: a taken name is refused.
CanAdopt(ps, problem) == problem.name \notin ProblemNames(ps)

AdoptProblem(ps, problem) == Append(ps, problem)

\* duplicateProblem: same variables, constraints and text under fresh ids.
Duplicate(problem, id, name) == [problem EXCEPT !.id = id, !.name = name]

\* removeProblem erases the row and keeps the order of the others.
RemoveProblem(ps, row) == RemoveAt(ps, row)

\* A rename is refused when another problem has the name.
MayRenameUnchecked(ps, row, name) == TRUE
MayRename(ps, row, name) == name \notin ProblemNames(ps) \/ ps[row].name = name

RenameProblem(ps, row, name) == [ps EXCEPT ![row].name = name]

-----------------------------------------------------------------------------
(* rebuildProblemFromSource: a text with any diagnostic leaves the target  *)
(* untouched; a clean one replaces text and contents and keeps id and name.*)

Rebuilds(text) == text \in ValidTexts

RebuildFromSource(problem, text) ==
  IF Rebuilds(text) THEN [problem EXCEPT !.source = text, !.contents = text] ELSE problem

-----------------------------------------------------------------------------
(* The stored form of a project: its names and texts, in order.            *)

DocumentEntry == [name : Name, source : Texts]

\* encodeProject: contents and ids are not written.
EncodeSources(ps) == [i \in DOMAIN ps |-> [source |-> ps[i].source]]
EncodeProject(ps) == [i \in DOMAIN ps |-> [name |-> ps[i].name, source |-> ps[i].source]]

\* The rows loadImpl would stop at: a text that does not rebuild, a taken name.
RefusedRows(doc) ==
  { row \in DOMAIN doc :
      \/ ~Rebuilds(doc[row].source)
      \/ \E before \in 1..(row - 1) : doc[before].name = doc[row].name }

Loadable(doc) == RefusedRows(doc) = {}

\* The problems a load produces, with fresh ids after `last`.
LoadWithLocalIds(doc, last) ==
  [i \in DOMAIN doc |->
     RebuildFromSource(NewProblem(i, doc[i].name), doc[i].source)]
LoadProject(doc, last) ==
  [i \in DOMAIN doc |->
     RebuildFromSource(NewProblem(last + i, doc[i].name), doc[i].source)]
=============================================================================
