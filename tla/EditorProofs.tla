---------------------------- MODULE EditorProofs ----------------------------
(***************************************************************************)
(* Theorems about the editor: it shows the text the project has, and a     *)
(* verdict disappears with its text; one about the project file: a clean   *)
(* window is saved; and one about verdicts: they fit the text they stand   *)
(* beside, unless that text was edited while it was being solved.          *)
(*                                                                         *)
(* The editor is not always re-parsed when the selection moves: a new      *)
(* problem whose template equals the editor's text is selected without it. *)
(* So what the parser said is a fact about m_oEditor's own text            *)
(* (EditorParsed), and InSync ties that text to the project's.             *)
(***************************************************************************)
EXTENDS WorkspaceProofs, EditHistory

\* An editor state as reparseEditor leaves it.
Parsed(e) ==
  /\ e.valid = (e.problem.source \in ValidTexts)
  /\ e.errors = ~e.valid
  /\ e.valid => e.problem.contents = e.problem.source

EditorParsed == editor = EmptyEditor \/ Parsed(editor)

\* EditorInSync, row by row.
InSync ==
  \A i \in DOMAIN problems : problems[i].id = current =>
    Parsed(editor) /\ editor.problem.source = problems[i].source

SyncInv == IdInv /\ EditorParsed /\ InSync

-----------------------------------------------------------------------------
(* Texts of the project.                                                   *)

\* What reparseEditor builds is parsed, and of the problem's text.
LEMMA ReparsedParsed ==
  ASSUME NEW p \in Problem
  PROVE  Parsed(Reparsed(p)) /\ Reparsed(p).problem.source = p.source
<1>1. /\ Reparsed(p).problem.source = p.source
      /\ Reparsed(p).valid => Reparsed(p).problem.contents = p.source
  BY ReparsedType
<1>2. Reparsed(p).valid = Rebuilds(p.source) /\ Reparsed(p).errors = ~Rebuilds(p.source)
  BY DEF Reparsed
<1>. QED BY <1>1, <1>2 DEF Parsed, Rebuilds

\* With unique ids the row of an id is the one that has it.
LEMMA RowIsUnique ==
  ASSUME NEW ps \in Seq(Problem), NEW r \in DOMAIN ps,
         \A i \in DOMAIN ps : ps[i].id = ps[r].id => i = r
  PROVE  HasProblem(ps, ps[r].id) /\ RowOf(ps, ps[r].id) = r /\ FindProblem(ps, ps[r].id) = ps[r]
<1>1. HasProblem(ps, ps[r].id)
  BY DEF HasProblem
<1>2. RowOf(ps, ps[r].id) \in DOMAIN ps /\ FindProblem(ps, ps[r].id) = ps[RowOf(ps, ps[r].id)]
  BY <1>1, FindProblemType
<1>3. ps[RowOf(ps, ps[r].id)].id = ps[r].id
  BY <1>1, <1>2, FindProblemType
<1>4. RowOf(ps, ps[r].id) = r
  BY <1>2, <1>3
<1>. QED BY <1>1, <1>2, <1>4

\* setSourceText changes the text of one row.
LEMMA SetSourceTextRows ==
  ASSUME NEW ps \in Seq(Problem), NEW id, HasProblem(ps, id), NEW text \in Texts
  PROVE  \A i \in DOMAIN ps :
           SetSourceText(ps, id, text)[i].source = IF i = RowOf(ps, id) THEN text ELSE ps[i].source
<1>. DEFINE r == RowOf(ps, id)
<1>1. r \in DOMAIN ps
  BY FindProblemType
<1>. HIDE DEF r
<1>2. SetSourceText(ps, id, text) = [ps EXCEPT ![r] = [ps[r] EXCEPT !.source = text]]
  BY <1>1 DEF SetSourceText, r
<1>3. ps[r] \in Problem
  BY <1>1
<1>4. [ps[r] EXCEPT !.source = text].source = text
  <2>1. ps[r].name \in Name
    BY <1>3 DEF Problem
  <2>. QED BY <1>3, <2>1, UpdateType
<1>5. \A i \in DOMAIN ps : SetSourceText(ps, id, text)[i] =
         IF i = r THEN [ps[r] EXCEPT !.source = text] ELSE ps[i]
  BY <1>1, <1>2
<1>. QED BY <1>4, <1>5 DEF r

\* A file that loads holds exactly the names and texts of what it loads as.
LEMMA EncodeOfLoad ==
  ASSUME NEW doc \in Seq(DocumentEntry), Loadable(doc), NEW last \in Nat
  PROVE  EncodeProject(LoadProject(doc, last)) = doc
<1>. DEFINE ps == LoadProject(doc, last)
<1>1. ps \in Seq(Problem) /\ DOMAIN ps = DOMAIN doc
  BY LoadType
<1>2. ASSUME NEW i \in DOMAIN doc
      PROVE  ps[i].name = doc[i].name /\ ps[i].source = doc[i].source
  <2>1. doc[i] \in DocumentEntry
    OBVIOUS
  <2>2. doc[i].name \in Name /\ doc[i].source \in Texts
    BY <2>1 DEF DocumentEntry
  <2>3. Rebuilds(doc[i].source)
    BY LoadableNames
  <2>. DEFINE new == NewProblem(last + i, doc[i].name)
  <2>4. new \in Problem
    <3>1. last + i \in Nat
      OBVIOUS
    <3>. QED BY <2>2, <3>1, NewProblemType
  <2>5. ps[i] = RebuildFromSource(new, doc[i].source)
    BY DEF LoadProject
  <2>. HIDE DEF new, ps
  <2>6. ps[i].source = doc[i].source
    BY <2>2, <2>3, <2>4, <2>5, RebuildType
  <2>7. ps[i].name = doc[i].name
    BY LoadType DEF ps
  <2>. QED BY <2>6, <2>7
<1>. HIDE DEF ps
<1>3. ASSUME NEW i \in DOMAIN doc
      PROVE  [name |-> ps[i].name, source |-> ps[i].source] = doc[i]
  <2>1. doc[i] \in DocumentEntry
    OBVIOUS
  <2>2. doc[i] = [name |-> doc[i].name, source |-> doc[i].source]
    BY <2>1 DEF DocumentEntry
  <2>. QED BY <1>2, <2>2
<1>4. EncodeProject(ps) = [i \in DOMAIN doc |-> doc[i]]
  BY <1>1, <1>3 DEF EncodeProject
<1>5. doc = [i \in DOMAIN doc |-> doc[i]]
  OBVIOUS
<1>. QED BY <1>4, <1>5 DEF ps
-----------------------------------------------------------------------------
(* What a step does to the texts of the project.                           *)

\* The list qs keeps the ids and texts of ps, row by row.
SameTexts(ps, qs) ==
  /\ DOMAIN qs = DOMAIN ps
  /\ \A i \in DOMAIN ps : qs[i].id = ps[i].id /\ qs[i].source = ps[i].source

\* The list qs differs from ps by a last problem with that id.
AppendsText(ps, qs, id) ==
  /\ DOMAIN qs = 1..(Len(ps) + 1)
  /\ qs[Len(ps) + 1].id = id
  /\ \A i \in DOMAIN ps : qs[i].id = ps[i].id /\ qs[i].source = ps[i].source

\* createProblem appends a problem with the template and selects it.  The
\* editor re-parses it, unless it shows the template already.
LEMMA CreateTexts ==
  ASSUME IdInv, CreateProblem
  PROVE  /\ AppendsText(problems, problems', lastId + 1)
         /\ problems'[Len(problems) + 1].source = Starter
         /\ lastId' = lastId + 1 /\ current' = lastId + 1
         /\ \/ ReparseEditor(problems', current')
            \/ UNCHANGED <<editor, panel, status>> /\ editor.problem.source = Starter
<1>. USE DEF IdInv, TypeOK
<1>. DEFINE name   == MakeUniqueName(<<>>, "problem", ProblemNames(problems))
            id     == NextId(lastId)
            new    == NewProblem(id, name)
            listed == AdoptProblem(problems, new)
            ps     == SetSourceText(listed, id, Starter)
            n      == Len(problems)
<1>1. name \in Name
  <2>1. <<>> \in Name
    BY DEF Name
  <2>. QED BY <2>1, ProblemNamesFinite, UniqueNameIsFree, WordAssumption
<1>2. id \in Nat /\ id = lastId + 1
  BY DEF NextId
<1>3. new \in Problem /\ new.id = id
  BY <1>1, <1>2, NewProblemType
<1>4. lastId' = id /\ current' = id /\ SetEditorText(ps, id, Starter)
  BY DEF CreateProblem
<1>5. Starter \in Texts
  BY TextAssumption, WorkspaceAssumption
<1>6. n \in Nat /\ DOMAIN problems = 1..n
  OBVIOUS
<1>7. \A i \in 1..n : problems[i].id \in 1..lastId
  BY <1>6 DEF IdsIssued
<1>. HIDE DEF name, id, new
<1>8. /\ listed \in Seq(Problem) /\ DOMAIN listed = 1..(n + 1)
      /\ listed[n + 1] = new
      /\ \A i \in 1..n : listed[i] = problems[i]
  BY <1>3, <1>6, AdoptType
<1>. HIDE DEF listed
<1>9. n + 1 \in DOMAIN listed /\ \A i \in DOMAIN listed : listed[i].id = id => i = n + 1
  <2>1. \A i \in 1..n : listed[i].id # id
    BY <1>2, <1>7, <1>8
  <2>2. \A i \in 1..(n + 1) : i \in 1..n \/ i = n + 1
    <3>. HIDE DEF n
    <3>. QED BY <1>6
  <2>. QED BY <1>6, <1>8, <2>1, <2>2
<1>10. HasProblem(listed, id) /\ RowOf(listed, id) = n + 1
  <2>1. listed[n + 1].id = id
    BY <1>3, <1>8
  <2>. HIDE DEF n
  <2>. QED BY <1>8, <1>9, <2>1, RowIsUnique
<1>11. /\ ps \in Seq(Problem) /\ DOMAIN ps = 1..(n + 1)
       /\ ps[n + 1].id = id /\ ps[n + 1].source = Starter
       /\ \A i \in 1..n : ps[i].id = problems[i].id /\ ps[i].source = problems[i].source
  <2>1. /\ ps \in Seq(Problem) /\ DOMAIN ps = DOMAIN listed
        /\ \A i \in DOMAIN listed : ps[i].id = listed[i].id
        /\ \A i \in DOMAIN listed : ps[i].source = IF i = n + 1 THEN Starter ELSE listed[i].source
    BY <1>5, <1>8, <1>10, SetSourceTextType, SetSourceTextRows
  <2>. HIDE DEF ps, n
  <2>2. \A i \in 1..n : i \in 1..(n + 1) /\ i # n + 1
    BY <1>6
  <2>. QED BY <1>3, <1>6, <1>8, <1>9, <2>1, <2>2
<1>. HIDE DEF ps
<1>12. CASE TakesText(ps, id, Starter)
  <2>1. problems' = SetSourceText(ps, id, Starter) /\ ReparseEditor(problems', id)
    BY <1>4, <1>12 DEF SetEditorText
  <2>2. HasProblem(ps, id)
    BY <1>12 DEF TakesText
  <2>3. n + 1 \in DOMAIN ps /\ \A i \in DOMAIN ps : ps[i].id = ps[n + 1].id => i = n + 1
    <3>1. \A i \in 1..n : ps[i].id # id
      <4>1. \A i \in 1..n : ps[i].id = problems[i].id
        BY <1>11
      <4>. HIDE DEF n
      <4>. QED BY <1>2, <1>7, <4>1
    <3>2. \A i \in 1..(n + 1) : i \in 1..n \/ i = n + 1
      <4>. HIDE DEF n
      <4>. QED BY <1>6
    <3>. QED BY <1>6, <1>11, <3>1, <3>2
  <2>4. RowOf(ps, id) = n + 1
    <3>. HIDE DEF n
    <3>. QED BY <1>11, <2>3, RowIsUnique
  <2>5. /\ DOMAIN problems' = DOMAIN ps
        /\ \A i \in DOMAIN ps : problems'[i].id = ps[i].id
        /\ \A i \in DOMAIN ps : problems'[i].source = IF i = n + 1 THEN Starter ELSE ps[i].source
    BY <1>5, <1>11, <2>1, <2>2, <2>4, SetSourceTextType, SetSourceTextRows
  <2>6. \A i \in 1..n : i \in 1..(n + 1) /\ i # n + 1
    <3>. HIDE DEF n
    <3>. QED BY <1>6
  <2>7. AppendsText(problems, problems', id) /\ problems'[n + 1].source = Starter
    BY <1>6, <1>11, <2>3, <2>5, <2>6 DEF AppendsText
  <2>. QED BY <1>2, <1>4, <2>1, <2>7
<1>13. CASE ~TakesText(ps, id, Starter)
  <2>1. problems' = ps /\ UNCHANGED <<editor, panel, status>>
    BY <1>4, <1>13 DEF SetEditorText
  <2>2. HasProblem(ps, id)
    <3>1. n + 1 \in DOMAIN ps
      BY <1>6, <1>11
    <3>. HIDE DEF n
    <3>. QED BY <1>11, <3>1 DEF HasProblem
  <2>3. editor.problem.source = Starter
    BY <1>13, <2>2 DEF TakesText
  <2>4. AppendsText(problems, problems', id) /\ problems'[n + 1].source = Starter
    BY <1>6, <1>11, <2>1 DEF AppendsText
  <2>. QED BY <1>2, <1>4, <2>1, <2>3, <2>4
<1>. QED BY <1>12, <1>13

\* importSmtLib2 and duplicateProblem append a problem and keep the others.
LEMMA ImportTextsKept ==
  ASSUME IdInv, NEW text \in ImportTexts, ImportSmtLib2(text)
  PROVE  AppendsText(problems, problems', lastId + 1) /\ lastId' = lastId + 1
         /\ current' = lastId + 1 /\ SelectById(problems', current')
<1>. USE DEF IdInv, TypeOK
<1>. DEFINE name     == MakeUniqueName(<<>>, "import", ProblemNames(problems))
            new      == NewProblem(NextId(lastId), name)
            imported == RebuildFromSource(new, text)
<1>1. name \in Name
  <2>1. <<>> \in Name
    BY DEF Name
  <2>. QED BY <2>1, ProblemNamesFinite, UniqueNameIsFree, WordAssumption
<1>2. NextId(lastId) \in Nat /\ NextId(lastId) = lastId + 1
  BY DEF NextId
<1>3. new \in Problem /\ new.id = lastId + 1
  BY <1>1, <1>2, NewProblemType
<1>4. text \in Texts
  BY TextAssumption, WorkspaceAssumption
<1>5. /\ lastId' = imported.id /\ SelectById(problems', imported.id)
      /\ problems' = AdoptProblem(problems, imported)
  BY DEF ImportSmtLib2
<1>6. current' = imported.id
  BY <1>5 DEF SelectById
<1>. HIDE DEF new
<1>7. imported \in Problem /\ imported.id = lastId + 1
  BY <1>3, <1>4, RebuildType
<1>. HIDE DEF imported
<1>8. AppendsText(problems, problems', imported.id)
  BY <1>5, <1>7, AdoptType DEF AppendsText
<1>. QED BY <1>5, <1>6, <1>7, <1>8

\* duplicateProblem appends a problem and leaves the texts of the others.
LEMMA DuplicateTexts ==
  ASSUME IdInv, NEW row \in DOMAIN explorer, DuplicateProblemAt(row)
  PROVE  AppendsText(problems, problems', lastId + 1) /\ lastId' = lastId + 1
<1>. USE DEF IdInv, TypeOK
<1>. DEFINE name == MakeUniqueName(problems[row].name, "copy", ProblemNames(problems))
            copy == Duplicate(problems[row], NextId(lastId), name)
<1>1. problems[row] \in Problem
  BY DEF DuplicateProblemAt
<1>2. problems[row].name \in Name
  BY <1>1 DEF Problem
<1>3. name \in Name
  BY <1>2, ProblemNamesFinite, UniqueNameIsFree, WordAssumption
<1>4. NextId(lastId) \in Nat /\ NextId(lastId) = lastId + 1
  BY DEF NextId
<1>5. copy \in Problem /\ copy.id = lastId + 1
  <2>. HIDE DEF TypeOK, name
  <2>1. copy \in Problem /\ copy.id = NextId(lastId)
    BY <1>1, <1>3, <1>4, DuplicateType
  <2>. QED BY <1>4, <2>1
<1>6. lastId' = copy.id /\ problems' = AdoptProblem(problems, copy)
  BY DEF DuplicateProblemAt
<1>. HIDE DEF copy
<1>7. AppendsText(problems, problems', copy.id)
  BY <1>5, <1>6, AdoptType DEF AppendsText
<1>. QED BY <1>5, <1>6, <1>7

\* Typing changes the text of the selected problem and no other.
LEMMA TypedTextsKept ==
  ASSUME IdInv, NEW text \in TypedTexts, TypeText(text)
  PROVE  \/ UNCHANGED <<problems, editor, panel, status>>
         \/ /\ HasProblem(problems, current) /\ text # editor.problem.source
            /\ DOMAIN problems' = DOMAIN problems
            /\ \A i \in DOMAIN problems :
                 /\ problems'[i].id = problems[i].id
                 /\ problems'[i].source = IF problems[i].id = current THEN text ELSE problems[i].source
            /\ ReparseEditor(problems', current)
<1>. USE DEF IdInv, TypeOK
<1>1. text \in Texts
  BY WorkspaceAssumption
<1>2. CASE TakesText(problems, current, text)
  <2>1. HasProblem(problems, current) /\ text # editor.problem.source
    BY <1>2 DEF TakesText
  <2>2. problems' = SetSourceText(problems, current, text) /\ ReparseEditor(problems', current)
    BY <1>2 DEF TypeText, SetEditorText
  <2>3. /\ DOMAIN problems' = DOMAIN problems
        /\ \A i \in DOMAIN problems :
             /\ problems'[i].id = problems[i].id
             /\ problems'[i].source = IF i = RowOf(problems, current) THEN text ELSE problems[i].source
    BY <1>1, <2>1, <2>2, SetSourceTextType, SetSourceTextRows
  <2>4. \A i \in DOMAIN problems : i = RowOf(problems, current) <=> problems[i].id = current
    BY <2>1, FindProblemType DEF IdsAndNamesUnique
  <2>. QED BY <2>1, <2>2, <2>3, <2>4
<1>3. CASE ~TakesText(problems, current, text)
  BY <1>3 DEF TypeText
<1>. QED BY <1>2, <1>3
-----------------------------------------------------------------------------
(* What a step does to the editor.                                         *)

\* Every row after the step has a fresh id, or the id and the text of a row
\* before it; with an exception for one id.
RowsKeptBut(id) ==
  \A i \in DOMAIN problems' :
    \/ problems'[i].id > lastId
    \/ problems'[i].id = id
    \/ \E j \in DOMAIN problems : /\ problems[j].id = problems'[i].id
                                  /\ problems[j].source = problems'[i].source

RowsKept ==
  \A i \in DOMAIN problems' :
    \/ problems'[i].id > lastId
    \/ \E j \in DOMAIN problems : /\ problems[j].id = problems'[i].id
                                  /\ problems[j].source = problems'[i].source

\* Neither a verdict nor a value is on the screen.
Cleared == status' \in {"", "INVALID", "SOLVING"} /\ panel'.values = EmptyText

\* The editor and the selection stay, and so does what is shown, unless a
\* result comes.
StepKeeps ==
  /\ UNCHANGED <<editor, current>>
  /\ \/ OnSolveFinished
     \/ UNCHANGED panel /\ status' \in {status, "SOLVING", "CANCELLING"}

\* createProblem that finds the template in the editor already.
StepFindsTemplate ==
  /\ UNCHANGED <<editor, panel, status>>
  /\ current' = lastId + 1
  /\ HasProblem(problems', current')
  /\ editor.problem.source = Starter
  /\ \A i \in DOMAIN problems' : problems'[i].id = current' => problems'[i].source = Starter

\* removeProblem of the selected problem.
StepEmpties == editor' = EmptyEditor /\ current' = 0 /\ Cleared

\* The editor is re-parsed from the selected problem of the project.
StepReparses ==
  /\ HasProblem(problems', current')
  /\ editor' = Reparsed(FindProblem(problems', current'))
  /\ Cleared

\* The values are gone whenever the rows are made anew without a model.
LEMMA NoModelNoValues ==
  ASSUME NEW ps, NEW id, NEW e
  PROVE  VariableRows(ps, id, e, EmptyText).values = EmptyText
BY DEF VariableRows

\* reparseEditor re-parses, or the selected id is one no problem has.
LEMMA ReparseEditorStep ==
  ASSUME TypeOK, problems' \in Seq(Problem), ReparseEditor(problems', current')
  PROVE  StepReparses \/ (~HasProblem(problems', current') /\ UNCHANGED <<editor, panel, status>>)
<1>1. CASE HasProblem(problems', current')
  <2>1. /\ editor' = Reparsed(FindProblem(problems', current'))
        /\ status' \in {"", "INVALID"}
        /\ panel' = VariableRows(problems', current', editor', EmptyText)
    BY <1>1 DEF ReparseEditor
  <2>. QED BY <1>1, <2>1, NoModelNoValues DEF StepReparses, Cleared
<1>2. CASE ~HasProblem(problems', current')
  BY <1>2 DEF ReparseEditor
<1>. QED BY <1>1, <1>2

\* Appending a problem under the next id keeps the rows.
LEMMA AppendKeepsRows ==
  ASSUME IdInv, AppendsText(problems, problems', lastId + 1)
  PROVE  RowsKept
<1>1. lastId \in Nat /\ Len(problems) \in Nat /\ DOMAIN problems = 1..Len(problems)
  BY DEF IdInv, TypeOK
<1>2. \A i \in DOMAIN problems' : i \in DOMAIN problems \/ i = Len(problems) + 1
  BY <1>1 DEF AppendsText
<1>. QED BY <1>1, <1>2 DEF AppendsText, RowsKept

\* The four ways a step can treat the editor.
LEMMA EditorSteps ==
  ASSUME IdInv, [Next]_vars
  PROVE  StepKeeps \/ StepFindsTemplate \/ StepEmpties \/ StepReparses
<1>. USE DEF requestVars, threadVars, storeVars, projectVars, editorVars, resultVars
<1>. DEFINE Goal == StepKeeps \/ StepFindsTemplate \/ StepEmpties \/ StepReparses
<1>0. TypeOK /\ problems \in Seq(Problem) /\ problems' \in Seq(Problem)
  BY TypeNext DEF IdInv, TypeOK
<1>a. UNCHANGED <<editor, current, panel, status>> => Goal
  BY DEF StepKeeps
<1>b. ASSUME ReparseEditor(problems', current'), UNCHANGED current PROVE Goal
  BY <1>0, <1>b, <1>a, ReparseEditorStep
<1>c. ASSUME ReparseEditor(problems', current'), HasProblem(problems', current') PROVE Goal
  BY <1>0, <1>c, ReparseEditorStep
<1>1. CASE CreateProblem
  <2>1. /\ AppendsText(problems, problems', lastId + 1)
        /\ problems'[Len(problems) + 1].source = Starter
        /\ current' = lastId + 1
        /\ \/ ReparseEditor(problems', current')
           \/ UNCHANGED <<editor, panel, status>> /\ editor.problem.source = Starter
    BY <1>1, CreateTexts
  <2>2. Len(problems) + 1 \in DOMAIN problems'
    BY <1>0, <2>1 DEF AppendsText
  <2>3. HasProblem(problems', current')
    BY <2>1, <2>2 DEF HasProblem, AppendsText
  <2>4. \A i \in DOMAIN problems' : problems'[i].id = current' => problems'[i].source = Starter
    <3>1. \A i \in DOMAIN problems : problems'[i].id = problems[i].id /\ problems[i].id # lastId + 1
      BY <2>1 DEF AppendsText, IdInv, IdsIssued, TypeOK
    <3>2. \A i \in DOMAIN problems' : i \in DOMAIN problems \/ i = Len(problems) + 1
      BY <1>0, <2>1 DEF AppendsText
    <3>. QED BY <2>1, <3>1, <3>2
  <2>. QED BY <1>c, <2>1, <2>3, <2>4 DEF StepFindsTemplate
<1>2. ASSUME NEW row \in DOMAIN explorer, SelectProblem(row) PROVE Goal
  <2>1. /\ row \in DOMAIN problems /\ problems' = problems /\ current' = problems[row].id
        /\ ReparseEditor(problems, problems[row].id)
    BY <1>2 DEF SelectProblem, SelectById
  <2>. QED BY <1>c, <2>1 DEF HasProblem
<1>3. ASSUME NEW row \in DOMAIN explorer, RemoveProblemAt(row) PROVE Goal
  <2>1. CASE current = problems[row].id
    <3>1. /\ editor' = EmptyEditor /\ current' = 0 /\ status' = ""
          /\ panel' = VariableRows(problems', 0, EmptyEditor, EmptyText)
      BY <1>3, <2>1 DEF RemoveProblemAt
    <3>. QED BY <3>1, NoModelNoValues DEF StepEmpties, Cleared
  <2>2. CASE current # problems[row].id
    BY <1>3, <1>a, <2>2 DEF RemoveProblemAt
  <2>. QED BY <2>1, <2>2
<1>4. ASSUME NEW text \in TypedTexts, TypeText(text) PROVE Goal
  <2>1. UNCHANGED current
    BY <1>4 DEF TypeText
  <2>. QED BY <1>4, <1>a, <1>b, <2>1, TypedTextsKept
<1>5. ASSUME NEW text \in ImportTexts, ImportSmtLib2(text) PROVE Goal
  <2>1. /\ AppendsText(problems, problems', lastId + 1) /\ current' = lastId + 1
        /\ ReparseEditor(problems', current')
    BY <1>5, ImportTextsKept DEF SelectById
  <2>2. Len(problems) + 1 \in DOMAIN problems'
    BY <1>0, <2>1 DEF AppendsText
  <2>3. HasProblem(problems', current')
    BY <2>1, <2>2 DEF HasProblem, AppendsText
  <2>. QED BY <1>c, <2>1, <2>3
<1>6. CASE Solve
  <2>1. UNCHANGED <<problems, current>> /\ status' = "SOLVING"
    BY <1>6 DEF Solve
  <2>2. CASE HasProblem(problems, current)
    <3>1. /\ editor' = Reparsed(FindProblem(problems, current))
          /\ panel' = VariableRows(problems, current, editor', EmptyText)
      BY <1>6, <2>2 DEF Solve
    <3>. QED BY <2>1, <2>2, <3>1, NoModelNoValues DEF StepReparses, Cleared
  <2>3. CASE ~HasProblem(problems, current)
    BY <1>6, <2>1, <2>3 DEF Solve, StepKeeps
  <2>. QED BY <2>2, <2>3
<1>7. CASE SolveRefused \/ ExportProblem
  <2>1. ReparseEditor(problems, current) /\ UNCHANGED <<problems, current>>
    BY <1>7 DEF SolveRefused, ExportProblem
  <2>. QED BY <1>b, <2>1
<1>8. CASE Stop
  BY <1>8 DEF Stop, StepKeeps
<1>9. CASE OnSolveFinished
  BY <1>9 DEF OnSolveFinished, StepKeeps
<1>10. CASE \/ \E row \in DOMAIN explorer, name \in TypedNames : RenameProblemAt(row, name)
            \/ \E row \in DOMAIN explorer : DuplicateProblemAt(row)
            \/ WorkerBegin \/ WorkerFinish
  BY <1>10, <1>a DEF RenameProblemAt, DuplicateProblemAt, WorkerBegin, WorkerFinish
<1>11. CASE OpenProject \/ OpenRefused \/ SaveProject \/ SaveFails \/ Close \/ WorkerExit \/ UNCHANGED vars
  BY <1>11, <1>a DEF OpenProject, OpenRefused, SaveProject, SaveFails, Close, WorkerExit, vars
<1>. QED BY <1>1, <1>2, <1>3, <1>4, <1>5, <1>6, <1>7, <1>8, <1>9, <1>10, <1>11 DEF Next, Exited

\* A step keeps the rows, except that typing replaces the selected one's text.
LEMMA RowsSteps ==
  ASSUME IdInv, [Next]_vars
  PROVE  \/ RowsKept
         \/ /\ RowsKeptBut(current) /\ UNCHANGED current /\ StepReparses
            /\ HasProblem(problems, current)
            /\ editor'.problem.source # editor.problem.source
<1>. USE DEF requestVars, threadVars, storeVars, projectVars, editorVars, resultVars
<1>0. TypeOK /\ problems \in Seq(Problem) /\ problems' \in Seq(Problem) /\ lastId \in Nat
  BY TypeNext DEF IdInv, TypeOK
<1>a. SameTexts(problems, problems') => RowsKept
  BY DEF SameTexts, RowsKept
<1>b. UNCHANGED problems => RowsKept
  BY DEF RowsKept
<1>1. CASE CreateProblem
  BY <1>1, AppendKeepsRows, CreateTexts
<1>2. ASSUME NEW row \in DOMAIN explorer, SelectProblem(row) PROVE RowsKept
  BY <1>2, <1>b DEF SelectProblem
<1>3. ASSUME NEW row \in DOMAIN explorer, RemoveProblemAt(row) PROVE RowsKept
  BY <1>0, <1>3, RemoveKeeps DEF RemoveProblemAt, RowsKept
<1>4. ASSUME NEW row \in DOMAIN explorer, NEW name \in TypedNames, RenameProblemAt(row, name)
      PROVE  RowsKept
  <2>1. row \in DOMAIN problems /\ problems' = RenameProblem(problems, row, name)
    BY <1>4 DEF RenameProblemAt
  <2>2. \A i \in DOMAIN problems : problems'[i].source = problems[i].source
    <3>1. problems' = [problems EXCEPT ![row] = [problems[row] EXCEPT !.name = name]]
      BY <2>1 DEF RenameProblem
    <3>2. problems[row] \in Problem
      BY <1>0, <2>1
    <3>3. [problems[row] EXCEPT !.name = name].source = problems[row].source
      BY <3>2 DEF Problem
    <3>. QED BY <1>0, <2>1, <3>1, <3>3
  <2>3. DOMAIN problems' = DOMAIN problems /\ \A i \in DOMAIN problems : problems'[i].id = problems[i].id
    BY <1>0, <2>1, RenameType, WorkspaceAssumption
  <2>. QED BY <1>a, <2>2, <2>3 DEF SameTexts
<1>5. ASSUME NEW row \in DOMAIN explorer, DuplicateProblemAt(row) PROVE RowsKept
  BY <1>5, AppendKeepsRows, DuplicateTexts
<1>6. ASSUME NEW text \in TypedTexts, TypeText(text), ~RowsKept
      PROVE  /\ RowsKeptBut(current) /\ UNCHANGED current /\ StepReparses
             /\ HasProblem(problems, current)
             /\ editor'.problem.source # editor.problem.source
  <2>1. /\ HasProblem(problems, current) /\ text # editor.problem.source
        /\ DOMAIN problems' = DOMAIN problems
        /\ \A i \in DOMAIN problems :
             /\ problems'[i].id = problems[i].id
             /\ problems'[i].source = IF problems[i].id = current THEN text ELSE problems[i].source
        /\ ReparseEditor(problems', current)
    BY <1>6, <1>b, TypedTextsKept
  <2>2. UNCHANGED current
    BY <1>6 DEF TypeText
  <2>3. RowsKeptBut(current)
    BY <2>1 DEF RowsKeptBut
  <2>4. HasProblem(problems', current')
    BY <2>1, <2>2 DEF HasProblem
  <2>5. StepReparses
    BY <1>0, <2>1, <2>2, <2>4, ReparseEditorStep
  <2>6. editor'.problem.source = text
    <3>1. FindProblem(problems', current') \in Problem /\ FindProblem(problems', current').source = text
      <4>1. /\ RowOf(problems', current') \in DOMAIN problems'
            /\ FindProblem(problems', current') = problems'[RowOf(problems', current')]
            /\ FindProblem(problems', current') \in Problem
            /\ FindProblem(problems', current').id = current'
        BY <1>0, <2>4, FindProblemType
      <4>. QED BY <2>1, <2>2, <4>1
    <3>2. editor' = Reparsed(FindProblem(problems', current'))
      BY <2>5 DEF StepReparses
    <3>. QED BY <3>1, <3>2, ReparsedParsed
  <2>. QED BY <2>1, <2>2, <2>3, <2>5, <2>6
<1>7. CASE OpenProject
  <2>1. PICK doc \in Seq(DocumentEntry) :
          /\ DOMAIN problems' = 1..Len(doc)
          /\ \A i \in 1..Len(doc) : problems'[i].id = lastId + i
    BY <1>0, <1>7, OpenNumbers
  <2>. QED BY <1>0, <2>1 DEF RowsKept
<1>8. ASSUME NEW text \in ImportTexts, ImportSmtLib2(text) PROVE RowsKept
  BY <1>8, AppendKeepsRows, ImportTextsKept
<1>9. CASE Solve \/ SolveRefused \/ Stop \/ OnSolveFinished \/ WorkerBegin \/ WorkerFinish
  BY <1>b, <1>9 DEF Solve, SolveRefused, Stop, OnSolveFinished, WorkerBegin, WorkerFinish
<1>10. CASE SaveProject \/ SaveFails \/ ExportProblem \/ Close \/ WorkerExit \/ UNCHANGED vars
  BY <1>b, <1>10 DEF SaveProject, SaveFails, ExportProblem, Close, WorkerExit, vars
<1>11. CASE OpenRefused
  BY <1>0, <1>b, <1>11, RefusedKeeps
<1>. QED BY <1>1, <1>2, <1>3, <1>4, <1>5, <1>6, <1>7, <1>8, <1>9, <1>10, <1>11 DEF Next, Exited
-----------------------------------------------------------------------------
(* The editor follows the project.                                         *)

\* The constructor parses the template of the one problem it makes.
LEMMA SyncInit == Init => EditorParsed /\ InSync
<1>. SUFFICES ASSUME Init PROVE EditorParsed /\ InSync
  OBVIOUS
<1>. DEFINE new   == NewProblem(1, << <<"problem", 1>> >>)
            first == [new EXCEPT !.source = Starter]
<1>1. problems \in Seq(Problem)
  BY TypeInit DEF TypeOK
<1>2. problems = <<first>> /\ editor = Reparsed(first)
  BY DEF Init
<1>. HIDE DEF first
<1>3. first \in Problem
  BY <1>1, <1>2
<1>4. Parsed(editor) /\ editor.problem.source = first.source
  BY <1>2, <1>3, ReparsedParsed
<1>. QED BY <1>2, <1>4 DEF EditorParsed, InSync

\* A re-parsed editor is in step with the project, since ids are unique.
LEMMA ReparsedInSync ==
  ASSUME TypeOK', IdsAndNamesUnique', StepReparses
  PROVE  Parsed(editor') /\ InSync'
<1>1. problems' \in Seq(Problem)
  BY DEF TypeOK
<1>2. /\ RowOf(problems', current') \in DOMAIN problems'
      /\ FindProblem(problems', current') = problems'[RowOf(problems', current')]
      /\ FindProblem(problems', current') \in Problem
      /\ FindProblem(problems', current').id = current'
  BY <1>1, FindProblemType DEF StepReparses
<1>3. Parsed(editor') /\ editor'.problem.source = FindProblem(problems', current').source
  BY <1>2, ReparsedParsed DEF StepReparses
<1>4. \A i \in DOMAIN problems' : problems'[i].id = current' => i = RowOf(problems', current')
  BY <1>2 DEF IdsAndNamesUnique
<1>. QED BY <1>2, <1>3, <1>4 DEF InSync

\* Every step keeps the editor in step with the project.
LEMMA SyncNext == SyncInv /\ [Next]_vars => EditorParsed' /\ InSync'
<1>. SUFFICES ASSUME SyncInv, [Next]_vars PROVE EditorParsed' /\ InSync'
  OBVIOUS
<1>1. IdInv /\ EditorParsed /\ InSync /\ TypeOK' /\ IdsAndNamesUnique' /\ IdsIssued'
  BY TypeNext, IdNext DEF SyncInv, IdInv
<1>2. CASE StepReparses
  BY <1>1, <1>2, ReparsedInSync DEF EditorParsed
<1>3. CASE StepEmpties
  <2>1. \A i \in DOMAIN problems' : problems'[i].id # 0
    BY <1>1 DEF IdsIssued
  <2>. QED BY <1>3, <2>1 DEF StepEmpties, EditorParsed, InSync
<1>4. CASE StepFindsTemplate
  <2>1. EmptyEditor.problem.source # Starter
    BY WorkspaceAssumption DEF EmptyEditor, NoProblem
  <2>2. Parsed(editor)
    BY <1>1, <1>4, <2>1 DEF EditorParsed, StepFindsTemplate
  <2>. QED BY <1>4, <2>2 DEF StepFindsTemplate, EditorParsed, InSync, Parsed
<1>5. CASE StepKeeps /\ RowsKept
  <2>1. UNCHANGED <<editor, current>>
    BY <1>5 DEF StepKeeps
  <2>2. current \in 0..lastId /\ lastId \in Nat
    BY <1>1 DEF IdInv, IdsIssued, TypeOK
  <2>3. ASSUME NEW i \in DOMAIN problems', problems'[i].id = current
        PROVE  \E j \in DOMAIN problems : /\ problems[j].id = current
                                          /\ problems[j].source = problems'[i].source
    <3>1. ~(problems'[i].id > lastId)
      BY <2>2, <2>3
    <3>. QED BY <1>5, <2>3, <3>1 DEF RowsKept
  <2>. QED BY <1>1, <2>1, <2>3 DEF EditorParsed, InSync, Parsed
<1>. QED BY <1>1, <1>2, <1>3, <1>4, <1>5, EditorSteps, RowsSteps

\* In every reachable state the editor shows what parsing the text gives.
THEOREM SyncInvHolds == Spec => []SyncInv
<1>1. Init => SyncInv
  BY TypeInit, IdInit, SyncInit DEF SyncInv, IdInv
<1>2. SyncInv /\ [Next]_vars => SyncInv'
  BY TypeNext, IdNext, SyncNext DEF SyncInv, IdInv
<1>. QED BY <1>1, <1>2, PTL DEF Spec

\* m_oEditor holds the text the project has for the selected problem, and the
\* parser's verdict on it, whatever the user does: setEditorText, selectById,
\* solve and exportProblem re-parse, and createProblem may only skip it when the
\* text is the same.
THEOREM EditorFollowsProject == Spec => []EditorInSync
<1>1. SyncInv => EditorInSync
  <2>. SUFFICES ASSUME SyncInv, HasProblem(problems, current) PROVE EditorInSync
    BY DEF EditorInSync
  <2>1. problems \in Seq(Problem)
    BY DEF SyncInv, IdInv, TypeOK
  <2>2. /\ RowOf(problems, current) \in DOMAIN problems
        /\ FindProblem(problems, current) = problems[RowOf(problems, current)]
        /\ FindProblem(problems, current).id = current
    BY <2>1, FindProblemType
  <2>3. Parsed(editor) /\ editor.problem.source = FindProblem(problems, current).source
    BY <2>2 DEF SyncInv, InSync
  <2>. QED BY <2>3 DEF EditorInSync, Parsed
<1>. QED BY <1>1, SyncInvHolds, PTL

-----------------------------------------------------------------------------
(* A verdict disappears with its text.                                     *)

\* Whenever the editor's text changes, the verdict and the model values of the
\* previous text leave the screen (reparseEditor, removeProblem, solve).
THEOREM TextTakesVerdictAlong == Spec => VerdictDropsWithText
<1>1. IdInv /\ [Next]_vars =>
        (editor'.problem.source # editor.problem.source =>
           status' \in {"", "INVALID", "SOLVING"} /\ panel'.values = EmptyText)
  <2>. SUFFICES ASSUME IdInv, [Next]_vars, editor'.problem.source # editor.problem.source
                PROVE  Cleared
    BY DEF Cleared
  <2>1. StepKeeps \/ StepFindsTemplate \/ StepEmpties \/ StepReparses
    BY EditorSteps
  <2>. QED BY <2>1 DEF StepKeeps, StepFindsTemplate, StepEmpties, StepReparses
<1>. QED BY <1>1, IdInvHolds, PTL DEF Spec, VerdictDropsWithText

-----------------------------------------------------------------------------
(* A clean window is saved.                                                *)

\* Every handler that changes what a save would write marks the project dirty.
LEMMA CleanNext == TypeOK /\ CleanMeansSaved /\ [Next]_vars => CleanMeansSaved'
<1>. SUFFICES ASSUME TypeOK, CleanMeansSaved, [Next]_vars PROVE CleanMeansSaved'
  OBVIOUS
<1>. USE DEF requestVars, threadVars, storeVars, projectVars, editorVars, resultVars
<1>a. UNCHANGED <<problems, dirty, file>> => CleanMeansSaved'
  BY DEF CleanMeansSaved
<1>b. dirty' = TRUE => CleanMeansSaved'
  BY DEF CleanMeansSaved
<1>1. CASE CreateProblem
  BY <1>1, <1>b DEF CreateProblem, MarkDirty
<1>2. ASSUME NEW row \in DOMAIN explorer, SelectProblem(row) PROVE CleanMeansSaved'
  BY <1>2, <1>a DEF SelectProblem
<1>3. ASSUME NEW row \in DOMAIN explorer, RemoveProblemAt(row) PROVE CleanMeansSaved'
  BY <1>3, <1>b DEF RemoveProblemAt, MarkDirty
<1>4. ASSUME NEW row \in DOMAIN explorer, NEW name \in TypedNames, RenameProblemAt(row, name)
      PROVE  CleanMeansSaved'
  BY <1>4, <1>b DEF RenameProblemAt, MarkDirty
<1>5. ASSUME NEW row \in DOMAIN explorer, DuplicateProblemAt(row) PROVE CleanMeansSaved'
  BY <1>5, <1>b DEF DuplicateProblemAt, MarkDirty
<1>6. ASSUME NEW text \in TypedTexts, TypeText(text) PROVE CleanMeansSaved'
  BY <1>6, <1>a, <1>b DEF TypeText, MarkDirty
<1>7. ASSUME NEW text \in ImportTexts, ImportSmtLib2(text) PROVE CleanMeansSaved'
  BY <1>7, <1>b DEF ImportSmtLib2, MarkDirty
<1>8. CASE OpenProject
  <2>1. PICK doc \in StoredProjects \union ({file} \ {NoFile, TornFile}) :
          /\ Loadable(doc)
          /\ problems' = LoadProject(doc, lastId)
          /\ file' = doc
    BY <1>8 DEF OpenProject
  <2>2. doc \in Seq(DocumentEntry) /\ lastId \in Nat
    BY WorkspaceAssumption DEF TypeOK, Contents
  <2>. QED BY <2>1, <2>2, EncodeOfLoad DEF CleanMeansSaved
<1>9. CASE SaveProject
  BY <1>9 DEF SaveProject, CleanMeansSaved
<1>10. CASE SaveFails
  BY <1>10 DEF SaveFails, CleanMeansSaved
<1>11. CASE Solve \/ SolveRefused \/ Stop \/ OnSolveFinished \/ WorkerBegin \/ WorkerFinish
  BY <1>a, <1>11 DEF Solve, SolveRefused, Stop, OnSolveFinished, WorkerBegin, WorkerFinish
<1>12. CASE ExportProblem \/ Close \/ WorkerExit \/ UNCHANGED vars
  BY <1>a, <1>12 DEF ExportProblem, Close, WorkerExit, vars
<1>13. CASE OpenRefused
  BY <1>a, <1>13, RefusedKeeps
<1>. QED BY <1>1, <1>2, <1>3, <1>4, <1>5, <1>6, <1>7, <1>8, <1>9, <1>10, <1>11, <1>12, <1>13
         DEF Next, Exited

\* A window without the unsaved-changes mark has a file that holds its project,
\* unless a failed save has destroyed it: no handler that changes a name, a text
\* or the order of the problems forgets markDirty, and a file that loads is read
\* into a project that would be written back the same (loadImpl, encodeProject).
THEOREM CleanWindowIsSaved == Spec => []CleanMeansSaved
<1>1. Init => CleanMeansSaved
  BY DEF Init, CleanMeansSaved
<1>2. TypeOK /\ CleanMeansSaved /\ [Next]_vars => CleanMeansSaved'
  BY CleanNext
<1>. QED BY <1>1, <1>2, TypeCorrect, PTL DEF Spec

-----------------------------------------------------------------------------
(* Verdicts.  onSolveFinished matches a result by its problem's id.  So the *)
(* invariant follows one text through the queues: as long as it is          *)
(* undisturbed, the job on its way is about the text its problem has, in    *)
(* the project and, when that problem is selected, in the editor            *)
(* (PendingFits), and what is on the screen fits the editor's text          *)
(* (ScreenFits).                                                            *)

\* A verdict and model values that are right for a text.
Fits(verdict, values, text) ==
  /\ verdict = "SAT" => text \in SatTexts
  /\ verdict = "UNSAT" => text \in ValidTexts \ SatTexts
  /\ values # EmptyText => values = text

\* The job on its way asks about that text, or its result answers it.
Concerns(asked, running, answered, text) ==
  /\ asked # <<>> => Head(asked).problem.contents = text
  /\ running # NoJob => running.problem.contents = text
  /\ answered # <<>> => Fits(Head(answered).verdict, Head(answered).model, text)

ScreenFits == ~disturbed => Fits(status, panel.values, editor.problem.source)

RowsConcerned ==
  \A i \in DOMAIN problems :
    problems[i].id = PendingProblem => Concerns(requests, worker, results, problems[i].source)

EditorConcerned ==
  current = PendingProblem /\ current # 0 =>
    Concerns(requests, worker, results, editor.problem.source)

PendingFits == ~disturbed => RowsConcerned /\ EditorConcerned

\* Ids that travel were issued.
IdsTravel ==
  /\ editor.problem.id \in 0..lastId
  /\ PendingProblem \in 0..lastId
  /\ results # <<>> => Head(results).id # 0

\* When the editor's problem is in the project, so is the selected one: the two
\* ids differ after a skipped re-parse, but then another project drops both.
SelectionKnown ==
  HasProblem(problems, editor.problem.id) /\ current # 0 => HasProblem(problems, current)

StateInv == JobInv /\ CheckInv /\ EditorParsed /\ InSync /\ IdsTravel /\ SelectionKnown

HistoryInv == StateInv /\ ScreenFits /\ PendingFits

-----------------------------------------------------------------------------
(* Ids.                                                                    *)

\* Deleting a problem keeps the others.
LEMMA RemoveKeepsOthers ==
  ASSUME NEW ps \in Seq(Problem), NEW row \in DOMAIN ps, NEW id,
         HasProblem(ps, id), ps[row].id # id
  PROVE  HasProblem(RemoveProblem(ps, row), id)
<1>. DEFINE n == Len(ps)
            qs == RemoveProblem(ps, row)
<1>1. n \in Nat /\ DOMAIN ps = 1..n
  OBVIOUS
<1>2. DOMAIN qs = 1..(n - 1) /\ \A i \in 1..(n - 1) : qs[i] = IF i < row THEN ps[i] ELSE ps[i + 1]
  BY RemoveType
<1>3. PICK j \in 1..n : ps[j].id = id
  BY <1>1 DEF HasProblem
<1>4. row \in 1..n /\ j # row
  BY <1>1, <1>3
<1>. HIDE DEF n, qs
<1>5. CASE j < row
  <2>1. j \in 1..(n - 1)
    BY <1>1, <1>4, <1>5
  <2>2. qs[j] = ps[j]
    BY <1>2, <1>5, <2>1
  <2>. QED BY <1>2, <1>3, <2>1, <2>2 DEF HasProblem, qs
<1>6. CASE j > row
  <2>1. j - 1 \in 1..(n - 1) /\ ~(j - 1 < row) /\ (j - 1) + 1 = j
    BY <1>1, <1>4, <1>6
  <2>2. qs[j - 1] = ps[j]
    BY <1>2, <2>1
  <2>. QED BY <1>2, <1>3, <2>1, <2>2 DEF HasProblem, qs
<1>. QED BY <1>1, <1>4, <1>5, <1>6

\* The id counter never runs backwards.
LEMMA LastIdGrows ==
  ASSUME IdInv, [Next]_vars
  PROVE  lastId' \in Nat /\ lastId <= lastId'
<1>. USE DEF requestVars, threadVars, storeVars, projectVars, editorVars, resultVars
<1>0. lastId \in Nat /\ lastId' \in Nat
  BY TypeNext DEF IdInv, TypeOK
<1>. SUFFICES lastId <= lastId'
  BY <1>0
<1>1. CASE CreateProblem
  BY <1>0, <1>1, CreateTexts
<1>2. ASSUME NEW row \in DOMAIN explorer, DuplicateProblemAt(row) PROVE lastId <= lastId'
  BY <1>0, <1>2, DuplicateTexts
<1>3. ASSUME NEW text \in ImportTexts, ImportSmtLib2(text) PROVE lastId <= lastId'
  BY <1>0, <1>3, ImportTextsKept
<1>4. CASE OpenProject
  <2>1. PICK doc \in Seq(DocumentEntry) : lastId' = lastId + Len(doc)
    BY <1>4, OpenNumbers DEF IdInv
  <2>2. Len(doc) \in Nat
    OBVIOUS
  <2>. QED BY <1>0, <2>1, <2>2
<1>a. UNCHANGED lastId => lastId <= lastId'
  BY <1>0
<1>5. CASE \/ \E row \in DOMAIN explorer : SelectProblem(row) \/ RemoveProblemAt(row)
           \/ \E row \in DOMAIN explorer, name \in TypedNames : RenameProblemAt(row, name)
           \/ \E text \in TypedTexts : TypeText(text)
  BY <1>a, <1>5 DEF SelectProblem, RemoveProblemAt, RenameProblemAt, TypeText
<1>6. CASE Solve \/ SolveRefused \/ Stop \/ OnSolveFinished \/ WorkerBegin \/ WorkerFinish
  BY <1>a, <1>6 DEF Solve, SolveRefused, Stop, OnSolveFinished, WorkerBegin, WorkerFinish
<1>7. CASE SaveProject \/ SaveFails \/ ExportProblem \/ Close \/ WorkerExit \/ UNCHANGED vars
  BY <1>a, <1>7 DEF SaveProject, SaveFails, ExportProblem, Close, WorkerExit, vars
<1>8. CASE OpenRefused
  BY <1>8, RefusedKeeps DEF IdInv
<1>. QED BY <1>0, <1>1, <1>2, <1>3, <1>4, <1>5, <1>6, <1>7, <1>8 DEF Next, Exited

\* A selection that stays keeps its problem, until another project replaces all.
LEMMA SelectedStays ==
  ASSUME IdInv, [Next]_vars, UNCHANGED current, HasProblem(problems, current)
  PROVE  \/ HasProblem(problems', current)
         \/ \A i \in DOMAIN problems' : problems'[i].id > lastId
<1>. USE DEF requestVars, threadVars, storeVars, projectVars, editorVars, resultVars
<1>. DEFINE Goal == \/ HasProblem(problems', current)
                    \/ \A i \in DOMAIN problems' : problems'[i].id > lastId
<1>0. TypeOK /\ problems \in Seq(Problem) /\ lastId \in Nat
  BY DEF IdInv, TypeOK
<1>a. UNCHANGED problems => Goal
  OBVIOUS
<1>b. AppendsText(problems, problems', lastId + 1) => Goal
  <2>. SUFFICES ASSUME AppendsText(problems, problems', lastId + 1) PROVE HasProblem(problems', current)
    OBVIOUS
  <2>1. DOMAIN problems \subseteq DOMAIN problems'
    BY <1>0 DEF AppendsText
  <2>. QED BY <2>1 DEF AppendsText, HasProblem
<1>1. CASE CreateProblem
  BY <1>1, <1>b, CreateTexts
<1>2. ASSUME NEW row \in DOMAIN explorer, RemoveProblemAt(row) PROVE Goal
  <2>1. row \in DOMAIN problems /\ problems' = RemoveProblem(problems, row)
    BY <1>2 DEF RemoveProblemAt
  <2>2. current # problems[row].id
    <3>1. problems[row].id # 0
      BY <1>0, <2>1 DEF IdInv, IdsIssued
    <3>2. current = problems[row].id => current' = 0
      BY <1>2 DEF RemoveProblemAt
    <3>. QED BY <3>1, <3>2
  <2>. QED BY <1>0, <2>1, <2>2, RemoveKeepsOthers
<1>3. ASSUME NEW row \in DOMAIN explorer, NEW name \in TypedNames, RenameProblemAt(row, name)
      PROVE  Goal
  <2>1. row \in DOMAIN problems /\ problems' = RenameProblem(problems, row, name)
    BY <1>3 DEF RenameProblemAt
  <2>2. name \in Name
    BY WorkspaceAssumption
  <2>3. DOMAIN problems' = DOMAIN problems /\ \A i \in DOMAIN problems : problems'[i].id = problems[i].id
    BY <1>0, <2>1, <2>2, RenameType
  <2>. QED BY <2>3 DEF HasProblem
<1>4. ASSUME NEW row \in DOMAIN explorer, DuplicateProblemAt(row) PROVE Goal
  BY <1>4, <1>b, DuplicateTexts
<1>5. ASSUME NEW text \in TypedTexts, TypeText(text) PROVE Goal
  BY <1>5, <1>a, TypedTextsKept DEF HasProblem
<1>6. CASE OpenProject
  <2>1. PICK doc \in Seq(DocumentEntry) :
          /\ DOMAIN problems' = 1..Len(doc)
          /\ \A i \in 1..Len(doc) : problems'[i].id = lastId + i
    BY <1>0, <1>6, OpenNumbers
  <2>. QED BY <1>0, <2>1
<1>7. ASSUME NEW text \in ImportTexts, ImportSmtLib2(text) PROVE Goal
  BY <1>7, <1>b, ImportTextsKept
<1>8. CASE \/ \E row \in DOMAIN explorer : SelectProblem(row)
           \/ Solve \/ SolveRefused \/ Stop \/ OnSolveFinished \/ WorkerBegin \/ WorkerFinish
  BY <1>a, <1>8 DEF SelectProblem, Solve, SolveRefused, Stop, OnSolveFinished, WorkerBegin, WorkerFinish
<1>9. CASE SaveProject \/ SaveFails \/ ExportProblem \/ Close \/ WorkerExit \/ UNCHANGED vars
  BY <1>a, <1>9 DEF SaveProject, SaveFails, ExportProblem, Close, WorkerExit, vars
<1>10. CASE OpenRefused
  BY <1>0, <1>a, <1>10, RefusedKeeps
<1>. QED BY <1>1, <1>2, <1>3, <1>4, <1>5, <1>6, <1>7, <1>8, <1>9, <1>10 DEF Next, Exited
-----------------------------------------------------------------------------
(* The steps of a request.                                                 *)

\* Only solve, the two steps of the worker and the answer's slot touch the queues.
LEMMA RequestSteps ==
  ASSUME [Next]_vars
  PROVE  \/ UNCHANGED <<requests, worker, results, lastRequest>>
         \/ Solve \/ WorkerBegin \/ WorkerFinish \/ OnSolveFinished
<1>. USE DEF requestVars, threadVars, storeVars, projectVars, editorVars, resultVars
<1>1. CASE CreateProblem
  BY <1>1 DEF CreateProblem
<1>2. CASE \/ \E row \in DOMAIN explorer : SelectProblem(row) \/ RemoveProblemAt(row)
           \/ \E row \in DOMAIN explorer, name \in TypedNames : RenameProblemAt(row, name)
           \/ \E row \in DOMAIN explorer : DuplicateProblemAt(row)
           \/ \E text \in TypedTexts : TypeText(text)
           \/ \E text \in ImportTexts : ImportSmtLib2(text)
  BY <1>2 DEF SelectProblem, RemoveProblemAt, RenameProblemAt, DuplicateProblemAt, TypeText,
              ImportSmtLib2
<1>3. CASE SolveRefused \/ Stop \/ ExportProblem \/ Close \/ WorkerExit \/ UNCHANGED vars
  BY <1>3 DEF SolveRefused, Stop, ExportProblem, Close, WorkerExit, vars
<1>4. CASE OpenProject \/ OpenRefused \/ SaveProject \/ SaveFails
  BY <1>4 DEF OpenProject, OpenRefused, SaveProject, SaveFails
<1>. QED BY <1>1, <1>2, <1>3, <1>4 DEF Next, Exited

\* solve() posts one job, about the text the editor shows.
LEMMA SolvePosts ==
  ASSUME StateInv, Solve
  PROVE  /\ UNCHANGED <<problems, current, lastId>>
         /\ lastRequest' # lastRequest /\ status' = "SOLVING" /\ current # 0
         /\ PendingProblem' = editor'.problem.id
         /\ results' = <<>>
         /\ Concerns(requests', worker', results', editor'.problem.source)
         /\ PendingProblem = 0
         /\ ~HasProblem(problems, current) => UNCHANGED <<editor, panel>>
         /\ HasProblem(problems, current) => /\ editor' = Reparsed(FindProblem(problems, current))
                                             /\ Cleared
<1>. USE DEF requestVars, threadVars, storeVars, projectVars, editorVars, resultVars
<1>. DEFINE job == [req |-> lastRequest', problem |-> editor'.problem]
<1>1. TypeOK /\ OneJobInFlight /\ lastRequest \in Nat
  BY DEF StateInv, JobInv, TypeOK
<1>2. /\ ~busy /\ editor'.valid /\ lastRequest' = lastRequest + 1 /\ current # 0
      /\ requests' = Append(requests, job) /\ status' = "SOLVING"
      /\ UNCHANGED <<problems, current, lastId, worker, results>>
  BY DEF Solve, Idle
<1>3. requests = <<>> /\ worker = NoJob /\ results = <<>>
  BY <1>1, <1>2, OneJobCases
<1>4. Checked(editor'.problem)
  <2>1. [Next]_vars /\ CheckInv
    BY DEF Next, StateInv
  <2>2. ValidIsChecked'
    BY <2>1, CheckNext
  <2>. QED BY <1>2, <2>2 DEF ValidIsChecked
<1>5. requests' # <<>> /\ Head(requests') = job
  BY <1>2, <1>3
<1>6. PendingProblem' = editor'.problem.id /\ PendingProblem = 0
  BY <1>3, <1>5 DEF PendingProblem
<1>7. Concerns(requests', worker', results', editor'.problem.source)
  BY <1>2, <1>3, <1>4, <1>5 DEF Concerns, Checked
<1>8. /\ ~HasProblem(problems, current) => UNCHANGED <<editor, panel>>
      /\ HasProblem(problems, current) =>
           /\ editor' = Reparsed(FindProblem(problems, current))
           /\ panel' = VariableRows(problems, current, editor', EmptyText)
  BY DEF Solve
<1>. QED BY <1>1, <1>2, <1>3, <1>6, <1>7, <1>8, NoModelNoValues DEF Cleared

\* doSolve and Z3Solver::solve hand the text of the job on, and answer for it.
LEMMA WorkerAnswers ==
  ASSUME StateInv, WorkerBegin \/ WorkerFinish
  PROVE  /\ UNCHANGED <<problems, current, editor, panel, status, lastId, lastRequest>>
         /\ PendingProblem' = PendingProblem
         /\ results' # <<>> => Head(results').id # 0
         /\ \A text : Concerns(requests, worker, results, text)
                        => Concerns(requests', worker', results', text)
<1>. USE DEF requestVars, threadVars, storeVars, projectVars, editorVars, resultVars
<1>1. TypeOK /\ OneJobInFlight /\ JobsAreChecked
  BY DEF StateInv, JobInv, CheckInv
<1>2. CASE WorkerBegin
  <2>. DEFINE job == Head(requests)
  <2>1. requests # <<>> /\ requests' = Tail(requests) /\ worker = NoJob
    BY <1>2 DEF WorkerBegin
  <2>2. Len(requests) = 1 /\ results = <<>> /\ requests \in Seq(Job)
    BY <1>1, <2>1, OneJobCases DEF TypeOK
  <2>3. requests' = <<>>
    BY <2>1, <2>2
  <2>4. Checked(job.problem) /\ job = requests[1]
    <3>1. 1 \in DOMAIN requests /\ job = requests[1]
      BY <2>1, <2>2
    <3>. QED BY <1>1, <3>1 DEF JobsAreChecked
  <2>5. job # NoJob /\ job.problem.id # 0
    BY <2>4 DEF NoJob, NoProblem, Checked
  <2>. HIDE DEF job
  <2>6. UNCHANGED <<problems, current, editor, panel, status, lastId, lastRequest>>
    BY <1>2 DEF WorkerBegin
  <2>7. PendingProblem = job.problem.id
    BY <2>1 DEF PendingProblem, job
  <2>8. CASE job.req \in armed
    <3>. DEFINE r == ResultOf(job, "UNKNOWN")
    <3>1. worker' = NoJob /\ results' = Append(results, r)
      BY <1>2, <2>1, <2>8 DEF WorkerBegin, AnswerCancelled, job
    <3>2. r.id = job.problem.id /\ r.verdict = "UNKNOWN" /\ r.model = EmptyText
      BY DEF ResultOf
    <3>. HIDE DEF r
    <3>3. results' # <<>> /\ Head(results') = r
      BY <2>2, <3>1
    <3>4. PendingProblem' = job.problem.id
      BY <2>3, <3>1, <3>2, <3>3 DEF PendingProblem
    <3>5. \A text : Concerns(requests', worker', results', text)
      BY <2>3, <3>1, <3>2, <3>3 DEF Concerns, Fits
    <3>. QED BY <2>5, <2>6, <2>7, <3>2, <3>3, <3>4, <3>5
  <2>9. CASE job.req \notin armed
    <3>1. worker' = job /\ results' = <<>>
      BY <1>2, <2>2, <2>9 DEF WorkerBegin, job
    <3>2. PendingProblem' = job.problem.id
      BY <2>3, <2>5, <3>1 DEF PendingProblem
    <3>3. \A text : Concerns(requests, worker, results, text)
                      => Concerns(requests', worker', results', text)
      BY <2>1, <2>3, <3>1 DEF Concerns, job
    <3>. QED BY <2>6, <2>7, <3>1, <3>2, <3>3
  <2>. QED BY <2>8, <2>9
<1>3. CASE WorkerFinish
  <2>1. PICK verdict \in Answers(worker.problem.contents) :
          /\ worker # NoJob /\ worker' = NoJob
          /\ results' = Append(results, ResultOf(worker, verdict))
    BY <1>3 DEF WorkerFinish
  <2>2. requests = <<>> /\ results = <<>>
    BY <1>1, <2>1, OneJobCases
  <2>3. requests' = <<>> /\ UNCHANGED <<problems, current, editor, panel, status, lastId, lastRequest>>
    BY <1>3, <2>2 DEF WorkerFinish
  <2>4. Checked(worker.problem)
    BY <1>1, <2>1 DEF JobsAreChecked
  <2>. DEFINE r == ResultOf(worker, verdict)
  <2>5. /\ r.id = worker.problem.id /\ r.verdict = verdict
        /\ r.model \in {worker.problem.contents, EmptyText}
    BY DEF ResultOf
  <2>. HIDE DEF r
  <2>6. results' # <<>> /\ Head(results') = r
    BY <2>1, <2>2 DEF r
  <2>7. PendingProblem = worker.problem.id /\ PendingProblem' = worker.problem.id
    BY <2>1, <2>2, <2>3, <2>5, <2>6 DEF PendingProblem
  <2>8. /\ verdict = "SAT" => worker.problem.contents \in SatTexts
        /\ verdict = "UNSAT" => worker.problem.contents \in ValidTexts \ SatTexts
    <3>1. worker.problem.contents \in ValidTexts
      BY <2>4 DEF Checked
    <3>. QED BY <3>1 DEF Answers
  <2>9. \A text : Concerns(requests, worker, results, text)
                    => Concerns(requests', worker', results', text)
    BY <2>1, <2>3, <2>5, <2>6, <2>8 DEF Concerns, Fits
  <2>. QED BY <2>3, <2>4, <2>5, <2>6, <2>7, <2>9 DEF Checked
<1>. QED BY <1>2, <1>3

\* onSolveFinished takes the only result; it reaches the screen when its
\* problem is the selected one.
LEMMA DeliverShows ==
  ASSUME StateInv, OnSolveFinished
  PROVE  /\ UNCHANGED <<problems, current, editor, lastId, lastRequest>>
         /\ results # <<>> /\ results' = <<>> /\ PendingProblem' = 0
         /\ \/ UNCHANGED <<panel, status>>
            \/ /\ current = PendingProblem /\ current # 0
               /\ status' = Head(results).verdict
               /\ panel'.values \in {Head(results).model, EmptyText}
<1>. USE DEF requestVars, threadVars, storeVars, projectVars, editorVars, resultVars
<1>1. TypeOK /\ OneJobInFlight /\ IdsTravel
  BY DEF StateInv, JobInv
<1>2. /\ results # <<>> /\ results' = Tail(results)
      /\ UNCHANGED <<problems, current, editor, lastId, lastRequest, requests, worker>>
      /\ \/ UNCHANGED <<panel, status>>
         \/ /\ Head(results).id = current /\ status' = Head(results).verdict
            /\ panel' = VariableRows(problems, current, editor, Head(results).model)
  BY DEF OnSolveFinished, IsForSelected, ApplyResult
<1>3. requests = <<>> /\ worker = NoJob /\ Len(results) = 1 /\ results \in Seq(Result)
  BY <1>1, <1>2, OneJobCases DEF TypeOK
<1>4. results' = <<>>
  BY <1>2, <1>3
<1>5. PendingProblem = Head(results).id /\ PendingProblem' = 0
  BY <1>2, <1>3, <1>4 DEF PendingProblem
<1>6. panel' = VariableRows(problems, current, editor, Head(results).model)
        => panel'.values \in {Head(results).model, EmptyText}
  BY DEF VariableRows
<1>. QED BY <1>1, <1>2, <1>4, <1>5, <1>6 DEF IdsTravel
-----------------------------------------------------------------------------
(* The invariant of the workbench itself.                                  *)

\* Every step keeps the ids in the editor and in flight among those issued.
LEMMA IdsTravelNext ==
  ASSUME StateInv, [Next]_vars
  PROVE  IdsTravel'
<1>0. IdInv /\ IdsIssued' /\ TypeOK' /\ IdsTravel /\ lastId \in Nat
  BY TypeNext, IdNext DEF StateInv, CheckInv, IdInv, TypeOK
<1>1. lastId' \in Nat /\ lastId <= lastId'
  BY <1>0, LastIdGrows
<1>2. editor'.problem.id \in 0..lastId'
  <2>1. CASE StepReparses
    <3>1. FindProblem(problems', current') \in Problem /\ FindProblem(problems', current').id = current'
      BY <1>0, <2>1, FindProblemType DEF StepReparses, TypeOK
    <3>2. editor'.problem.id = current'
      BY <2>1, <3>1, ReparsedType DEF StepReparses
    <3>. QED BY <1>0, <3>2 DEF IdsIssued
  <2>2. CASE StepEmpties
    BY <1>1, <2>2 DEF StepEmpties, EmptyEditor, NoProblem
  <2>3. CASE StepKeeps \/ StepFindsTemplate
    <3>1. editor' = editor
      BY <2>3 DEF StepKeeps, StepFindsTemplate
    <3>. QED BY <1>0, <1>1, <3>1 DEF IdsTravel
  <2>. QED BY <1>0, <2>1, <2>2, <2>3, EditorSteps
<1>3. CASE UNCHANGED <<requests, worker, results, lastRequest>>
  <2>1. PendingProblem' = PendingProblem
    BY <1>3 DEF PendingProblem
  <2>. QED BY <1>0, <1>1, <1>2, <1>3, <2>1 DEF IdsTravel
<1>4. CASE Solve
  BY <1>2, <1>4, SolvePosts DEF IdsTravel
<1>5. CASE WorkerBegin \/ WorkerFinish
  BY <1>0, <1>1, <1>2, <1>5, WorkerAnswers DEF IdsTravel
<1>6. CASE OnSolveFinished
  BY <1>1, <1>2, <1>6, DeliverShows DEF IdsTravel
<1>. QED BY <1>3, <1>4, <1>5, <1>6, RequestSteps

\* Every step keeps the selected problem in the project as long as the editor's is.
LEMMA SelectionKnownNext ==
  ASSUME StateInv, [Next]_vars
  PROVE  SelectionKnown'
<1>. SUFFICES ASSUME HasProblem(problems', editor'.problem.id), current' # 0
              PROVE  HasProblem(problems', current')
  BY DEF SelectionKnown
<1>0. IdInv /\ IdsTravel /\ SelectionKnown /\ lastId \in Nat
  BY DEF StateInv, CheckInv, IdInv, TypeOK
<1>1. CASE StepKeeps
  <2>1. UNCHANGED <<editor, current>>
    BY <1>1 DEF StepKeeps
  <2>2. PICK i \in DOMAIN problems' : problems'[i].id = editor.problem.id
    BY <2>1 DEF HasProblem
  <2>3. ~(problems'[i].id > lastId)
    BY <1>0, <2>2 DEF IdsTravel
  <2>4. HasProblem(problems, editor.problem.id)
    BY <1>0, <2>2, <2>3, FreshOrKept
  <2>5. HasProblem(problems, current)
    BY <1>0, <2>1, <2>4 DEF SelectionKnown
  <2>. QED BY <1>0, <2>1, <2>3, <2>5, SelectedStays
<1>2. CASE StepEmpties \/ StepFindsTemplate \/ StepReparses
  BY <1>2 DEF StepEmpties, StepFindsTemplate, StepReparses
<1>. QED BY <1>0, <1>1, <1>2, EditorSteps

\* Every step keeps the invariants of the workbench.
LEMMA StateNext == StateInv /\ [Next]_vars => StateInv'
<1>. SUFFICES ASSUME StateInv, [Next]_vars PROVE StateInv'
  OBVIOUS
<1>1. JobInv /\ CheckInv /\ IdInv /\ SyncInv
  BY DEF StateInv, CheckInv, SyncInv
<1>2. JobInv'
  BY <1>1, TypeNext, OneJobNext DEF JobInv
<1>3. CheckInv'
  BY <1>1, TypeNext, IdNext, CheckNext DEF CheckInv, IdInv
<1>4. EditorParsed' /\ InSync'
  BY <1>1, SyncNext
<1>. QED BY <1>2, <1>3, <1>4, IdsTravelNext, SelectionKnownNext DEF StateInv

\* The invariants of the workbench hold at the start.
LEMMA StateInit == Init => StateInv
<1>. SUFFICES ASSUME Init PROVE StateInv
  OBVIOUS
<1>1. JobInv /\ CheckInv /\ EditorParsed /\ InSync
  BY TypeInit, IdInit, CheckInit, OneJobInit, SyncInit DEF JobInv, CheckInv, IdInv
<1>. DEFINE new   == NewProblem(1, << <<"problem", 1>> >>)
            first == [new EXCEPT !.source = Starter]
<1>2. problems = <<first>> /\ editor = Reparsed(first) /\ lastId = 1 /\ current = 1
      /\ requests = <<>> /\ worker = NoJob /\ results = <<>>
  BY DEF Init
<1>3. first.id = 1
  BY DEF NewProblem, NoProblem
<1>. HIDE DEF first
<1>4. first \in Problem
  BY <1>1, <1>2 DEF JobInv, TypeOK
<1>5. editor.problem.id = 1
  BY <1>2, <1>3, <1>4, ReparsedType
<1>6. PendingProblem = 0
  BY <1>2 DEF PendingProblem
<1>7. IdsTravel
  BY <1>2, <1>5, <1>6 DEF IdsTravel
<1>8. HasProblem(problems, current)
  BY <1>2, <1>3 DEF HasProblem
<1>. QED BY <1>1, <1>7, <1>8 DEF StateInv, SelectionKnown

-----------------------------------------------------------------------------
(* One text through the queues.                                            *)

\* An undisturbed state is a fresh request, or comes from an undisturbed one
\* by a step that leaves the text in flight alone.
LEMMA UndisturbedSteps ==
  ASSUME [HistoryNext]_historyVars, ~disturbed'
  PROVE  [Next]_vars /\ (StartsAfresh \/ (~disturbed /\ ~EditsPending))
<1>1. CASE HistoryNext
  BY <1>1 DEF HistoryNext
<1>2. CASE UNCHANGED historyVars
  <2>1. UNCHANGED vars /\ disturbed' = disturbed /\ problems' = problems
    BY <1>2 DEF historyVars, vars, projectVars
  <2>. QED BY <2>1 DEF EditsPending
<1>. QED BY <1>1, <1>2

\* Nothing on the screen fits any text.
LEMMA ClearedFits ==
  ASSUME Cleared, NEW text
  PROVE  Fits(status', panel'.values, text)
BY DEF Cleared, Fits

\* After every step that leaves the text in flight undisturbed, the screen fits
\* the editor's text.
LEMMA ScreenNext ==
  ASSUME HistoryInv, [HistoryNext]_historyVars, ~disturbed'
  PROVE  Fits(status', panel'.values, editor'.problem.source)
<1>. USE DEF HistoryInv
<1>1. [Next]_vars /\ (StartsAfresh \/ (~disturbed /\ ~EditsPending))
  BY UndisturbedSteps
<1>2. IdInv
  BY DEF StateInv, CheckInv
<1>3. ~disturbed => Fits(status, panel.values, editor.problem.source)
  BY DEF ScreenFits
<1>4. CASE Solve
  <2>1. CASE HasProblem(problems, current)
    BY <1>4, <2>1, SolvePosts, ClearedFits
  <2>2. CASE ~HasProblem(problems, current)
    <3>1. ~disturbed
      BY <1>1, <2>2 DEF StartsAfresh
    <3>. QED BY <1>3, <1>4, <2>2, <3>1, SolvePosts DEF Fits
  <2>. QED BY <2>1, <2>2
<1>5. CASE WorkerBegin \/ WorkerFinish
  BY <1>1, <1>3, <1>5, WorkerAnswers DEF StartsAfresh
<1>6. CASE OnSolveFinished
  <2>1. ~disturbed
    BY <1>1, <1>6, DeliverShows DEF StartsAfresh
  <2>2. CASE UNCHANGED <<panel, status>>
    BY <1>3, <1>6, <2>1, <2>2, DeliverShows
  <2>3. CASE ~UNCHANGED <<panel, status>>
    <3>1. Concerns(requests, worker, results, editor.problem.source)
      BY <1>6, <2>1, <2>3, DeliverShows DEF PendingFits, EditorConcerned
    <3>. QED BY <1>6, <2>3, <3>1, DeliverShows DEF Concerns, Fits
  <2>. QED BY <2>2, <2>3
<1>7. CASE UNCHANGED <<requests, worker, results, lastRequest>> /\ ~OnSolveFinished
  <2>1. ~disturbed
    BY <1>1, <1>7 DEF StartsAfresh
  <2>2. CASE StepReparses \/ StepEmpties
    BY <2>2, ClearedFits DEF StepReparses, StepEmpties
  <2>3. CASE StepFindsTemplate
    BY <1>3, <2>1, <2>3 DEF StepFindsTemplate
  <2>4. CASE StepKeeps
    BY <1>3, <1>7, <2>1, <2>4 DEF StepKeeps, Fits
  <2>. QED BY <1>1, <1>2, <2>2, <2>3, <2>4, EditorSteps
<1>. QED BY <1>1, <1>4, <1>5, <1>6, <1>7, RequestSteps
\* The row of the selected problem has the text the editor has, after a step.
LEMMA RowOfSelected ==
  ASSUME InSync', NEW i \in DOMAIN problems', problems'[i].id = current'
  PROVE  problems'[i].source = editor'.problem.source
BY DEF InSync

\* Typing into the problem in flight disturbs it.
LEMMA TypingDisturbs ==
  ASSUME StateInv, StateInv', ~EditsPending, StepReparses, UNCHANGED current,
         HasProblem(problems, current),
         editor'.problem.source # editor.problem.source
  PROVE  current # PendingProblem
<1>. SUFFICES ASSUME current = PendingProblem PROVE FALSE
  OBVIOUS
<1>1. problems \in Seq(Problem) /\ problems' \in Seq(Problem) /\ InSync /\ InSync'
  BY DEF StateInv, JobInv, TypeOK
<1>2. HasProblem(problems', current)
  BY DEF StepReparses
<1>3. FindProblem(problems, current).source = editor.problem.source
  <2>1. /\ RowOf(problems, current) \in DOMAIN problems
        /\ FindProblem(problems, current) = problems[RowOf(problems, current)]
        /\ FindProblem(problems, current).id = current
    BY <1>1, FindProblemType
  <2>. QED BY <1>1, <2>1 DEF InSync
<1>4. FindProblem(problems', current).source = editor'.problem.source
  <2>1. /\ RowOf(problems', current) \in DOMAIN problems'
        /\ FindProblem(problems', current) = problems'[RowOf(problems', current)]
        /\ FindProblem(problems', current).id = current
    BY <1>1, <1>2, FindProblemType
  <2>. QED BY <1>1, <2>1, RowOfSelected
<1>. QED BY <1>2, <1>3, <1>4 DEF EditsPending

\* After every such step, what is on its way fits the problem it was sent for.
LEMMA PendingNext ==
  ASSUME HistoryInv, [HistoryNext]_historyVars, ~disturbed'
  PROVE  RowsConcerned' /\ EditorConcerned'
<1>. USE DEF HistoryInv
<1>1. [Next]_vars /\ (StartsAfresh \/ (~disturbed /\ ~EditsPending))
  BY UndisturbedSteps
<1>2. StateInv /\ StateInv'
  BY <1>1, StateNext
<1>3. /\ IdInv /\ IdsTravel /\ SelectionKnown /\ IdsIssued /\ InSync
      /\ IdsIssued' /\ InSync' /\ lastId \in Nat
  BY <1>2 DEF StateInv, CheckInv, IdInv, TypeOK
<1>4. ~disturbed => RowsConcerned /\ EditorConcerned
  BY DEF PendingFits
<1>5. CASE Solve
  <2>1. Concerns(requests', worker', results', editor'.problem.source)
    BY <1>2, <1>5, SolvePosts
  <2>2. EditorConcerned'
    BY <2>1 DEF EditorConcerned
  <2>3. ASSUME NEW i \in DOMAIN problems', problems'[i].id = PendingProblem'
        PROVE  problems'[i].source = editor'.problem.source
    <3>1. problems' = problems /\ current' = current /\ PendingProblem' = editor'.problem.id
      BY <1>2, <1>5, SolvePosts
    <3>2. HasProblem(problems, current)
      <4>1. SUFFICES ASSUME ~HasProblem(problems, current) PROVE FALSE
        OBVIOUS
      <4>2. editor' = editor /\ current # 0
        BY <1>2, <1>5, <4>1, SolvePosts
      <4>3. HasProblem(problems, editor.problem.id)
        BY <2>3, <3>1, <4>2 DEF HasProblem
      <4>. QED BY <1>3, <4>1, <4>2, <4>3 DEF SelectionKnown
    <3>3. editor'.problem.id = current
      <4>1. editor' = Reparsed(FindProblem(problems, current))
        BY <1>2, <1>5, <3>2, SolvePosts
      <4>2. problems \in Seq(Problem)
        BY <1>3 DEF IdInv, TypeOK
      <4>3. FindProblem(problems, current) \in Problem /\ FindProblem(problems, current).id = current
        BY <3>2, <4>2, FindProblemType
      <4>. QED BY <4>1, <4>3, ReparsedType
    <3>. QED BY <1>3, <2>3, <3>1, <3>3, RowOfSelected
  <2>. QED BY <2>1, <2>2, <2>3 DEF RowsConcerned
<1>6. CASE WorkerBegin \/ WorkerFinish
  <2>1. ~disturbed
    BY <1>1, <1>2, <1>6, WorkerAnswers DEF StartsAfresh
  <2>2. UNCHANGED <<problems, current, editor>> /\ PendingProblem' = PendingProblem
    BY <1>2, <1>6, WorkerAnswers
  <2>3. \A text : Concerns(requests, worker, results, text)
                    => Concerns(requests', worker', results', text)
    BY <1>2, <1>6, WorkerAnswers
  <2>. QED BY <1>4, <2>1, <2>2, <2>3 DEF RowsConcerned, EditorConcerned
<1>7. CASE OnSolveFinished
  <2>1. problems' = problems /\ current' = current /\ PendingProblem' = 0
    BY <1>2, <1>7, DeliverShows
  <2>2. \A i \in DOMAIN problems' : problems'[i].id # 0
    BY <1>3 DEF IdsIssued
  <2>. QED BY <2>1, <2>2 DEF RowsConcerned, EditorConcerned
<1>8. CASE UNCHANGED <<requests, worker, results, lastRequest>>
  <2>1. ~disturbed /\ ~EditsPending
    BY <1>1, <1>8 DEF StartsAfresh
  <2>2. PendingProblem' = PendingProblem
    BY <1>8 DEF PendingProblem
  <2>3. RowsConcerned'
    <3>1. ASSUME NEW i \in DOMAIN problems', problems'[i].id = PendingProblem
          PROVE  Concerns(requests, worker, results, problems'[i].source)
      <4>1. ~(problems'[i].id > lastId)
        BY <1>3, <3>1 DEF IdsTravel
      <4>2. RowsKept \/ (RowsKeptBut(current) /\ current # PendingProblem)
        BY <1>1, <1>2, <1>3, <2>1, RowsSteps, TypingDisturbs
      <4>3. PICK j \in DOMAIN problems : problems[j].id = problems'[i].id
                                         /\ problems[j].source = problems'[i].source
        BY <3>1, <4>1, <4>2 DEF RowsKept, RowsKeptBut
      <4>. QED BY <1>4, <2>1, <3>1, <4>3 DEF RowsConcerned
    <3>. QED BY <1>8, <2>2, <3>1 DEF RowsConcerned
  <2>4. EditorConcerned'
    <3>1. CASE StepReparses
      <4>1. PICK i \in DOMAIN problems' : problems'[i].id = current'
        BY <3>1 DEF StepReparses, HasProblem
      <4>2. problems'[i].source = editor'.problem.source
        BY <1>3, <4>1, RowOfSelected
      <4>. QED BY <2>3, <4>1, <4>2 DEF RowsConcerned, EditorConcerned
    <3>2. CASE StepEmpties
      BY <3>2 DEF StepEmpties, EditorConcerned
    <3>3. CASE StepFindsTemplate
      <4>1. current' # PendingProblem'
        BY <1>3, <2>2, <3>3 DEF StepFindsTemplate, IdsTravel
      <4>. QED BY <4>1 DEF EditorConcerned
    <3>4. CASE StepKeeps
      BY <1>4, <1>8, <2>1, <2>2, <3>4 DEF StepKeeps, EditorConcerned
    <3>. QED BY <1>1, <1>3, <3>1, <3>2, <3>3, <3>4, EditorSteps
  <2>. QED BY <2>3, <2>4
<1>. QED BY <1>1, <1>5, <1>6, <1>7, <1>8, RequestSteps

-----------------------------------------------------------------------------

\* The history invariant holds at the start.
LEMMA HistoryStarts == HistoryInit => HistoryInv
<1>. SUFFICES ASSUME HistoryInit PROVE HistoryInv
  OBVIOUS
<1>1. StateInv
  BY StateInit DEF HistoryInit
<1>2. /\ status = "" /\ panel.values = EmptyText
      /\ requests = <<>> /\ worker = NoJob /\ results = <<>>
  BY DEF HistoryInit, Init
<1>3. ScreenFits
  BY <1>2 DEF ScreenFits, Fits
<1>4. \A text : Concerns(requests, worker, results, text)
  BY <1>2 DEF Concerns
<1>. QED BY <1>1, <1>3, <1>4 DEF HistoryInv, PendingFits, RowsConcerned, EditorConcerned

\* Every step keeps the history invariant.
LEMMA HistoryKeeps == HistoryInv /\ [HistoryNext]_historyVars => HistoryInv'
<1>. SUFFICES ASSUME HistoryInv, [HistoryNext]_historyVars PROVE HistoryInv'
  OBVIOUS
<1>1. [Next]_vars
  BY DEF HistoryNext, historyVars
<1>2. StateInv'
  BY <1>1, StateNext DEF HistoryInv
<1>3. ScreenFits'
  BY ScreenNext DEF ScreenFits
<1>4. PendingFits'
  BY PendingNext DEF PendingFits
<1>. QED BY <1>2, <1>3, <1>4 DEF HistoryInv

\* As long as nobody edits the very text that is being solved, SAT, UNSAT and the
\* model values on the screen are those of the selected problem's text, whatever
\* the user selects, edits, creates, deletes, stops or opens meanwhile: ids alone
\* match a result to its problem (onSolveFinished), and that is enough.
THEOREM UndisturbedVerdictsFit == HistorySpec => []VerdictFitsUndisturbed
<1>1. HistoryInit => HistoryInv
  BY HistoryStarts
<1>2. HistoryInv /\ [HistoryNext]_historyVars => HistoryInv'
  BY HistoryKeeps
<1>3. HistoryInv => VerdictFitsUndisturbed
  <2>. SUFFICES ASSUME HistoryInv, ~disturbed, HasProblem(problems, current) PROVE VerdictFitsText
    BY DEF VerdictFitsUndisturbed, VerdictFitsText
  <2>1. problems \in Seq(Problem) /\ InSync
    BY DEF HistoryInv, StateInv, JobInv, TypeOK
  <2>2. /\ RowOf(problems, current) \in DOMAIN problems
        /\ FindProblem(problems, current) = problems[RowOf(problems, current)]
        /\ FindProblem(problems, current).id = current
    BY <2>1, FindProblemType
  <2>3. editor.problem.source = FindProblem(problems, current).source
    BY <2>1, <2>2 DEF InSync
  <2>4. Fits(status, panel.values, editor.problem.source)
    BY DEF HistoryInv, ScreenFits
  <2>. QED BY <2>3, <2>4 DEF Fits, VerdictFitsText
<1>. QED BY <1>1, <1>2, <1>3, PTL DEF HistorySpec
=============================================================================
