--------------------------- MODULE WorkspaceProofs ---------------------------
(***************************************************************************)
(* Facts about the operators of Project, and the theorems about Workspace  *)
(* that do not speak of the editor's text, for every value of the          *)
(* constants: any number of problems, of solve requests and of texts.      *)
(* First the operators, then the types of all variables, then ids and      *)
(* names, then solving: one job at a time, only jobs that were checked,    *)
(* and the two threads keep the promises of SolveSession.                  *)
(***************************************************************************)
EXTENDS Workspace, FiniteSetTheorems, SequenceTheorems, TLAPS

-----------------------------------------------------------------------------
(* Names.                                                                  *)

\* A non-empty set of naturals has a least member.
LEMMA LeastExists ==
  ASSUME NEW S \in SUBSET Nat, S # {}
  PROVE  \E k \in S : \A j \in S : k <= j
<1>1. IsWellFoundedOn(OpToRel(<,Nat), Nat)
  BY NatLessThanWellFounded
<1>2. PICK x \in S : \A y \in S : ~ (<<y, x>> \in OpToRel(<,Nat))
  BY <1>1, WFMin
<1>3. \A y \in S : y < x => <<y, x>> \in OpToRel(<, Nat)
  BY DEF OpToRel
<1>4. \A y \in S : ~ (y < x)
  BY <1>2, <1>3, Zenon
<1>. QED BY <1>4

\* A project has finitely many names.
LEMMA ProblemNamesFinite ==
  ASSUME NEW ps \in Seq(Problem)
  PROVE  /\ IsFiniteSet(ProblemNames(ps))
         /\ Cardinality(ProblemNames(ps)) \in Nat
<1>. DEFINE D == DOMAIN ps
            f == [i \in D |-> ps[i].name]
<1>1. IsFiniteSet(D)
  BY FS_Interval
<1>2. f \in Surjection(D, ProblemNames(ps))
  BY DEF Surjection, ProblemNames
<1>. QED BY <1>1, <1>2, FS_Surjection, FS_CardinalityType

\* makeUniqueName returns a name that nobody has, whatever names are taken and
\* whatever the base is: one of the first n + 1 suffixes is free of n names.
THEOREM UniqueNameIsFree ==
  ASSUME NEW taken, IsFiniteSet(taken), NEW prefix \in Name, NEW word \in Words
  PROVE  /\ MakeUniqueName(prefix, word, taken) \in Name
         /\ MakeUniqueName(prefix, word, taken) \notin taken
<1>. DEFINE n    == Cardinality(taken)
            cand == [k \in 1..(n + 1) |-> Append(prefix, <<word, k>>)]
            free == { k \in 1..(n + 1) : Append(prefix, <<word, k>>) \notin taken }
<1>1. n \in Nat
  BY FS_CardinalityType
<1>2. free # {}
  <2>1. SUFFICES ASSUME free = {} PROVE FALSE
    OBVIOUS
  <2>2. cand \in [1..(n + 1) -> taken]
    BY <2>1
  <2>3. /\ IsFiniteSet(1..(n + 1))
        /\ Cardinality(1..(n + 1)) = n + 1
    BY <1>1, FS_Interval
  <2>a. Cardinality(taken) < Cardinality(1..(n + 1))
    BY <1>1, <2>3
  <2>. HIDE DEF cand
  <2>b. \E x, y \in 1..(n + 1) : x # y /\ cand[x] = cand[y]
    BY <2>2, <2>3, <2>a, FS_PigeonHole
  <2>4. PICK x, y \in 1..(n + 1) : x # y /\ cand[x] = cand[y]
    BY <2>b
  <2>. USE DEF cand
  <2>5. Append(prefix, <<word, x>>) = Append(prefix, <<word, y>>)
    BY <2>4
  <2>6. <<word, x>> \in Words \X Nat /\ <<word, y>> \in Words \X Nat
    BY <1>1
  <2>7. <<word, x>> = <<word, y>>
    BY <2>5, <2>6, AppendProperties DEF Name
  <2>. QED BY <2>4, <2>7
<1>3. free \in SUBSET Nat
  <2>1. 1..(n + 1) \in SUBSET Nat
    BY <1>1
  <2>2. free \in SUBSET (1..(n + 1))
    OBVIOUS
  <2>. HIDE DEF free, n
  <2>. QED BY <2>1, <2>2
<1>. DEFINE least == CHOOSE k1 \in free : \A j \in free : k1 <= j
<1>4. least \in free
  <2>. HIDE DEF free
  <2>1. \E k \in free : \A j \in free : k <= j
    BY <1>2, <1>3, LeastExists
  <2>. QED BY <2>1
<1>5. MakeUniqueName(prefix, word, taken) = Append(prefix, <<word, least>>)
  BY DEF MakeUniqueName
<1>6. least \in Nat /\ Append(prefix, <<word, least>>) \notin taken
  BY <1>3, <1>4
<1>. HIDE DEF least
<1>7. <<word, least>> \in Words \X Nat
  BY <1>6
<1>8. Append(prefix, <<word, least>>) \in Seq(Words \X Nat)
  BY <1>7 DEF Name
<1>. QED BY <1>5, <1>6, <1>8 DEF Name

-----------------------------------------------------------------------------
(* Types.                                                                  *)

\* The problem the default constructor makes is a Problem.
LEMMA NoProblemType == NoProblem \in Problem
BY TextAssumption DEF NoProblem, Problem, Name

\* A new problem has the id and the name it was given, and no text.
LEMMA NewProblemType ==
  ASSUME NEW id \in Nat, NEW name \in Name
  PROVE  /\ NewProblem(id, name) \in Problem
         /\ NewProblem(id, name).id = id
         /\ NewProblem(id, name).name = name
BY NoProblemType DEF NewProblem, NoProblem, Problem

\* rebuildProblemFromSource keeps the id and the name, and what it accepts it
\* stores as text and contents.
LEMMA RebuildType ==
  ASSUME NEW p \in Problem, NEW text \in Texts
  PROVE  /\ RebuildFromSource(p, text) \in Problem
         /\ RebuildFromSource(p, text).id = p.id
         /\ RebuildFromSource(p, text).name = p.name
         /\ Rebuilds(text) => /\ RebuildFromSource(p, text).source = text
                              /\ RebuildFromSource(p, text).contents = text
BY DEF RebuildFromSource, Problem

\* A copy has the id and the name it was given.
LEMMA DuplicateType ==
  ASSUME NEW p \in Problem, NEW id \in Nat, NEW name \in Name
  PROVE  /\ Duplicate(p, id, name) \in Problem
         /\ Duplicate(p, id, name).id = id
         /\ Duplicate(p, id, name).name = name
BY DEF Duplicate, Problem

\* Setting the text or the name of a problem leaves its other fields.
LEMMA UpdateType ==
  ASSUME NEW p \in Problem, NEW text \in Texts, NEW name \in Name
  PROVE  /\ [p EXCEPT !.source = text] \in Problem
         /\ [p EXCEPT !.source = text].id = p.id
         /\ [p EXCEPT !.source = text].name = p.name
         /\ [p EXCEPT !.source = text].source = text
         /\ [p EXCEPT !.name = name] \in Problem
         /\ [p EXCEPT !.name = name].id = p.id
         /\ [p EXCEPT !.name = name].name = name
BY DEF Problem

\* findProblem returns a problem of the list that has the id.
LEMMA FindProblemType ==
  ASSUME NEW ps \in Seq(Problem), NEW id, HasProblem(ps, id)
  PROVE  /\ RowOf(ps, id) \in DOMAIN ps
         /\ FindProblem(ps, id) = ps[RowOf(ps, id)]
         /\ FindProblem(ps, id) \in Problem
         /\ FindProblem(ps, id).id = id
<1>1. PICK i \in DOMAIN ps : ps[i].id = id
  BY DEF HasProblem
<1>2. RowOf(ps, id) \in DOMAIN ps /\ ps[RowOf(ps, id)].id = id
  BY <1>1 DEF RowOf
<1>. QED BY <1>2 DEF FindProblem

\* setSourceText changes one text and neither ids nor names.
LEMMA SetSourceTextType ==
  ASSUME NEW ps \in Seq(Problem), NEW id, HasProblem(ps, id), NEW text \in Texts
  PROVE  /\ SetSourceText(ps, id, text) \in Seq(Problem)
         /\ DOMAIN SetSourceText(ps, id, text) = DOMAIN ps
         /\ \A i \in DOMAIN ps : /\ SetSourceText(ps, id, text)[i].id = ps[i].id
                                 /\ SetSourceText(ps, id, text)[i].name = ps[i].name
<1>. DEFINE r == RowOf(ps, id)
<1>1. r \in DOMAIN ps
  BY FindProblemType
<1>. HIDE DEF r
<1>2. SetSourceText(ps, id, text) = [ps EXCEPT ![r] = [ps[r] EXCEPT !.source = text]]
  BY <1>1 DEF SetSourceText, r
<1>3. ps[r] \in Problem
  BY <1>1
<1>4. /\ [ps[r] EXCEPT !.source = text] \in Problem
      /\ [ps[r] EXCEPT !.source = text].id = ps[r].id
      /\ [ps[r] EXCEPT !.source = text].name = ps[r].name
  <2>1. ps[r].name \in Name
    BY <1>3 DEF Problem
  <2>. QED BY <1>3, <2>1, UpdateType
<1>. QED BY <1>1, <1>2, <1>4

\* adoptProblem appends.
LEMMA AdoptType ==
  ASSUME NEW ps \in Seq(Problem), NEW p \in Problem
  PROVE  /\ AdoptProblem(ps, p) \in Seq(Problem)
         /\ DOMAIN AdoptProblem(ps, p) = 1..(Len(ps) + 1)
         /\ AdoptProblem(ps, p)[Len(ps) + 1] = p
         /\ \A i \in DOMAIN ps : AdoptProblem(ps, p)[i] = ps[i]
         /\ DOMAIN ps = 1..Len(ps)
BY DEF AdoptProblem

\* removeProblem: the rows after the removed one move up by one.
LEMMA RemoveType ==
  ASSUME NEW ps \in Seq(Problem), NEW row \in DOMAIN ps
  PROVE  /\ RemoveProblem(ps, row) \in Seq(Problem)
         /\ DOMAIN RemoveProblem(ps, row) = 1..(Len(ps) - 1)
         /\ \A i \in 1..(Len(ps) - 1) :
              RemoveProblem(ps, row)[i] = IF i < row THEN ps[i] ELSE ps[i + 1]
<1>1. /\ row \in 1..Len(ps)
      /\ Len(ps) \in Nat
  OBVIOUS
<1>2. /\ SubSeq(ps, 1, row - 1) \in Seq(Problem)
      /\ Len(SubSeq(ps, 1, row - 1)) = row - 1
      /\ \A i \in 1..(row - 1) : SubSeq(ps, 1, row - 1)[i] = ps[i]
  BY <1>1
<1>3. /\ SubSeq(ps, row + 1, Len(ps)) \in Seq(Problem)
      /\ Len(SubSeq(ps, row + 1, Len(ps))) = Len(ps) - row
      /\ \A i \in 1..(Len(ps) - row) : SubSeq(ps, row + 1, Len(ps))[i] = ps[row + i]
  BY <1>1
<1>4. RemoveProblem(ps, row) = SubSeq(ps, 1, row - 1) \o SubSeq(ps, row + 1, Len(ps))
  BY DEF RemoveProblem, RemoveAt
<1>. DEFINE front == SubSeq(ps, 1, row - 1)
            back  == SubSeq(ps, row + 1, Len(ps))
<1>. HIDE DEF front, back
<1>5. /\ front \o back \in Seq(Problem)
      /\ Len(front \o back) = Len(ps) - 1
      /\ \A i \in 1..(Len(ps) - 1) :
           (front \o back)[i] = IF i < row THEN front[i] ELSE back[i - (row - 1)]
  <2>1. front \in Seq(Problem) /\ Len(front) = row - 1
    BY <1>2 DEF front
  <2>2. back \in Seq(Problem) /\ Len(back) = Len(ps) - row
    BY <1>3 DEF back
  <2>3. Len(front) + Len(back) = Len(ps) - 1
    BY <1>1, <2>1, <2>2
  <2>4. /\ front \o back \in Seq(Problem)
        /\ Len(front \o back) = Len(ps) - 1
        /\ \A i \in 1..(Len(ps) - 1) :
             (front \o back)[i] = IF i <= row - 1 THEN front[i] ELSE back[i - (row - 1)]
    BY <2>1, <2>2, <2>3, ConcatProperties, SMTT(30)
  <2>5. \A i \in 1..(Len(ps) - 1) : i <= row - 1 <=> i < row
    BY <1>1
  <2>. QED BY <2>4, <2>5
<1>6. \A i \in 1..(Len(ps) - 1) :
        /\ i < row => front[i] = ps[i]
        /\ ~(i < row) => back[i - (row - 1)] = ps[i + 1]
  <2>. TAKE i \in 1..(Len(ps) - 1)
  <2>1. ASSUME i < row PROVE front[i] = ps[i]
    BY <1>1, <1>2, <2>1 DEF front
  <2>2. ASSUME ~(i < row) PROVE back[i - (row - 1)] = ps[i + 1]
    <3>1. /\ i - (row - 1) \in 1..(Len(ps) - row)
          /\ row + (i - (row - 1)) = i + 1
      BY <1>1, <2>2
    <3>2. back[i - (row - 1)] = ps[row + (i - (row - 1))]
      BY <1>3, <3>1 DEF back
    <3>. QED BY <3>1, <3>2
  <2>. QED BY <2>1, <2>2
<1>7. RemoveProblem(ps, row) = front \o back
  BY <1>4 DEF front, back
<1>. QED BY <1>1, <1>5, <1>6, <1>7

\* renameProblem changes one name and no id.
LEMMA RenameType ==
  ASSUME NEW ps \in Seq(Problem), NEW row \in DOMAIN ps, NEW name \in Name
  PROVE  /\ RenameProblem(ps, row, name) \in Seq(Problem)
         /\ DOMAIN RenameProblem(ps, row, name) = DOMAIN ps
         /\ \A i \in DOMAIN ps :
              /\ RenameProblem(ps, row, name)[i].id = ps[i].id
              /\ RenameProblem(ps, row, name)[i].name = IF i = row THEN name ELSE ps[i].name
<1>1. RenameProblem(ps, row, name) = [ps EXCEPT ![row] = [ps[row] EXCEPT !.name = name]]
  BY DEF RenameProblem
<1>2. /\ [ps[row] EXCEPT !.name = name] \in Problem
      /\ [ps[row] EXCEPT !.name = name].id = ps[row].id
      /\ [ps[row] EXCEPT !.name = name].name = name
  <2>1. ps[row] \in Problem
    OBVIOUS
  <2>2. ps[row].source \in Texts
    BY <2>1 DEF Problem
  <2>. QED BY <2>1, <2>2, UpdateType
<1>. QED BY <1>1, <1>2

\* A load makes one problem per entry, numbered after the last id issued, with
\* the entry's name.
LEMMA LoadType ==
  ASSUME NEW doc \in Seq(DocumentEntry), NEW last \in Nat
  PROVE  /\ LoadProject(doc, last) \in Seq(Problem)
         /\ DOMAIN LoadProject(doc, last) = DOMAIN doc
         /\ \A i \in DOMAIN doc : /\ LoadProject(doc, last)[i].id = last + i
                                  /\ LoadProject(doc, last)[i].name = doc[i].name
<1>1. \A i \in DOMAIN doc : /\ doc[i].name \in Name
                            /\ doc[i].source \in Texts
                            /\ last + i \in Nat
  <2>1. \A i \in DOMAIN doc : doc[i] \in DocumentEntry /\ i \in Nat
    OBVIOUS
  <2>. QED BY <2>1 DEF DocumentEntry
<1>. DEFINE made(i) == RebuildFromSource(NewProblem(last + i, doc[i].name), doc[i].source)
<1>2. \A i \in DOMAIN doc : /\ made(i) \in Problem
                            /\ made(i).id = last + i
                            /\ made(i).name = doc[i].name
  <2>. SUFFICES ASSUME NEW i \in DOMAIN doc
                PROVE  /\ made(i) \in Problem
                       /\ made(i).id = last + i
                       /\ made(i).name = doc[i].name
    OBVIOUS
  <2>1. /\ NewProblem(last + i, doc[i].name) \in Problem
        /\ NewProblem(last + i, doc[i].name).id = last + i
        /\ NewProblem(last + i, doc[i].name).name = doc[i].name
    BY <1>1, NewProblemType
  <2>. QED BY <1>1, <2>1, RebuildType
<1>3. LoadProject(doc, last) = [i \in DOMAIN doc |-> made(i)]
  BY DEF LoadProject
<1>4. DOMAIN doc = 1..Len(doc) /\ Len(doc) \in Nat
  OBVIOUS
<1>. HIDE DEF made
<1>. QED BY <1>2, <1>3, <1>4

\* encodeProject writes one entry per problem.
LEMMA EncodeType ==
  ASSUME NEW ps \in Seq(Problem)
  PROVE  EncodeProject(ps) \in Seq(DocumentEntry)
<1>1. \A i \in DOMAIN ps : [name |-> ps[i].name, source |-> ps[i].source] \in DocumentEntry
  <2>1. \A i \in DOMAIN ps : ps[i] \in Problem
    OBVIOUS
  <2>2. \A i \in DOMAIN ps : ps[i].name \in Name /\ ps[i].source \in Texts
    BY <2>1 DEF Problem
  <2>. QED BY <2>2 DEF DocumentEntry
<1>2. DOMAIN ps = 1..Len(ps) /\ Len(ps) \in Nat
  OBVIOUS
<1>. QED BY <1>1, <1>2 DEF EncodeProject

-----------------------------------------------------------------------------
(* Types of the views the handlers share.                                  *)

\* Every row the explorer shows has an id and a name.
LEMMA ExplorerRowsType ==
  ASSUME NEW ps \in Seq(Problem)
  PROVE  ExplorerRows(ps) \in Seq(Row)
<1>1. \A i \in DOMAIN ps : [id |-> ps[i].id, name |-> ps[i].name] \in Row
  <2>1. \A i \in DOMAIN ps : ps[i] \in Problem
    OBVIOUS
  <2>2. \A i \in DOMAIN ps : ps[i].id \in Nat /\ ps[i].name \in Name
    BY <2>1 DEF Problem
  <2>. QED BY <2>2 DEF Row
<1>2. DOMAIN ps = 1..Len(ps) /\ Len(ps) \in Nat
  OBVIOUS
<1>. QED BY <1>1, <1>2 DEF ExplorerRows

\* A panel shows the contents of one text beside the values of another.
LEMMA VariableRowsType ==
  ASSUME NEW ps \in Seq(Problem), NEW id, NEW e \in Editor, NEW model \in Texts
  PROVE  VariableRows(ps, id, e, model) \in Panel
<1>1. EmptyText \in Texts
  BY TextAssumption
<1>2. e.problem.contents \in Texts
  BY DEF Editor, Problem
<1>3. HasProblem(ps, id) => FindProblem(ps, id).contents \in Texts
  <2>1. HasProblem(ps, id) => FindProblem(ps, id) \in Problem
    BY FindProblemType
  <2>. QED BY <2>1 DEF Problem
<1>. QED BY <1>1, <1>2, <1>3 DEF VariableRows, Panel

\* Re-parsing a problem yields an editor for the same problem; it is valid when
\* the text parses, and its contents are then those of the text.
LEMMA ReparsedType ==
  ASSUME NEW p \in Problem
  PROVE  /\ Reparsed(p) \in Editor
         /\ Reparsed(p).problem \in Problem
         /\ Reparsed(p).problem.id = p.id
         /\ Reparsed(p).problem.source = p.source
         /\ Reparsed(p).valid <=> p.source \in ValidTexts
         /\ Reparsed(p).valid => Reparsed(p).problem.contents = p.source
<1>1. p.source \in Texts
  BY DEF Problem
<1>2. /\ RebuildFromSource(p, p.source) \in Problem
      /\ RebuildFromSource(p, p.source).id = p.id
      /\ Rebuilds(p.source) => /\ RebuildFromSource(p, p.source).source = p.source
                               /\ RebuildFromSource(p, p.source).contents = p.source
  BY <1>1, RebuildType
<1>3. RebuildFromSource(p, p.source).source = p.source
  BY <1>2 DEF RebuildFromSource
<1>4. Rebuilds(p.source) \in BOOLEAN /\ (~Rebuilds(p.source)) \in BOOLEAN
  BY DEF Rebuilds
<1>. QED BY <1>2, <1>3, <1>4 DEF Reparsed, Editor, Rebuilds

-----------------------------------------------------------------------------
(* Types of what the handlers share.                                       *)

\* reparseEditor keeps the editor, the status and the panel well typed.
LEMMA ReparseEditorType ==
  ASSUME editor \in Editor, status \in Statuses, panel \in Panel,
         NEW ps \in Seq(Problem), NEW id, ReparseEditor(ps, id)
  PROVE  editor' \in Editor /\ status' \in Statuses /\ panel' \in Panel
<1>1. CASE HasProblem(ps, id)
  <2>1. editor' = Reparsed(FindProblem(ps, id))
    BY <1>1 DEF ReparseEditor
  <2>2. editor' \in Editor
    BY <1>1, <2>1, FindProblemType, ReparsedType
  <2>3. status' \in {"", "INVALID"}
    BY <1>1 DEF ReparseEditor
  <2>4. panel' \in Panel
    <3>1. panel' = VariableRows(ps, id, editor', EmptyText)
      BY <1>1 DEF ReparseEditor
    <3>. QED BY <2>2, <3>1, VariableRowsType, TextAssumption
  <2>. QED BY <2>2, <2>3, <2>4 DEF Statuses
<1>2. CASE ~HasProblem(ps, id)
  BY <1>2 DEF ReparseEditor
<1>. QED BY <1>1, <1>2

\* The text of an editor is a text.
LEMMA EditorText ==
  ASSUME NEW e \in Editor
  PROVE  e.problem.source \in Texts
BY DEF Editor, Problem

\* setEditorText keeps the project and what is on the screen well typed, and
\* changes neither the ids nor the names of the project.
LEMMA SetEditorTextType ==
  ASSUME editor \in Editor, status \in Statuses, panel \in Panel, view \in Texts,
         NEW ps \in Seq(Problem), NEW id, NEW text \in Texts, SetEditorText(ps, id, text)
  PROVE  /\ problems' \in Seq(Problem)
         /\ DOMAIN problems' = DOMAIN ps
         /\ \A i \in DOMAIN ps : problems'[i].id = ps[i].id /\ problems'[i].name = ps[i].name
         /\ editor' \in Editor /\ status' \in Statuses /\ panel' \in Panel /\ view' \in Texts
<1>1. CASE TakesText(ps, id, text)
  <2>1. /\ problems' = SetSourceText(ps, id, text)
        /\ ReparseEditor(problems', id)
        /\ view' = editor'.problem.source
    BY <1>1 DEF SetEditorText
  <2>2. HasProblem(ps, id)
    BY <1>1 DEF TakesText
  <2>3. /\ problems' \in Seq(Problem)
        /\ DOMAIN problems' = DOMAIN ps
        /\ \A i \in DOMAIN ps : problems'[i].id = ps[i].id /\ problems'[i].name = ps[i].name
    BY <2>1, <2>2, SetSourceTextType
  <2>4. editor' \in Editor /\ status' \in Statuses /\ panel' \in Panel
    BY <2>1, <2>3, ReparseEditorType
  <2>5. view' \in Texts
    BY <2>1, <2>4, EditorText
  <2>. QED BY <2>3, <2>4, <2>5
<1>2. CASE ~TakesText(ps, id, text)
  BY <1>2 DEF SetEditorText
<1>. QED BY <1>1, <1>2

\* selectById keeps what is on the screen well typed.
LEMMA SelectByIdType ==
  ASSUME editor \in Editor, status \in Statuses, panel \in Panel,
         NEW ps \in Seq(Problem), NEW id \in Nat, SelectById(ps, id)
  PROVE  /\ current' \in Nat
         /\ editor' \in Editor /\ status' \in Statuses /\ panel' \in Panel /\ view' \in Texts
<1>1. editor' \in Editor /\ status' \in Statuses /\ panel' \in Panel
  BY ReparseEditorType DEF SelectById
<1>. QED BY <1>1, EditorText DEF SelectById

-----------------------------------------------------------------------------
(* Type correctness.                                                       *)

\* The constructor's state is well typed.
LEMMA TypeInit == Init => TypeOK
<1>. SUFFICES ASSUME Init PROVE TypeOK
  OBVIOUS
<1>. DEFINE new   == NewProblem(1, << <<"problem", 1>> >>)
            first == [new EXCEPT !.source = Starter]
<1>1. Starter \in Texts /\ EmptyText \in Texts
  BY TextAssumption, WorkspaceAssumption
<1>2. << <<"problem", 1>> >> \in Name
  <2>. DEFINE e == <<"problem", 1>>
  <2>1. e \in Words \X Nat
    BY WordAssumption
  <2>. HIDE DEF e
  <2>2. <<e>> \in Seq(Words \X Nat)
    BY <2>1
  <2>. QED BY <2>2 DEF Name, e
<1>3. new \in Problem
  BY <1>2, NewProblemType
<1>4. first \in Problem
  <2>. HIDE DEF new
  <2>. QED BY <1>1, <1>2, <1>3, UpdateType
<1>. HIDE DEF first
<1>5. problems \in Seq(Problem) /\ explorer \in Seq(Row) /\ editor \in Editor
  <2>1. problems = <<first>> /\ explorer = ExplorerRows(<<first>>) /\ editor = Reparsed(first)
    BY DEF Init, first
  <2>2. <<first>> \in Seq(Problem)
    BY <1>4
  <2>. QED BY <1>4, <2>1, <2>2, ExplorerRowsType, ReparsedType
<1>6. panel \in Panel
  BY <1>1 DEF Init, Panel
<1>7. worker \in Job
  BY NoProblemType DEF Init, NoJob, Job
<1>8. status \in Statuses /\ file \in Contents
  BY DEF Init, Statuses, Contents
<1>9. /\ lastId \in Nat /\ current \in Nat /\ view \in Texts /\ dirty \in BOOLEAN
      /\ busy \in BOOLEAN /\ lastRequest \in Nat /\ token \in Nat /\ armed \subseteq Nat
      /\ phase \in {"open", "closing", "exited"}
  BY <1>1 DEF Init
<1>10. requests \in Seq(Job) /\ results \in Seq(Result)
  <2>1. requests = <<>> /\ results = <<>>
    BY DEF Init
  <2>. QED BY <2>1
<1>. QED BY <1>5, <1>6, <1>7, <1>8, <1>9, <1>10 DEF TypeOK

\* A handler that touches the project but not the result, the threads or the
\* files leaves these as they were.
LEMMA TypeProblems ==
  ASSUME TypeOK,
         \/ CreateProblem
         \/ \E row \in DOMAIN explorer : SelectProblem(row)
         \/ \E row \in DOMAIN explorer : RemoveProblemAt(row)
         \/ \E row \in DOMAIN explorer, name \in TypedNames : RenameProblemAt(row, name)
         \/ \E row \in DOMAIN explorer : DuplicateProblemAt(row)
         \/ \E text \in TypedTexts : TypeText(text)
         \/ \E text \in ImportTexts : ImportSmtLib2(text)
  PROVE  TypeOK'
<1>. USE DEF TypeOK, requestVars, threadVars, storeVars, projectVars, editorVars, resultVars
<1>0. /\ EmptyText \in Texts /\ Starter \in Texts
      /\ TypedTexts \subseteq Texts /\ ImportTexts \subseteq Texts /\ TypedNames \subseteq Name
      /\ <<>> \in Name /\ "problem" \in Words /\ "copy" \in Words /\ "import" \in Words
  <2>1. /\ EmptyText \in Texts /\ Starter \in Texts
        /\ TypedTexts \subseteq Texts /\ ImportTexts \subseteq Texts /\ TypedNames \subseteq Name
    BY TextAssumption, WorkspaceAssumption
  <2>2. <<>> \in Seq(Words \X Nat)
    OBVIOUS
  <2>3. "problem" \in Words /\ "copy" \in Words /\ "import" \in Words
    BY WordAssumption
  <2>. QED BY <2>1, <2>2, <2>3 DEF Name
<1>1. IsFiniteSet(ProblemNames(problems))
  BY ProblemNamesFinite
<1>2. NextId(lastId) \in Nat
  BY DEF NextId
<1>3. CASE CreateProblem
  <2>. DEFINE name   == MakeUniqueName(<<>>, "problem", ProblemNames(problems))
              id     == NextId(lastId)
              listed == AdoptProblem(problems, NewProblem(id, name))
              ps     == SetSourceText(listed, id, Starter)
  <2>1. name \in Name
    BY <1>0, <1>1, UniqueNameIsFree
  <2>2. /\ NewProblem(id, name) \in Problem
        /\ NewProblem(id, name).id = id
    BY <1>2, <2>1, NewProblemType
  <2>3. listed \in Seq(Problem) /\ HasProblem(listed, id)
    <3>1. /\ listed \in Seq(Problem)
          /\ DOMAIN listed = 1..(Len(problems) + 1)
          /\ listed[Len(problems) + 1].id = id
      BY <2>2, AdoptType
    <3>2. Len(problems) + 1 \in 1..(Len(problems) + 1)
      OBVIOUS
    <3>. HIDE DEF listed
    <3>. QED BY <3>1, <3>2 DEF HasProblem
  <2>4. ps \in Seq(Problem)
    BY <1>0, <2>3, SetSourceTextType
  <2>5. /\ lastId' = id
        /\ explorer' = ExplorerRows(ps)
        /\ current' = id
        /\ SetEditorText(ps, id, Starter)
        /\ dirty' = TRUE
        /\ UNCHANGED <<requestVars, threadVars, file, phase>>
    BY <1>3 DEF CreateProblem, MarkDirty
  <2>. HIDE DEF name, id, listed, ps
  <2>6. explorer' \in Seq(Row)
    BY <2>4, <2>5, ExplorerRowsType
  <2>7. /\ problems' \in Seq(Problem) /\ editor' \in Editor
        /\ status' \in Statuses /\ panel' \in Panel /\ view' \in Texts
    BY <1>0, <2>4, <2>5, SetEditorTextType
  <2>8. id \in Nat
    BY <1>2 DEF id
  <2>. QED BY <2>5, <2>6, <2>7, <2>8
<1>4. ASSUME NEW row \in DOMAIN explorer, SelectProblem(row) PROVE TypeOK'
  <2>1. problems[row] \in Problem
    BY <1>4 DEF SelectProblem
  <2>2. problems[row].id \in Nat
    BY <2>1 DEF Problem
  <2>3. /\ current' \in Nat /\ editor' \in Editor
        /\ status' \in Statuses /\ panel' \in Panel /\ view' \in Texts
    BY <1>4, <2>2, SelectByIdType DEF SelectProblem
  <2>. QED BY <1>4, <2>3 DEF SelectProblem
<1>5. ASSUME NEW row \in DOMAIN explorer, RemoveProblemAt(row) PROVE TypeOK'
  <2>1. problems' \in Seq(Problem)
    BY <1>5, RemoveType DEF RemoveProblemAt
  <2>2. explorer' \in Seq(Row)
    BY <1>5, <2>1, ExplorerRowsType DEF RemoveProblemAt
  <2>3. EmptyEditor \in Editor
    BY NoProblemType DEF EmptyEditor, Editor
  <2>4. VariableRows(problems', 0, EmptyEditor, EmptyText) \in Panel
    BY <1>0, <2>1, <2>3, VariableRowsType
  <2>5. /\ current' \in Nat /\ editor' \in Editor
        /\ status' \in Statuses /\ panel' \in Panel /\ view' \in Texts
    <3>1. CASE current = problems[row].id
      <4>1. /\ current' = 0 /\ editor' = EmptyEditor /\ view' = EmptyText /\ status' = ""
            /\ panel' = VariableRows(problems', 0, EmptyEditor, EmptyText)
        BY <1>5, <3>1 DEF RemoveProblemAt
      <4>. QED BY <1>0, <2>3, <2>4, <4>1 DEF Statuses
    <3>2. CASE current # problems[row].id
      BY <1>5, <3>2 DEF RemoveProblemAt
    <3>. QED BY <3>1, <3>2
  <2>. QED BY <1>5, <2>1, <2>2, <2>5 DEF RemoveProblemAt, MarkDirty
<1>6. ASSUME NEW row \in DOMAIN explorer, NEW name \in TypedNames, RenameProblemAt(row, name)
      PROVE  TypeOK'
  <2>1. problems' \in Seq(Problem)
    BY <1>0, <1>6, RenameType DEF RenameProblemAt
  <2>2. explorer' \in Seq(Row)
    BY <1>6, <2>1, ExplorerRowsType DEF RenameProblemAt
  <2>. QED BY <1>6, <2>1, <2>2 DEF RenameProblemAt, MarkDirty
<1>7. ASSUME NEW row \in DOMAIN explorer, DuplicateProblemAt(row) PROVE TypeOK'
  <2>. DEFINE name == MakeUniqueName(problems[row].name, "copy", ProblemNames(problems))
              copy == Duplicate(problems[row], NextId(lastId), name)
  <2>1. problems[row] \in Problem
    BY <1>7 DEF DuplicateProblemAt
  <2>2. problems[row].name \in Name
    BY <2>1 DEF Problem
  <2>3. name \in Name
    BY <1>0, <1>1, <2>2, UniqueNameIsFree
  <2>4. copy \in Problem /\ copy.id = NextId(lastId)
    BY <1>2, <2>1, <2>3, DuplicateType
  <2>5. /\ lastId' = copy.id
        /\ problems' = AdoptProblem(problems, copy)
        /\ explorer' = ExplorerRows(problems')
    BY <1>7 DEF DuplicateProblemAt
  <2>. HIDE DEF copy
  <2>6. problems' \in Seq(Problem)
    BY <2>4, <2>5, AdoptType
  <2>7. explorer' \in Seq(Row) /\ lastId' \in Nat
    BY <1>2, <2>4, <2>5, <2>6, ExplorerRowsType
  <2>. QED BY <1>7, <2>6, <2>7 DEF DuplicateProblemAt, MarkDirty
<1>8. ASSUME NEW text \in TypedTexts, TypeText(text) PROVE TypeOK'
  <2>1. /\ problems' \in Seq(Problem) /\ editor' \in Editor /\ status' \in Statuses
        /\ panel' \in Panel /\ view' \in Texts /\ dirty' \in BOOLEAN
    <3>1. CASE TakesText(problems, current, text)
      BY <1>0, <1>8, <3>1, SetEditorTextType DEF TypeText, MarkDirty
    <3>2. CASE ~TakesText(problems, current, text)
      BY <1>0, <1>8, <3>2 DEF TypeText
    <3>. QED BY <3>1, <3>2
  <2>. QED BY <1>8, <2>1 DEF TypeText
<1>9. ASSUME NEW text \in ImportTexts, ImportSmtLib2(text) PROVE TypeOK'
  <2>. DEFINE name     == MakeUniqueName(<<>>, "import", ProblemNames(problems))
              new      == NewProblem(NextId(lastId), name)
              imported == RebuildFromSource(new, text)
  <2>1. name \in Name
    BY <1>0, <1>1, UniqueNameIsFree
  <2>2. new \in Problem /\ new.id = NextId(lastId)
    BY <1>2, <2>1, NewProblemType
  <2>3. text \in Texts
    BY <1>0
  <2>4. imported \in Problem /\ imported.id = NextId(lastId)
    <3>. HIDE DEF new
    <3>. QED BY <2>2, <2>3, RebuildType
  <2>5. /\ lastId' = imported.id
        /\ problems' = AdoptProblem(problems, imported)
        /\ explorer' = ExplorerRows(problems')
        /\ SelectById(problems', imported.id)
        /\ dirty' = TRUE
        /\ UNCHANGED <<requestVars, threadVars, file, phase>>
    BY <1>9 DEF ImportSmtLib2, MarkDirty
  <2>. HIDE DEF imported
  <2>6. problems' \in Seq(Problem)
    BY <2>4, <2>5, AdoptType
  <2>7. explorer' \in Seq(Row)
    BY <2>5, <2>6, ExplorerRowsType
  <2>8. imported.id \in Nat
    BY <1>2, <2>4
  <2>9. /\ current' \in Nat /\ editor' \in Editor
        /\ status' \in Statuses /\ panel' \in Panel /\ view' \in Texts
    BY <2>5, <2>6, <2>8, SelectByIdType
  <2>. QED BY <2>5, <2>6, <2>7, <2>8, <2>9
<1>. QED BY <1>3, <1>4, <1>5, <1>6, <1>7, <1>8, <1>9

\* The handlers and worker steps that solve, stop and answer keep the types.
LEMMA TypeSolving ==
  ASSUME TypeOK,
         Solve \/ SolveRefused \/ Stop \/ OnSolveFinished \/ WorkerBegin \/ WorkerFinish
  PROVE  TypeOK'
<1>. USE DEF TypeOK, requestVars, threadVars, storeVars, projectVars, editorVars, resultVars
<1>0. EmptyText \in Texts
  BY TextAssumption
<1>1. CASE Solve
  <2>1. editor' \in Editor /\ panel' \in Panel
    <3>1. CASE HasProblem(problems, current)
      <4>1. editor' = Reparsed(FindProblem(problems, current))
        BY <1>1, <3>1 DEF Solve
      <4>2. editor' \in Editor
        BY <3>1, <4>1, FindProblemType, ReparsedType
      <4>3. panel' = VariableRows(problems, current, editor', EmptyText)
        BY <1>1, <3>1 DEF Solve
      <4>. QED BY <1>0, <4>2, <4>3, VariableRowsType
    <3>2. CASE ~HasProblem(problems, current)
      BY <1>1, <3>2 DEF Solve
    <3>. QED BY <3>1, <3>2
  <2>2. editor'.problem \in Problem
    BY <2>1 DEF Editor
  <2>3. lastRequest' \in Nat /\ token' \in Nat /\ busy' \in BOOLEAN /\ status' \in Statuses
    <3>1. lastRequest' \in Nat /\ token' = lastRequest' /\ busy' = TRUE
      BY <1>1 DEF Solve
    <3>2. status' \in Statuses
      BY <1>1 DEF Solve, Statuses
    <3>. QED BY <3>1, <3>2
  <2>4. requests' \in Seq(Job)
    <3>1. [req |-> lastRequest', problem |-> editor'.problem] \in Job
      BY <2>2, <2>3 DEF Job
    <3>2. requests' = Append(requests, [req |-> lastRequest', problem |-> editor'.problem])
      BY <1>1 DEF Solve
    <3>. QED BY <3>1, <3>2, AppendProperties
  <2>5. UNCHANGED <<problems, lastId, current, view, explorer, armed, worker, results,
                    dirty, file, phase>>
    BY <1>1 DEF Solve
  <2>. QED BY <2>1, <2>3, <2>4, <2>5
<1>2. CASE SolveRefused
  <2>1. editor' \in Editor /\ status' \in Statuses /\ panel' \in Panel
    BY <1>2, ReparseEditorType DEF SolveRefused
  <2>. QED BY <1>2, <2>1 DEF SolveRefused
<1>3. CASE Stop
  BY <1>3 DEF Stop, Statuses
<1>4. CASE OnSolveFinished
  <2>1. results # <<>> /\ results' = Tail(results)
    BY <1>4 DEF OnSolveFinished
  <2>2. Head(results) \in Result /\ results' \in Seq(Result)
    BY <2>1, HeadTailProperties
  <2>3. Head(results).model \in Texts /\ Head(results).verdict \in Verdicts
    BY <2>2 DEF Result
  <2>4. VariableRows(problems, current, editor, Head(results).model) \in Panel
    BY <2>3, VariableRowsType
  <2>5. status' \in Statuses /\ panel' \in Panel
    BY <1>4, <2>3, <2>4 DEF OnSolveFinished, ApplyResult, Statuses
  <2>. QED BY <1>4, <2>2, <2>5 DEF OnSolveFinished, FinishRequest
<1>5. ASSUME NEW job \in Job, NEW verdict \in Verdicts PROVE ResultOf(job, verdict) \in Result
  <2>1. job.req \in Nat /\ job.problem \in Problem
    BY <1>5 DEF Job
  <2>2. job.problem.id \in Nat /\ job.problem.contents \in Texts
    BY <2>1 DEF Problem
  <2>. QED BY <1>0, <2>1, <2>2 DEF ResultOf, Result
<1>6. CASE WorkerBegin
  <2>1. requests # <<>> /\ requests' = Tail(requests)
    BY <1>6 DEF WorkerBegin
  <2>2. Head(requests) \in Job /\ requests' \in Seq(Job)
    BY <2>1, HeadTailProperties
  <2>3. worker' \in Job /\ results' \in Seq(Result)
    <3>1. ResultOf(Head(requests), "UNKNOWN") \in Result
      BY <1>5, <2>2 DEF Verdicts
    <3>2. \/ results' = Append(results, ResultOf(Head(requests), "UNKNOWN")) /\ UNCHANGED worker
          \/ worker' = Head(requests) /\ UNCHANGED results
      BY <1>6 DEF WorkerBegin, AnswerCancelled
    <3>3. Append(results, ResultOf(Head(requests), "UNKNOWN")) \in Seq(Result)
      BY <3>1, AppendProperties
    <3>. QED BY <2>2, <3>2, <3>3
  <2>. QED BY <1>6, <2>2, <2>3 DEF WorkerBegin
<1>7. CASE WorkerFinish
  <2>1. PICK verdict \in Answers(worker.problem.contents) :
          results' = Append(results, ResultOf(worker, verdict))
    BY <1>7 DEF WorkerFinish
  <2>2. verdict \in Verdicts
    BY DEF Answers, Verdicts
  <2>3. results' \in Seq(Result)
    BY <1>5, <2>1, <2>2, AppendProperties
  <2>4. worker' \in Job
    BY <1>7, NoProblemType DEF WorkerFinish, NoJob, Job
  <2>. QED BY <1>7, <2>3, <2>4 DEF WorkerFinish
<1>. QED BY <1>1, <1>2, <1>3, <1>4, <1>6, <1>7

\* An open that is refused half way leaves ids behind it, and nothing else.
LEMMA RefusedKeeps ==
  ASSUME TypeOK, OpenRefused
  PROVE  /\ lastId' \in Nat /\ lastId <= lastId'
         /\ UNCHANGED <<problems, editorVars, explorer, resultVars, requestVars, threadVars,
                        storeVars, phase>>
<1>1. PICK doc \in StoredProjects \union ({file} \ {NoFile, TornFile}) :
        \E row \in RefusedRows(doc) : lastId' = lastId + row /\ BuildApart(doc, row)
  BY DEF OpenRefused
<1>2. PICK row \in RefusedRows(doc) : lastId' = lastId + row /\ BuildApart(doc, row)
  BY <1>1
<1>3. doc \in Seq(DocumentEntry) /\ lastId \in Nat
  BY WorkspaceAssumption DEF TypeOK, Contents
<1>4. row \in DOMAIN doc
  BY DEF RefusedRows
<1>5. row \in Nat
  BY <1>3, <1>4
<1>. QED BY <1>2, <1>3, <1>5 DEF OpenRefused, BuildApart

\* The handlers that open, save and export, and the shutdown, keep the types.
LEMMA TypeFiles ==
  ASSUME TypeOK,
         \/ OpenProject \/ OpenRefused \/ SaveProject \/ SaveFails \/ ExportProblem
         \/ Close \/ WorkerExit \/ UNCHANGED vars
  PROVE  TypeOK'
<1>. USE DEF TypeOK, requestVars, threadVars, storeVars, projectVars, editorVars, resultVars
<1>1. CASE OpenProject
  <2>1. PICK doc \in StoredProjects \union ({file} \ {NoFile, TornFile}) :
          /\ problems' = LoadProject(doc, lastId)
          /\ lastId' = lastId + Len(doc)
          /\ file' = doc
    BY <1>1 DEF OpenProject
  <2>2. doc \in Seq(DocumentEntry)
    BY WorkspaceAssumption DEF Contents
  <2>3. problems' \in Seq(Problem)
    BY <2>1, <2>2, LoadType
  <2>4. lastId' \in Nat /\ file' \in Contents
    BY <2>1, <2>2 DEF Contents
  <2>. QED BY <1>1, <2>3, <2>4 DEF OpenProject
<1>2. CASE SaveProject
  <2>1. file' \in Contents
    BY <1>2, EncodeType DEF SaveProject, Contents
  <2>. QED BY <1>2, <2>1 DEF SaveProject
<1>3. CASE SaveFails
  BY <1>3 DEF SaveFails, Contents
<1>4. CASE ExportProblem
  <2>1. editor' \in Editor /\ status' \in Statuses /\ panel' \in Panel
    BY <1>4, ReparseEditorType DEF ExportProblem
  <2>. QED BY <1>4, <2>1 DEF ExportProblem
<1>5. CASE Close
  BY <1>5 DEF Close
<1>6. CASE WorkerExit
  BY <1>6 DEF WorkerExit
<1>7. CASE UNCHANGED vars
  BY <1>7 DEF vars
<1>8. CASE OpenRefused
  BY <1>8, RefusedKeeps
<1>. QED BY <1>1, <1>2, <1>3, <1>4, <1>5, <1>6, <1>7, <1>8

\* Every step keeps the types.
LEMMA TypeNext == TypeOK /\ [Next]_vars => TypeOK'
BY TypeProblems, TypeSolving, TypeFiles DEF Next, Exited

\* Every variable keeps its type: a problem list of problems, an editor with a
\* problem, a file that is torn, absent or a whole document.
THEOREM TypeCorrect == Spec => []TypeOK
BY TypeInit, TypeNext, PTL DEF Spec

-----------------------------------------------------------------------------
(* Ids and names: five handlers put problems into the project, and no two  *)
(* problems share an id or a name, nor does an id ever come back.          *)
(* IdsAndNamesUnique is not inductive: that a fresh id differs from all    *)
(* others needs IdsIssued, every id in the project was issued before.      *)

\* Every id of the project, and the selected one, was issued by the counter;
\* 0 is nobody's.
IdsIssued ==
  /\ \A i \in DOMAIN problems : problems[i].id \in 1..lastId
  /\ current \in 0..lastId

IdInv == TypeOK /\ IdsIssued /\ IdsAndNamesUnique

\* The list qs has the ids and the names of ps, row by row.
SameIdentities(ps, qs) ==
  /\ DOMAIN qs = DOMAIN ps
  /\ \A i \in DOMAIN ps : qs[i].id = ps[i].id /\ qs[i].name = ps[i].name

\* The list qs differs from ps by a last problem p with a free name.
AppendsNamed(ps, qs, p) ==
  /\ p.name \notin ProblemNames(ps)
  /\ DOMAIN qs = 1..(Len(ps) + 1)
  /\ qs[Len(ps) + 1].id = p.id /\ qs[Len(ps) + 1].name = p.name
  /\ \A i \in DOMAIN ps : qs[i].id = ps[i].id /\ qs[i].name = ps[i].name

-----------------------------------------------------------------------------
(* What the handlers do to the identities of the project.                  *)

\* A problem appended under the next id and a free name keeps both unique.
LEMMA AppendKeepsUnique ==
  ASSUME IdInv, NEW p \in Problem, AppendsNamed(problems, problems', p),
         p.id = lastId + 1, lastId' = lastId + 1, current' \in 0..lastId'
  PROVE  IdsIssued' /\ IdsAndNamesUnique'
<1>. USE DEF IdInv, TypeOK
<1>. DEFINE n == Len(problems)
<1>1. n \in Nat /\ DOMAIN problems = 1..n
  OBVIOUS
<1>2. \A i \in 1..n : /\ problems'[i].id = problems[i].id
                      /\ problems'[i].name = problems[i].name
                      /\ problems[i].id \in 1..lastId
                      /\ problems[i].name # p.name
  BY <1>1 DEF AppendsNamed, IdsIssued, ProblemNames
<1>3. problems'[n + 1].id = lastId + 1 /\ problems'[n + 1].name = p.name
  BY DEF AppendsNamed
<1>4. DOMAIN problems' = 1..(n + 1)
  BY DEF AppendsNamed
<1>5. \A i \in 1..(n + 1) : i \in 1..n \/ i = n + 1
  <2>. HIDE DEF n
  <2>. QED BY <1>1
<1>6. lastId \in Nat
  OBVIOUS
<1>7. IdsIssued'
  <2>1. \A i \in 1..(n + 1) : problems'[i].id \in 1..lastId'
    BY <1>2, <1>3, <1>5, <1>6
  <2>. QED BY <1>4, <2>1 DEF IdsIssued
<1>8. IdsAndNamesUnique'
  <2>. SUFFICES ASSUME NEW i \in 1..(n + 1), NEW j \in 1..(n + 1),
                       problems'[i].id = problems'[j].id \/ problems'[i].name = problems'[j].name
                PROVE  i = j
    BY <1>4 DEF IdsAndNamesUnique
  <2>1. \A k, l \in 1..n : problems[k].id = problems[l].id \/ problems[k].name = problems[l].name => k = l
    BY <1>1 DEF IdsAndNamesUnique
  <2>2. CASE i \in 1..n /\ j \in 1..n
    BY <1>2, <2>1, <2>2
  <2>3. CASE i \in 1..n /\ j = n + 1
    <3>1. problems'[i].id # problems'[j].id
      BY <1>2, <1>3, <1>6, <2>3
    <3>2. problems'[i].name # problems'[j].name
      BY <1>2, <1>3, <2>3
    <3>. QED BY <3>1, <3>2
  <2>4. CASE i = n + 1 /\ j \in 1..n
    <3>1. problems'[i].id # problems'[j].id
      BY <1>2, <1>3, <1>6, <2>4
    <3>2. problems'[i].name # problems'[j].name
      BY <1>2, <1>3, <2>4
    <3>. QED BY <3>1, <3>2
  <2>. QED BY <1>5, <2>2, <2>3, <2>4
<1>. QED BY <1>7, <1>8

\* A step that keeps identities row by row keeps them unique.
LEMMA SameKeepsUnique ==
  ASSUME IdInv, SameIdentities(problems, problems'), lastId' = lastId, current' \in 0..lastId
  PROVE  IdsIssued' /\ IdsAndNamesUnique'
BY DEF IdInv, SameIdentities, IdsIssued, IdsAndNamesUnique

\* A new problem, once appended, is the last one and has a free name.
LEMMA AdoptAppends ==
  ASSUME NEW ps \in Seq(Problem), NEW p \in Problem, CanAdopt(ps, p)
  PROVE  AppendsNamed(ps, AdoptProblem(ps, p), p)
BY AdoptType DEF AppendsNamed, CanAdopt

\* createProblem appends a problem under the next id and a free name.
LEMMA CreateAppends ==
  ASSUME TypeOK, CreateProblem
  PROVE  \E p \in Problem : /\ AppendsNamed(problems, problems', p)
                            /\ p.id = lastId + 1 /\ lastId' = lastId + 1
                            /\ current' \in 0..lastId'
<1>. USE DEF TypeOK
<1>. DEFINE name   == MakeUniqueName(<<>>, "problem", ProblemNames(problems))
            id     == NextId(lastId)
            new    == NewProblem(id, name)
            listed == AdoptProblem(problems, new)
            ps     == SetSourceText(listed, id, Starter)
<1>1. name \in Name
  <2>1. <<>> \in Name
    BY DEF Name
  <2>. QED BY <2>1, ProblemNamesFinite, UniqueNameIsFree, WordAssumption
<1>2. id \in Nat /\ id = lastId + 1
  BY DEF NextId
<1>3. new \in Problem /\ new.id = id
  BY <1>1, <1>2, NewProblemType
<1>4. CanAdopt(problems, new) /\ lastId' = id /\ current' = id /\ SetEditorText(ps, id, Starter)
  BY DEF CreateProblem
<1>. HIDE DEF name, id, new
<1>5. listed \in Seq(Problem) /\ AppendsNamed(problems, listed, new)
  BY <1>3, <1>4, AdoptType, AdoptAppends
<1>. HIDE DEF listed
<1>6. HasProblem(listed, id)
  BY <1>3, <1>5 DEF HasProblem, AppendsNamed
<1>7. Starter \in Texts
  BY TextAssumption, WorkspaceAssumption
<1>8. ps \in Seq(Problem) /\ SameIdentities(listed, ps)
  BY <1>5, <1>6, <1>7, SetSourceTextType DEF SameIdentities
<1>. HIDE DEF ps
<1>9. SameIdentities(ps, problems')
  BY <1>4, <1>7, <1>8, SetEditorTextType DEF SameIdentities
<1>10. SameIdentities(listed, problems')
  BY <1>8, <1>9 DEF SameIdentities
<1>11. AppendsNamed(problems, problems', new)
  <2>1. \A i \in DOMAIN problems : i \in DOMAIN listed
    BY <1>5 DEF AppendsNamed
  <2>2. Len(problems) + 1 \in DOMAIN listed
    BY <1>5 DEF AppendsNamed
  <2>. QED BY <1>5, <1>10, <2>1, <2>2 DEF AppendsNamed, SameIdentities
<1>. QED BY <1>2, <1>3, <1>4, <1>11

\* importSmtLib2 appends a problem under the next id and a free name.
LEMMA ImportAppends ==
  ASSUME TypeOK, NEW text \in ImportTexts, ImportSmtLib2(text)
  PROVE  \E p \in Problem : /\ AppendsNamed(problems, problems', p)
                            /\ p.id = lastId + 1 /\ lastId' = lastId + 1
                            /\ current' \in 0..lastId'
<1>. USE DEF TypeOK
<1>. DEFINE name     == MakeUniqueName(<<>>, "import", ProblemNames(problems))
            new      == NewProblem(NextId(lastId), name)
            imported == RebuildFromSource(new, text)
<1>1. name \in Name
  <2>1. <<>> \in Name
    BY DEF Name
  <2>. QED BY <2>1, ProblemNamesFinite, UniqueNameIsFree, WordAssumption
<1>2. NextId(lastId) \in Nat /\ NextId(lastId) = lastId + 1
  BY DEF NextId
<1>3. new \in Problem /\ new.id = lastId + 1
  BY <1>1, <1>2, NewProblemType
<1>4. text \in Texts
  BY TextAssumption, WorkspaceAssumption
<1>5. /\ CanAdopt(problems, imported) /\ lastId' = imported.id /\ current' = imported.id
      /\ problems' = AdoptProblem(problems, imported)
  BY DEF ImportSmtLib2, SelectById
<1>. HIDE DEF new
<1>6. imported \in Problem /\ imported.id = lastId + 1
  BY <1>3, <1>4, RebuildType
<1>. HIDE DEF imported
<1>7. AppendsNamed(problems, problems', imported)
  BY <1>5, <1>6, AdoptAppends
<1>. QED BY <1>5, <1>6, <1>7

\* duplicateProblem appends a problem under the next id and a free name.
LEMMA DuplicateAppends ==
  ASSUME TypeOK, IdsIssued, NEW row \in DOMAIN explorer, DuplicateProblemAt(row)
  PROVE  \E p \in Problem : /\ AppendsNamed(problems, problems', p)
                            /\ p.id = lastId + 1 /\ lastId' = lastId + 1
                            /\ current' \in 0..lastId'
<1>. USE DEF TypeOK
<1>. DEFINE name == MakeUniqueName(problems[row].name, "copy", ProblemNames(problems))
            copy == Duplicate(problems[row], NextId(lastId), name)
<1>1. problems[row] \in Problem
  BY DEF DuplicateProblemAt
<1>2. problems[row].name \in Name
  BY <1>1 DEF Problem
<1>3. name \in Name
  BY <1>2, ProblemNamesFinite, UniqueNameIsFree, WordAssumption
<1>4. NextId(lastId) \in Nat /\ NextId(lastId) = lastId + 1
  BY DEF NextId
<1>5. copy \in Problem /\ copy.id = lastId + 1
  <2>. HIDE DEF TypeOK, name
  <2>1. copy \in Problem /\ copy.id = NextId(lastId)
    BY <1>1, <1>3, <1>4, DuplicateType
  <2>. QED BY <1>4, <2>1
<1>6. /\ CanAdopt(problems, copy) /\ lastId' = copy.id /\ current' = current
      /\ problems' = AdoptProblem(problems, copy)
  BY DEF DuplicateProblemAt, editorVars
<1>. HIDE DEF copy
<1>7. AppendsNamed(problems, problems', copy)
  BY <1>5, <1>6, AdoptAppends
<1>8. current' \in 0..lastId'
  BY <1>5, <1>6 DEF IdsIssued
<1>. QED BY <1>5, <1>6, <1>7, <1>8

\* What loadImpl accepts: every text rebuilds, and no name comes twice.
LEMMA LoadableNames ==
  ASSUME NEW doc \in Seq(DocumentEntry), Loadable(doc)
  PROVE  /\ \A i \in DOMAIN doc : Rebuilds(doc[i].source)
         /\ \A i, j \in DOMAIN doc : doc[i].name = doc[j].name => i = j
<1>1. DOMAIN doc = 1..Len(doc) /\ Len(doc) \in Nat
  OBVIOUS
<1>2. \A i \in DOMAIN doc : /\ Rebuilds(doc[i].source)
                           /\ \A j \in 1..(i - 1) : doc[j].name # doc[i].name
  BY DEF Loadable, RefusedRows
<1>3. ASSUME NEW i \in DOMAIN doc, NEW j \in DOMAIN doc, doc[i].name = doc[j].name, i # j
      PROVE  FALSE
  <2>1. i \in 1..(j - 1) \/ j \in 1..(i - 1)
    BY <1>1, <1>3
  <2>. QED BY <1>2, <1>3, <2>1
<1>. QED BY <1>2, <1>3

\* loadFromPath numbers the problems it loads after the last id issued, and
\* their names are the document's, which differ.
LEMMA OpenNumbers ==
  ASSUME TypeOK, OpenProject
  PROVE  \E doc \in Seq(DocumentEntry) :
           /\ Loadable(doc) /\ lastId' = lastId + Len(doc)
           /\ DOMAIN problems' = 1..Len(doc)
           /\ \A i \in 1..Len(doc) : problems'[i].id = lastId + i /\ problems'[i].name = doc[i].name
<1>. USE DEF TypeOK
<1>1. PICK doc \in StoredProjects \union ({file} \ {NoFile, TornFile}) :
        /\ Loadable(doc)
        /\ problems' = LoadProject(doc, lastId)
        /\ lastId' = lastId + Len(doc)
  BY DEF OpenProject
<1>2. doc \in Seq(DocumentEntry)
  BY WorkspaceAssumption DEF Contents
<1>3. DOMAIN doc = 1..Len(doc)
  BY <1>2
<1>. QED BY <1>1, <1>2, <1>3, LoadType, ZenonT(60)

\* Removing a row keeps the others.
LEMMA RemoveKeeps ==
  ASSUME NEW ps \in Seq(Problem), NEW row \in DOMAIN ps
  PROVE  \A i \in DOMAIN RemoveProblem(ps, row) :
           \E j \in DOMAIN ps : RemoveProblem(ps, row)[i] = ps[j]
<1>. DEFINE n == Len(ps)
            qs == RemoveProblem(ps, row)
<1>1. n \in Nat /\ DOMAIN ps = 1..n
  OBVIOUS
<1>2. DOMAIN qs = 1..(n - 1) /\ \A i \in 1..(n - 1) : qs[i] = IF i < row THEN ps[i] ELSE ps[i + 1]
  BY RemoveType
<1>. HIDE DEF n, qs
<1>3. \A i \in 1..(n - 1) : i \in 1..n /\ i + 1 \in 1..n
  BY <1>1
<1>4. \A i \in DOMAIN qs : \E j \in DOMAIN ps : qs[i] = ps[j]
  BY <1>1, <1>2, <1>3
<1>. QED BY <1>4 DEF qs

-----------------------------------------------------------------------------
(* The invariant.                                                          *)

\* Only one problem exists at the start, with id 1.
LEMMA IdInit == Init => IdsIssued /\ IdsAndNamesUnique
<1>. SUFFICES ASSUME Init PROVE IdsIssued /\ IdsAndNamesUnique
  OBVIOUS
<1>. DEFINE new   == NewProblem(1, << <<"problem", 1>> >>)
            first == [new EXCEPT !.source = Starter]
<1>1. problems = <<first>> /\ lastId = 1 /\ current = 1
  BY DEF Init
<1>2. first.id = 1
  BY DEF NewProblem, NoProblem
<1>. HIDE DEF first
<1>. QED BY <1>1, <1>2 DEF IdsIssued, IdsAndNamesUnique

\* Every step keeps ids issued and ids and names unique.
LEMMA IdNext == IdInv /\ [Next]_vars => IdsIssued' /\ IdsAndNamesUnique'
<1>. SUFFICES ASSUME IdInv, [Next]_vars PROVE IdsIssued' /\ IdsAndNamesUnique'
  OBVIOUS
<1>. USE DEF IdInv, TypeOK, requestVars, threadVars, storeVars, projectVars, editorVars, resultVars
<1>0. UNCHANGED <<problems, lastId, current>> => IdsIssued' /\ IdsAndNamesUnique'
  BY DEF IdsIssued, IdsAndNamesUnique
<1>1. CASE CreateProblem
  BY <1>1, CreateAppends, AppendKeepsUnique
<1>2. ASSUME NEW row \in DOMAIN explorer, SelectProblem(row) PROVE IdsIssued' /\ IdsAndNamesUnique'
  <2>1. current' = problems[row].id /\ row \in DOMAIN problems /\ UNCHANGED <<problems, lastId>>
    BY <1>2 DEF SelectProblem, SelectById
  <2>. QED BY <2>1 DEF IdsIssued, IdsAndNamesUnique
<1>3. ASSUME NEW row \in DOMAIN explorer, RemoveProblemAt(row) PROVE IdsIssued' /\ IdsAndNamesUnique'
  <2>1. row \in DOMAIN problems /\ problems' = RemoveProblem(problems, row) /\ lastId' = lastId
    BY <1>3 DEF RemoveProblemAt
  <2>2. current' \in 0..lastId
    <3>1. current' = 0 \/ current' = current
      BY <1>3 DEF RemoveProblemAt
    <3>. QED BY <3>1 DEF IdsIssued
  <2>. DEFINE n == Len(problems)
              from(i) == IF i < row THEN i ELSE i + 1
  <2>3. n \in Nat /\ DOMAIN problems = 1..n
    OBVIOUS
  <2>4. /\ DOMAIN problems' = 1..(n - 1)
        /\ \A i \in 1..(n - 1) : problems'[i] = problems[from(i)]
    <3>1. \A i \in 1..(n - 1) : problems'[i] = IF i < row THEN problems[i] ELSE problems[i + 1]
      BY <2>1, RemoveType
    <3>2. DOMAIN problems' = 1..(n - 1)
      BY <2>1, RemoveType
    <3>. QED BY <3>1, <3>2
  <2>. HIDE DEF n
  <2>5. \A i \in 1..(n - 1) : from(i) \in 1..n
    BY <2>1, <2>3
  <2>6. \A i, j \in 1..(n - 1) : from(i) = from(j) => i = j
    BY <2>1, <2>3
  <2>. HIDE DEF from
  <2>7. IdsIssued'
    BY <2>1, <2>2, <2>3, <2>4, <2>5 DEF IdsIssued
  <2>8. IdsAndNamesUnique'
    BY <2>3, <2>4, <2>5, <2>6 DEF IdsAndNamesUnique
  <2>. QED BY <2>7, <2>8
<1>4. ASSUME NEW row \in DOMAIN explorer, NEW name \in TypedNames, RenameProblemAt(row, name)
      PROVE  IdsIssued' /\ IdsAndNamesUnique'
  <2>1. /\ row \in DOMAIN problems /\ MayRename(problems, row, name)
        /\ problems' = RenameProblem(problems, row, name) /\ UNCHANGED <<lastId, current>>
    BY <1>4 DEF RenameProblemAt
  <2>2. /\ DOMAIN problems' = DOMAIN problems
        /\ \A i \in DOMAIN problems :
             /\ problems'[i].id = problems[i].id
             /\ problems'[i].name = IF i = row THEN name ELSE problems[i].name
    BY <2>1, RenameType, WorkspaceAssumption
  <2>3. IdsIssued'
    BY <2>1, <2>2 DEF IdsIssued
  <2>4. \A i \in DOMAIN problems : problems[i].name = name => i = row
    BY <2>1 DEF MayRename, ProblemNames, IdsAndNamesUnique
  <2>5. IdsAndNamesUnique'
    BY <2>2, <2>4 DEF IdsAndNamesUnique
  <2>. QED BY <2>3, <2>5
<1>5. ASSUME NEW row \in DOMAIN explorer, DuplicateProblemAt(row)
      PROVE  IdsIssued' /\ IdsAndNamesUnique'
  BY <1>5, DuplicateAppends, AppendKeepsUnique
<1>6. ASSUME NEW text \in TypedTexts, TypeText(text) PROVE IdsIssued' /\ IdsAndNamesUnique'
  <2>1. UNCHANGED <<lastId, current>>
    BY <1>6 DEF TypeText
  <2>2. CASE TakesText(problems, current, text)
    <3>1. SetEditorText(problems, current, text)
      BY <1>6, <2>2 DEF TypeText
    <3>2. SameIdentities(problems, problems')
      BY <3>1, SetEditorTextType, WorkspaceAssumption DEF SameIdentities
    <3>. QED BY <2>1, <3>2, SameKeepsUnique DEF IdsIssued
  <2>3. CASE ~TakesText(problems, current, text)
    BY <1>0, <1>6, <2>1, <2>3 DEF TypeText
  <2>. QED BY <2>2, <2>3
<1>7. CASE OpenProject
  <2>1. PICK doc \in Seq(DocumentEntry) :
          /\ Loadable(doc) /\ lastId' = lastId + Len(doc)
          /\ DOMAIN problems' = 1..Len(doc)
          /\ \A i \in 1..Len(doc) : problems'[i].id = lastId + i /\ problems'[i].name = doc[i].name
    BY <1>7, OpenNumbers
  <2>4. DOMAIN doc = 1..Len(doc) /\ Len(doc) \in Nat
    BY <2>1
  <2>5. current' = current /\ current \in 0..lastId
    BY <1>7 DEF OpenProject, IdsIssued
  <2>6. IdsIssued'
    BY <2>1, <2>4, <2>5 DEF IdsIssued
  <2>7. IdsAndNamesUnique'
    <3>1. \A i, j \in 1..Len(doc) : doc[i].name = doc[j].name => i = j
      BY <2>1, <2>4, LoadableNames
    <3>2. \A i, j \in 1..Len(doc) : lastId + i = lastId + j => i = j
      OBVIOUS
    <3>. QED BY <2>1, <3>1, <3>2 DEF IdsAndNamesUnique
  <2>. QED BY <2>6, <2>7
<1>8. ASSUME NEW text \in ImportTexts, ImportSmtLib2(text)
      PROVE  IdsIssued' /\ IdsAndNamesUnique'
  BY <1>8, ImportAppends, AppendKeepsUnique
<1>9. CASE Solve \/ SolveRefused \/ Stop \/ OnSolveFinished \/ WorkerBegin \/ WorkerFinish
  BY <1>0, <1>9 DEF Solve, SolveRefused, Stop, OnSolveFinished, WorkerBegin, WorkerFinish
<1>10. CASE SaveProject \/ SaveFails \/ ExportProblem \/ Close \/ WorkerExit \/ UNCHANGED vars
  BY <1>0, <1>10 DEF SaveProject, SaveFails, ExportProblem, Close, WorkerExit, vars
<1>11. CASE OpenRefused
  <2>1. lastId' \in Nat /\ lastId <= lastId' /\ UNCHANGED <<problems, current>>
    BY <1>11, RefusedKeeps
  <2>2. IdsAndNamesUnique'
    BY <2>1 DEF IdsAndNamesUnique
  <2>. QED BY <2>1, <2>2 DEF IdsIssued
<1>. QED BY <1>1, <1>2, <1>3, <1>4, <1>5, <1>6, <1>7, <1>8, <1>9, <1>10, <1>11 DEF Next, Exited

\* Types, issued ids and unique names together are invariant.
THEOREM IdInvHolds == Spec => []IdInv
<1>1. Init => IdInv
  BY TypeInit, IdInit DEF IdInv
<1>2. IdInv /\ [Next]_vars => IdInv'
  BY TypeNext, IdNext DEF IdInv
<1>. QED BY <1>1, <1>2, PTL DEF Spec

\* No two problems of the project ever share an id or a name, whichever of
\* create, duplicate, rename, import and open put them there.
THEOREM NoTwoShareAnIdOrAName == Spec => []IdsAndNamesUnique
BY IdInvHolds, PTL DEF IdInv

-----------------------------------------------------------------------------
(* No id comes back.                                                       *)

\* Every problem of the project after a step was in it before, or has an id
\* the counter had not issued.
LEMMA FreshOrKept ==
  ASSUME IdInv, [Next]_vars
  PROVE  \A i \in DOMAIN problems' :
           problems'[i].id > lastId \/ HasProblem(problems, problems'[i].id)
<1>. USE DEF IdInv, TypeOK, requestVars, threadVars, storeVars, projectVars, editorVars, resultVars
<1>. DEFINE Goal == \A i \in DOMAIN problems' :
                      problems'[i].id > lastId \/ HasProblem(problems, problems'[i].id)
<1>a. SameIdentities(problems, problems') => Goal
  BY DEF SameIdentities, HasProblem
<1>b. ASSUME NEW p \in Problem, AppendsNamed(problems, problems', p), p.id = lastId + 1 PROVE Goal
  <2>1. \A i \in DOMAIN problems' : i \in DOMAIN problems \/ i = Len(problems) + 1
    BY <1>b DEF AppendsNamed
  <2>2. p.id > lastId
    BY <1>b
  <2>. QED BY <1>b, <2>1, <2>2 DEF AppendsNamed, HasProblem
<1>c. UNCHANGED problems => Goal
  BY DEF HasProblem
<1>1. CASE CreateProblem
  BY <1>1, <1>b, CreateAppends
<1>2. ASSUME NEW row \in DOMAIN explorer, SelectProblem(row) PROVE Goal
  BY <1>2, <1>c DEF SelectProblem
<1>3. ASSUME NEW row \in DOMAIN explorer, RemoveProblemAt(row) PROVE Goal
  BY <1>3, RemoveKeeps DEF RemoveProblemAt, HasProblem
<1>4. ASSUME NEW row \in DOMAIN explorer, NEW name \in TypedNames, RenameProblemAt(row, name)
      PROVE  Goal
  <2>1. row \in DOMAIN problems /\ problems' = RenameProblem(problems, row, name)
    BY <1>4 DEF RenameProblemAt
  <2>. QED BY <2>1, RenameType, WorkspaceAssumption DEF HasProblem
<1>5. ASSUME NEW row \in DOMAIN explorer, DuplicateProblemAt(row) PROVE Goal
  BY <1>5, <1>b, DuplicateAppends
<1>6. ASSUME NEW text \in TypedTexts, TypeText(text) PROVE Goal
  <2>1. CASE TakesText(problems, current, text)
    <3>1. SetEditorText(problems, current, text)
      BY <1>6, <2>1 DEF TypeText
    <3>2. SameIdentities(problems, problems')
      BY <3>1, SetEditorTextType, WorkspaceAssumption DEF SameIdentities
    <3>. QED BY <1>a, <3>2
  <2>2. CASE ~TakesText(problems, current, text)
    BY <1>c, <1>6, <2>2 DEF TypeText
  <2>. QED BY <2>1, <2>2
<1>7. CASE OpenProject
  <2>1. PICK doc \in Seq(DocumentEntry) :
          /\ DOMAIN problems' = 1..Len(doc)
          /\ \A i \in 1..Len(doc) : problems'[i].id = lastId + i
    BY <1>7, OpenNumbers
  <2>. QED BY <2>1
<1>8. ASSUME NEW text \in ImportTexts, ImportSmtLib2(text) PROVE Goal
  BY <1>8, <1>b, ImportAppends
<1>9. CASE Solve \/ SolveRefused \/ Stop \/ OnSolveFinished \/ WorkerBegin \/ WorkerFinish
  BY <1>c, <1>9 DEF Solve, SolveRefused, Stop, OnSolveFinished, WorkerBegin, WorkerFinish
<1>10. CASE SaveProject \/ SaveFails \/ ExportProblem \/ Close \/ WorkerExit \/ UNCHANGED vars
  BY <1>c, <1>10 DEF SaveProject, SaveFails, ExportProblem, Close, WorkerExit, vars
<1>11. CASE OpenRefused
  BY <1>c, <1>11, RefusedKeeps
<1>. QED BY <1>1, <1>2, <1>3, <1>4, <1>5, <1>6, <1>7, <1>8, <1>9, <1>10, <1>11 DEF Next, Exited

\* An id that has left the project never comes back: a late result or a stale
\* selection cannot land on another problem.
THEOREM AnIdNeverReturns == Spec => IdsNeverReturn
<1>1. IdInv /\ [Next]_vars =>
        [\A id \in 1..lastId : ~HasProblem(problems, id) => ~HasProblem(problems', id)]_vars
  <2>. SUFFICES ASSUME IdInv, [Next]_vars, NEW id \in 1..lastId,
                       HasProblem(problems', id)
                PROVE  HasProblem(problems, id)
    OBVIOUS
  <2>1. PICK i \in DOMAIN problems' : problems'[i].id = id
    BY DEF HasProblem
  <2>2. ~(id > lastId)
    BY DEF IdInv, TypeOK
  <2>. QED BY <2>1, <2>2, FreshOrKept
<1>. QED BY <1>1, IdInvHolds, PTL DEF Spec, IdsNeverReturn

-----------------------------------------------------------------------------
(* Solving.  OneJobInFlight is not inductive: that a job taken by the      *)
(* worker shows as one (it is not NoJob) needs BusyHasToken, a request's   *)
(* number is never 0.  JobsAreChecked needs ValidIsChecked, because        *)
(* solve() posts what m_oEditor holds.                                     *)

\* While busy, the token belongs to a real request.
BusyHasToken == busy => token # 0

JobInv == TypeOK /\ OneJobInFlight /\ BusyHasToken

\* A valid editor holds a checked problem.
ValidIsChecked == editor.valid => Checked(editor.problem)

CheckInv == IdInv /\ ValidIsChecked /\ JobsAreChecked

-----------------------------------------------------------------------------
(* One job in flight.                                                      *)

\* Where the job is decides where none is.
LEMMA OneJobCases ==
  ASSUME TypeOK, OneJobInFlight
  PROVE  /\ ~busy => requests = <<>> /\ worker = NoJob /\ results = <<>>
         /\ requests # <<>> => busy /\ Len(requests) = 1 /\ worker = NoJob /\ results = <<>>
         /\ worker # NoJob => busy /\ requests = <<>> /\ results = <<>>
         /\ results # <<>> => busy /\ requests = <<>> /\ worker = NoJob /\ Len(results) = 1
<1>. DEFINE q == Len(requests)
            r == Len(results)
            w == IF worker = NoJob THEN 0 ELSE 1
<1>1. q \in Nat /\ r \in Nat /\ w \in {0, 1} /\ (w = 0 <=> worker = NoJob)
  BY DEF TypeOK
<1>2. (q = 0 <=> requests = <<>>) /\ (r = 0 <=> results = <<>>)
  BY DEF TypeOK
<1>3. q + w + r = IF busy THEN 1 ELSE 0
  BY DEF OneJobInFlight, InFlight
<1>4. busy \in BOOLEAN
  BY DEF TypeOK
<1>. HIDE DEF q, r, w
<1>5. /\ ~busy => q = 0 /\ w = 0 /\ r = 0
      /\ q # 0 => busy /\ q = 1 /\ w = 0 /\ r = 0
      /\ w # 0 => busy /\ q = 0 /\ r = 0
      /\ r # 0 => busy /\ q = 0 /\ w = 0 /\ r = 1
  BY <1>1, <1>3, <1>4
<1>. QED BY <1>1, <1>2, <1>5 DEF q, r

\* Nothing is on its way at the start.
LEMMA OneJobInit == Init => OneJobInFlight /\ BusyHasToken
<1>. SUFFICES ASSUME Init PROVE OneJobInFlight /\ BusyHasToken
  OBVIOUS
<1>1. /\ requests = <<>> /\ worker = NoJob /\ results = <<>>
      /\ busy = FALSE /\ token = 0 /\ armed = {}
  BY DEF Init
<1>2. InFlight = 0 /\ PendingRequest = 0
  BY <1>1 DEF InFlight, PendingRequest
<1>. QED BY <1>1, <1>2 DEF OneJobInFlight, BusyHasToken

\* Every step keeps one job in flight.
LEMMA OneJobNext == JobInv /\ [Next]_vars => OneJobInFlight' /\ BusyHasToken'
<1>. SUFFICES ASSUME JobInv, [Next]_vars PROVE OneJobInFlight' /\ BusyHasToken'
  OBVIOUS
<1>. USE DEF requestVars, threadVars, storeVars, projectVars, editorVars, resultVars
<1>0. TypeOK /\ OneJobInFlight /\ BusyHasToken /\ TypeOK'
  BY TypeNext DEF JobInv
<1>1. UNCHANGED <<requestVars, threadVars>> => OneJobInFlight' /\ BusyHasToken'
  BY <1>0 DEF OneJobInFlight, BusyHasToken, InFlight, PendingRequest
<1>2. CASE Solve
  <2>. DEFINE job == [req |-> lastRequest', problem |-> editor'.problem]
  <2>1. /\ ~busy /\ busy' = TRUE /\ token' = lastRequest' /\ lastRequest' = lastRequest + 1
        /\ requests' = Append(requests, job) /\ UNCHANGED <<armed, worker, results>>
    BY <1>2 DEF Solve, Idle
  <2>2. requests = <<>> /\ worker = NoJob /\ results = <<>>
    BY <1>0, <2>1, OneJobCases
  <2>3. token = 0 /\ armed = {}
    BY <1>0, <2>2 DEF OneJobInFlight, PendingRequest
  <2>4. job.req = lastRequest'
    OBVIOUS
  <2>. HIDE DEF job
  <2>5. requests' = <<job>>
    BY <2>1, <2>2
  <2>6. Len(requests') = 1 /\ Head(requests') = job /\ requests' # <<>> /\ Len(results') = 0
    BY <2>1, <2>2, <2>5
  <2>7. InFlight' = 1
    BY <2>1, <2>2, <2>6 DEF InFlight
  <2>8. token' = PendingRequest'
    BY <2>1, <2>4, <2>6 DEF PendingRequest
  <2>9. token' # 0
    BY <1>0, <2>1 DEF TypeOK
  <2>. QED BY <2>1, <2>3, <2>7, <2>8, <2>9 DEF OneJobInFlight, BusyHasToken
<1>3. CASE Stop
  <2>1. /\ token # 0 /\ armed' = armed \union {token}
        /\ UNCHANGED <<busy, token, requests, worker, results>>
    BY <1>3 DEF Stop
  <2>2. InFlight' = InFlight /\ PendingRequest' = PendingRequest
    BY <2>1 DEF InFlight, PendingRequest
  <2>. QED BY <1>0, <2>1, <2>2 DEF OneJobInFlight, BusyHasToken
<1>4. CASE OnSolveFinished
  <2>1. /\ results # <<>> /\ results' = Tail(results) /\ UNCHANGED <<requests, worker>>
        /\ busy' = FALSE /\ token' = 0 /\ armed' = armed \ {Head(results).req}
    BY <1>4 DEF OnSolveFinished, FinishRequest
  <2>2. requests = <<>> /\ worker = NoJob /\ Len(results) = 1
    BY <1>0, <2>1, OneJobCases
  <2>3. results' = <<>>
    <3>1. results \in Seq(Result)
      BY <1>0 DEF TypeOK
    <3>. QED BY <2>1, <2>2, <3>1
  <2>4. token = Head(results).req
    BY <1>0, <2>1, <2>2 DEF OneJobInFlight, PendingRequest
  <2>5. armed' = {}
    BY <1>0, <2>1, <2>4 DEF OneJobInFlight
  <2>6. InFlight' = 0 /\ PendingRequest' = 0
    BY <2>1, <2>2, <2>3 DEF InFlight, PendingRequest
  <2>. QED BY <2>1, <2>5, <2>6 DEF OneJobInFlight, BusyHasToken
<1>5. CASE WorkerBegin
  <2>. DEFINE job == Head(requests)
  <2>1. requests # <<>> /\ requests' = Tail(requests) /\ UNCHANGED <<busy, token, armed>>
    BY <1>5 DEF WorkerBegin
  <2>2. busy /\ Len(requests) = 1 /\ worker = NoJob /\ results = <<>>
    BY <1>0, <2>1, OneJobCases
  <2>3. requests' = <<>>
    <3>1. requests \in Seq(Job)
      BY <1>0 DEF TypeOK
    <3>. QED BY <2>1, <2>2, <3>1
  <2>4. token = job.req /\ token # 0
    BY <1>0, <2>1, <2>2 DEF OneJobInFlight, PendingRequest, BusyHasToken
  <2>5. job # NoJob
    BY <2>4 DEF NoJob
  <2>. HIDE DEF job
  <2>6. \/ /\ worker' = NoJob
           /\ results' = <<ResultOf(job, "UNKNOWN")>>
        \/ worker' = job /\ results' = <<>>
    BY <1>5, <2>2 DEF WorkerBegin, AnswerCancelled, job
  <2>7. ResultOf(job, "UNKNOWN").req = job.req
    BY DEF ResultOf
  <2>8. InFlight' = 1 /\ PendingRequest' = job.req
    <3>1. CASE worker' = job /\ results' = <<>>
      BY <2>3, <2>5, <3>1 DEF InFlight, PendingRequest
    <3>2. CASE worker' = NoJob /\ results' = <<ResultOf(job, "UNKNOWN")>>
      <4>. DEFINE res == ResultOf(job, "UNKNOWN")
      <4>. HIDE DEF res
      <4>1. results' = <<res>>
        BY <3>2 DEF res
      <4>2. Len(results') = 1 /\ Head(results') = res /\ results' # <<>>
        BY <4>1
      <4>3. res.req = job.req
        BY <2>7 DEF res
      <4>. QED BY <2>3, <3>2, <4>2, <4>3 DEF InFlight, PendingRequest
    <3>. QED BY <2>6, <3>1, <3>2
  <2>. QED BY <1>0, <2>1, <2>2, <2>4, <2>8 DEF OneJobInFlight, BusyHasToken
<1>6. CASE WorkerFinish
  <2>1. worker # NoJob /\ worker' = NoJob /\ UNCHANGED <<busy, token, armed, requests>>
    BY <1>6 DEF WorkerFinish
  <2>2. busy /\ requests = <<>> /\ results = <<>>
    BY <1>0, <2>1, OneJobCases
  <2>3. PICK verdict : results' = Append(results, ResultOf(worker, verdict))
    BY <1>6 DEF WorkerFinish
  <2>. DEFINE res == ResultOf(worker, verdict)
  <2>4. res.req = worker.req
    BY DEF ResultOf
  <2>. HIDE DEF res
  <2>5. results' = <<res>>
    BY <2>2, <2>3 DEF res
  <2>6. Len(results') = 1 /\ Head(results') = res /\ results' # <<>>
    BY <2>5
  <2>7. token = worker.req
    BY <1>0, <2>1, <2>2 DEF OneJobInFlight, PendingRequest
  <2>8. InFlight' = 1 /\ PendingRequest' = worker.req
    BY <2>1, <2>2, <2>4, <2>6 DEF InFlight, PendingRequest
  <2>. QED BY <1>0, <2>1, <2>2, <2>7, <2>8 DEF OneJobInFlight, BusyHasToken
<1>7. CASE \/ CreateProblem
           \/ \E row \in DOMAIN explorer : SelectProblem(row)
           \/ \E row \in DOMAIN explorer : RemoveProblemAt(row)
           \/ \E row \in DOMAIN explorer, name \in TypedNames : RenameProblemAt(row, name)
           \/ \E row \in DOMAIN explorer : DuplicateProblemAt(row)
           \/ \E text \in TypedTexts : TypeText(text)
           \/ \E text \in ImportTexts : ImportSmtLib2(text)
  BY <1>1, <1>7 DEF CreateProblem, SelectProblem, RemoveProblemAt, RenameProblemAt,
                    DuplicateProblemAt, TypeText, ImportSmtLib2
<1>8. CASE \/ SolveRefused \/ OpenProject \/ OpenRefused \/ SaveProject \/ SaveFails \/ ExportProblem
           \/ Close \/ WorkerExit \/ UNCHANGED vars
  BY <1>1, <1>8 DEF SolveRefused, OpenProject, OpenRefused, SaveProject, SaveFails, ExportProblem,
                    Close, WorkerExit, vars
<1>. QED BY <1>2, <1>3, <1>4, <1>5, <1>6, <1>7, <1>8 DEF Next, Exited

\* Types and one job in flight together are invariant.
THEOREM JobInvHolds == Spec => []JobInv
<1>1. Init => JobInv
  BY TypeInit, OneJobInit DEF JobInv
<1>2. JobInv /\ [Next]_vars => JobInv'
  BY TypeNext, OneJobNext DEF JobInv
<1>. QED BY <1>1, <1>2, PTL DEF Spec

\* m_bBusy is true exactly while one job is between the threads, its token is
\* the one stop() arms, and no flag of another request is set.
THEOREM OneJobAtATime == Spec => []OneJobInFlight
BY JobInvHolds, PTL DEF JobInv

-----------------------------------------------------------------------------
(* Only checked jobs.                                                      *)

\* What reparseEditor calls valid is checked.
LEMMA ReparsedIsChecked ==
  ASSUME NEW p \in Problem, p.id # 0, Reparsed(p).valid
  PROVE  Checked(Reparsed(p).problem)
BY ReparsedType DEF Checked

\* reparseEditor never leaves an unchecked problem in a valid editor.
LEMMA ReparseEditorChecks ==
  ASSUME ValidIsChecked, NEW ps \in Seq(Problem), NEW id, id # 0, ReparseEditor(ps, id)
  PROVE  ValidIsChecked'
<1>1. CASE HasProblem(ps, id)
  <2>1. editor' = Reparsed(FindProblem(ps, id))
    BY <1>1 DEF ReparseEditor
  <2>2. FindProblem(ps, id) \in Problem /\ FindProblem(ps, id).id # 0
    BY <1>1, FindProblemType
  <2>. QED BY <2>1, <2>2, ReparsedIsChecked DEF ValidIsChecked
<1>2. CASE ~HasProblem(ps, id)
  BY <1>2 DEF ReparseEditor, ValidIsChecked
<1>. QED BY <1>1, <1>2

\* Neither does setEditorText.
LEMMA SetEditorTextChecks ==
  ASSUME ValidIsChecked, NEW ps \in Seq(Problem), NEW id, id # 0, NEW text \in Texts,
         SetEditorText(ps, id, text)
  PROVE  ValidIsChecked'
<1>1. CASE TakesText(ps, id, text)
  <2>1. problems' = SetSourceText(ps, id, text) /\ ReparseEditor(problems', id)
    BY <1>1 DEF SetEditorText
  <2>2. problems' \in Seq(Problem)
    BY <1>1, <2>1, SetSourceTextType DEF TakesText
  <2>. QED BY <2>1, <2>2, ReparseEditorChecks
<1>2. CASE ~TakesText(ps, id, text)
  BY <1>2 DEF SetEditorText, ValidIsChecked
<1>. QED BY <1>1, <1>2

\* The constructor parses the template; no job exists yet.
LEMMA CheckInit == Init => ValidIsChecked /\ JobsAreChecked
<1>. SUFFICES ASSUME Init PROVE ValidIsChecked /\ JobsAreChecked
  OBVIOUS
<1>. DEFINE new   == NewProblem(1, << <<"problem", 1>> >>)
            first == [new EXCEPT !.source = Starter]
<1>1. problems \in Seq(Problem)
  BY TypeInit DEF TypeOK
<1>2. problems = <<first>> /\ editor = Reparsed(first)
  BY DEF Init
<1>3. first.id = 1
  BY DEF NewProblem, NoProblem
<1>. HIDE DEF first
<1>4. first \in Problem
  BY <1>1, <1>2
<1>5. ValidIsChecked
  BY <1>2, <1>3, <1>4, ReparsedIsChecked DEF ValidIsChecked
<1>6. requests = <<>> /\ worker = NoJob
  BY DEF Init
<1>. QED BY <1>5, <1>6 DEF JobsAreChecked

\* Every step keeps a valid editor and every job checked.
LEMMA CheckNext == CheckInv /\ [Next]_vars => ValidIsChecked' /\ JobsAreChecked'
<1>. SUFFICES ASSUME CheckInv, [Next]_vars PROVE ValidIsChecked' /\ JobsAreChecked'
  OBVIOUS
<1>. USE DEF requestVars, threadVars, storeVars, projectVars, editorVars, resultVars
<1>0. /\ TypeOK /\ IdsIssued /\ ValidIsChecked /\ JobsAreChecked
      /\ problems \in Seq(Problem) /\ lastId \in Nat
  BY DEF CheckInv, IdInv, TypeOK
<1>a. UNCHANGED editor => ValidIsChecked'
  BY <1>0 DEF ValidIsChecked
<1>b. UNCHANGED <<requests, worker>> => JobsAreChecked'
  BY <1>0 DEF JobsAreChecked
<1>c. HasProblem(problems, current) => current # 0
  BY <1>0 DEF HasProblem, IdsIssued
<1>1. CASE CreateProblem
  <2>. DEFINE name   == MakeUniqueName(<<>>, "problem", ProblemNames(problems))
              id     == NextId(lastId)
              new    == NewProblem(id, name)
              listed == AdoptProblem(problems, new)
              ps     == SetSourceText(listed, id, Starter)
  <2>1. name \in Name
    <3>1. <<>> \in Name
      BY DEF Name
    <3>. QED BY <1>0, <3>1, ProblemNamesFinite, UniqueNameIsFree, WordAssumption
  <2>2. id \in Nat /\ id # 0
    BY <1>0 DEF NextId
  <2>3. new \in Problem /\ new.id = id
    BY <2>1, <2>2, NewProblemType
  <2>4. SetEditorText(ps, id, Starter) /\ UNCHANGED threadVars
    BY <1>1 DEF CreateProblem
  <2>. HIDE DEF id, new
  <2>5. listed \in Seq(Problem) /\ HasProblem(listed, id)
    <3>1. /\ listed \in Seq(Problem) /\ DOMAIN listed = 1..(Len(problems) + 1)
          /\ listed[Len(problems) + 1] = new
      BY <1>0, <2>3, AdoptType
    <3>2. Len(problems) + 1 \in 1..(Len(problems) + 1)
      BY <1>0
    <3>. HIDE DEF listed
    <3>. QED BY <2>3, <3>1, <3>2 DEF HasProblem
  <2>. HIDE DEF listed
  <2>6. ps \in Seq(Problem)
    BY <2>5, SetSourceTextType, TextAssumption, WorkspaceAssumption
  <2>. HIDE DEF ps
  <2>7. ValidIsChecked'
    BY <1>0, <2>2, <2>4, <2>6, SetEditorTextChecks, TextAssumption, WorkspaceAssumption
  <2>. QED BY <1>b, <2>4, <2>7
<1>2. ASSUME NEW row \in DOMAIN explorer, SelectProblem(row)
      PROVE  ValidIsChecked' /\ JobsAreChecked'
  <2>1. row \in DOMAIN problems /\ ReparseEditor(problems, problems[row].id)
    BY <1>2 DEF SelectProblem, SelectById
  <2>2. problems[row].id # 0
    BY <1>0, <2>1 DEF IdsIssued
  <2>3. ValidIsChecked'
    BY <1>0, <2>1, <2>2, ReparseEditorChecks
  <2>. QED BY <1>2, <1>b, <2>3 DEF SelectProblem
<1>3. ASSUME NEW row \in DOMAIN explorer, RemoveProblemAt(row)
      PROVE  ValidIsChecked' /\ JobsAreChecked'
  <2>1. editor' = EmptyEditor \/ UNCHANGED editor
    BY <1>3 DEF RemoveProblemAt
  <2>2. ValidIsChecked'
    BY <1>a, <2>1 DEF ValidIsChecked, EmptyEditor
  <2>. QED BY <1>3, <1>b, <2>2 DEF RemoveProblemAt
<1>4. ASSUME NEW text \in TypedTexts, TypeText(text) PROVE ValidIsChecked' /\ JobsAreChecked'
  <2>1. CASE TakesText(problems, current, text)
    <3>1. SetEditorText(problems, current, text) /\ current # 0
      BY <1>4, <2>1 DEF TypeText
    <3>2. ValidIsChecked'
      BY <1>0, <3>1, SetEditorTextChecks, WorkspaceAssumption
    <3>. QED BY <1>4, <1>b, <3>2 DEF TypeText
  <2>2. CASE ~TakesText(problems, current, text)
    BY <1>4, <1>a, <1>b, <2>2 DEF TypeText
  <2>. QED BY <2>1, <2>2
<1>5. ASSUME NEW text \in ImportTexts, ImportSmtLib2(text)
      PROVE  ValidIsChecked' /\ JobsAreChecked'
  <2>1. problems' \in Seq(Problem)
    BY <1>0, TypeNext DEF TypeOK
  <2>2. ReparseEditor(problems', current') /\ current' = lastId' /\ UNCHANGED threadVars
    BY <1>5 DEF ImportSmtLib2, SelectById
  <2>3. current' # 0
    <3>1. lastId' = lastId + 1
      BY <1>0, <1>5, ImportAppends
    <3>. QED BY <1>0, <2>2, <3>1
  <2>4. ValidIsChecked'
    BY <1>0, <2>1, <2>2, <2>3, ReparseEditorChecks
  <2>. QED BY <1>b, <2>2, <2>4
<1>6. CASE Solve
  <2>1. ValidIsChecked'
    <3>1. CASE HasProblem(problems, current)
      <4>1. editor' = Reparsed(FindProblem(problems, current))
        BY <1>6, <3>1 DEF Solve
      <4>2. FindProblem(problems, current) \in Problem /\ FindProblem(problems, current).id # 0
        BY <1>0, <1>c, <3>1, FindProblemType
      <4>. QED BY <4>1, <4>2, ReparsedIsChecked DEF ValidIsChecked
    <3>2. CASE ~HasProblem(problems, current)
      BY <1>6, <1>a, <3>2 DEF Solve
    <3>. QED BY <3>1, <3>2
  <2>. DEFINE job == [req |-> lastRequest', problem |-> editor'.problem]
  <2>2. editor'.valid /\ requests' = Append(requests, job) /\ UNCHANGED worker
    BY <1>6 DEF Solve
  <2>3. Checked(job.problem)
    BY <2>1, <2>2 DEF ValidIsChecked
  <2>4. requests \in Seq(Job)
    BY <1>0 DEF TypeOK
  <2>. HIDE DEF job
  <2>5. \A i \in DOMAIN requests' : requests'[i] = job \/ (i \in DOMAIN requests /\ requests'[i] = requests[i])
    BY <2>2, <2>4
  <2>. QED BY <1>0, <2>1, <2>2, <2>3, <2>5 DEF JobsAreChecked
<1>7. CASE SolveRefused
  <2>1. ReparseEditor(problems, current) /\ current # 0 /\ UNCHANGED threadVars
    BY <1>7 DEF SolveRefused
  <2>2. ValidIsChecked'
    BY <1>0, <2>1, ReparseEditorChecks
  <2>. QED BY <1>b, <2>1, <2>2
<1>8. CASE ExportProblem
  <2>1. ReparseEditor(problems, current) /\ current # 0 /\ UNCHANGED threadVars
    BY <1>8, <1>c DEF ExportProblem
  <2>2. ValidIsChecked'
    BY <1>0, <2>1, ReparseEditorChecks
  <2>. QED BY <1>b, <2>1, <2>2
<1>9. CASE WorkerBegin
  <2>1. /\ requests # <<>> /\ requests' = Tail(requests) /\ UNCHANGED editor
        /\ worker' = Head(requests) \/ UNCHANGED worker
    BY <1>9 DEF WorkerBegin
  <2>2. requests \in Seq(Job)
    BY <1>0 DEF TypeOK
  <2>3. /\ Head(requests) = requests[1] /\ 1 \in DOMAIN requests
        /\ \A i \in DOMAIN requests' : i + 1 \in DOMAIN requests /\ requests'[i] = requests[i + 1]
    BY <2>1, <2>2
  <2>. QED BY <1>0, <1>a, <2>1, <2>3 DEF JobsAreChecked
<1>10. CASE WorkerFinish
  BY <1>0, <1>10, <1>a DEF WorkerFinish, JobsAreChecked
<1>11. CASE \/ \E row \in DOMAIN explorer, name \in TypedNames : RenameProblemAt(row, name)
            \/ \E row \in DOMAIN explorer : DuplicateProblemAt(row)
            \/ Stop \/ OnSolveFinished
  BY <1>a, <1>b, <1>11 DEF RenameProblemAt, DuplicateProblemAt, Stop, OnSolveFinished
<1>12. CASE OpenProject \/ OpenRefused \/ SaveProject \/ SaveFails \/ Close \/ WorkerExit \/ UNCHANGED vars
  BY <1>a, <1>b, <1>12 DEF OpenProject, OpenRefused, SaveProject, SaveFails, Close, WorkerExit, vars
<1>. QED BY <1>1, <1>2, <1>3, <1>4, <1>5, <1>6, <1>7, <1>8, <1>9, <1>10, <1>11, <1>12
         DEF Next, Exited

\* The worker is only ever handed a problem whose text parsed, with the
\* contents parsed from that very text and a real id.
THEOREM OnlyCheckedJobs == Spec => []JobsAreChecked
<1>1. Init => CheckInv
  BY TypeInit, IdInit, CheckInit DEF CheckInv, IdInv
<1>2. CheckInv /\ [Next]_vars => CheckInv'
  BY TypeNext, IdNext, CheckNext DEF CheckInv, IdInv
<1>3. CheckInv => JobsAreChecked
  BY DEF CheckInv
<1>. QED BY <1>1, <1>2, <1>3, PTL DEF Spec

-----------------------------------------------------------------------------
(* The safety half of the refinement.                                      *)

\* The workbench starts as a session without requests.
LEMMA SessionInit == Init => Session!Init
<1>. SUFFICES ASSUME Init PROVE Session!Init
  OBVIOUS
<1>1. PendingRequest = 0
  BY DEF Init, PendingRequest
<1>2. lastRequest = 0 /\ armed = {} /\ phase = "open"
  BY DEF Init
<1>. QED BY <1>1, <1>2 DEF Session!Init

\* Every step of the workbench is a step of the session, or none.
LEMMA SessionStep ==
  ASSUME JobInv, JobInv', [Next]_vars
  PROVE  [Session!Next]_(Session!vars)
<1>. USE DEF requestVars, threadVars, storeVars, projectVars, editorVars, resultVars
<1>1. /\ PendingRequest = token /\ PendingRequest' = token'
      /\ armed \subseteq {token} \ {0} /\ armed' \subseteq {token'} \ {0}
      /\ lastRequest \in Nat /\ TypeOK /\ OneJobInFlight /\ BusyHasToken
      /\ phase \in {"open", "closing", "exited"}
  BY DEF JobInv, OneJobInFlight, TypeOK
<1>2. UNCHANGED <<lastRequest, token, armed>> /\ (phase = "open" <=> phase' = "open")
        => UNCHANGED Session!vars
  BY <1>1 DEF Session!vars
<1>3. CASE Solve
  <2>1. /\ ~busy /\ token' = lastRequest' /\ lastRequest' = lastRequest + 1
        /\ UNCHANGED <<armed, phase>> /\ phase = "open"
    BY <1>3 DEF Solve, Idle
  <2>2. token = 0
    BY <1>1, <2>1, OneJobCases DEF PendingRequest
  <2>3. armed = {}
    BY <1>1, <2>2
  <2>4. Session!Ask
    BY <1>1, <2>1, <2>2, <2>3 DEF Session!Ask
  <2>. QED BY <2>4 DEF Session!Next
<1>4. CASE Stop
  <2>1. /\ token # 0 /\ armed' = armed \union {token} /\ phase = "open"
        /\ UNCHANGED <<lastRequest, token, phase>>
    BY <1>4 DEF Stop
  <2>2. Session!AskToStop
    BY <1>1, <2>1 DEF Session!AskToStop
  <2>. QED BY <2>2 DEF Session!Next
<1>5. CASE OnSolveFinished
  <2>1. /\ results # <<>> /\ token' = 0 /\ phase = "open" /\ UNCHANGED <<lastRequest, phase>>
    BY <1>5 DEF OnSolveFinished, FinishRequest
  <2>2. token # 0
    BY <1>1, <2>1, OneJobCases DEF BusyHasToken
  <2>3. Session!Answer
    BY <1>1, <2>1, <2>2 DEF Session!Answer
  <2>. QED BY <2>3 DEF Session!Next
<1>6. CASE Close
  <2>1. phase = "open" /\ phase' = "closing" /\ UNCHANGED <<lastRequest, token, armed>>
    BY <1>6 DEF Close
  <2>2. Session!Shut
    BY <1>1, <2>1 DEF Session!Shut
  <2>. QED BY <2>2 DEF Session!Next
<1>7. CASE WorkerExit
  BY <1>2, <1>7 DEF WorkerExit
<1>8. CASE WorkerBegin \/ WorkerFinish
  BY <1>2, <1>8 DEF WorkerBegin, WorkerFinish
<1>9. CASE \/ CreateProblem
           \/ \E row \in DOMAIN explorer : SelectProblem(row)
           \/ \E row \in DOMAIN explorer : RemoveProblemAt(row)
           \/ \E row \in DOMAIN explorer, name \in TypedNames : RenameProblemAt(row, name)
           \/ \E row \in DOMAIN explorer : DuplicateProblemAt(row)
           \/ \E text \in TypedTexts : TypeText(text)
           \/ \E text \in ImportTexts : ImportSmtLib2(text)
  BY <1>2, <1>9 DEF CreateProblem, SelectProblem, RemoveProblemAt, RenameProblemAt,
                    DuplicateProblemAt, TypeText, ImportSmtLib2
<1>10. CASE \/ SolveRefused \/ OpenProject \/ OpenRefused \/ SaveProject \/ SaveFails
            \/ ExportProblem \/ UNCHANGED vars
  BY <1>2, <1>10 DEF SolveRefused, OpenProject, OpenRefused, SaveProject, SaveFails, ExportProblem, vars
<1>. QED BY <1>3, <1>4, <1>5, <1>6, <1>7, <1>8, <1>9, <1>10 DEF Next, Exited

\* Requests are taken one at a time, a stop concerns the pending request and
\* never a later one, and nothing is answered that was not asked.
THEOREM SessionSafety == Spec => Session!Init /\ [][Session!Next]_(Session!vars)
BY JobInvHolds, SessionInit, SessionStep, PTL DEF Spec
=============================================================================
