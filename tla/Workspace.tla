------------------------------ MODULE Workspace ------------------------------
(***************************************************************************)
(* The workbench at run time: the WorkspaceViewModel on the GUI thread,    *)
(* the SolverWorker on its own thread, the two event queues between them,  *)
(* and the part of the QML panels that keeps state of its own.             *)
(*                                                                         *)
(* One GUI handler runs at a time, to its end, so each is one action.  The *)
(* worker interleaves with them at the points where the threads meet: the  *)
(* queued signals and the atomic cancellation flag.                        *)
(***************************************************************************)
EXTENDS Project

CONSTANTS
  Starter,           \* the starter template a new problem gets
  SatTexts,          \* the valid texts whose constraints have a solution
  TypedTexts,        \* the texts a user types into the editor
  TypedNames,        \* the names a user types into the rename popup
  ValidNames,        \* those isValidVariableName accepts
  ImportTexts,       \* the DSL texts that imports of SMT-LIB2 files produce
  StoredProjects,    \* documents of project files other than the current one
  NoFile,            \* the project was never saved nor opened: no path is known
  TornFile,          \* a file a failed save truncated
  DiskWritable,      \* FALSE: every attempt to open a file for writing fails
  MaxId,             \* bound: problem ids issued
  MaxRows,           \* bound: problems in the project
  MaxRequest         \* bound: solve requests issued

ASSUME WorkspaceAssumption ==
  /\ Starter \in ValidTexts \ {EmptyText}
  /\ SatTexts \subseteq ValidTexts
  /\ TypedTexts \subseteq Texts
  /\ TypedNames \subseteq Name
  /\ ImportTexts \subseteq ValidTexts
  /\ StoredProjects \subseteq Seq(DocumentEntry)
  /\ NoFile # TornFile
  /\ {NoFile, TornFile} \intersect Seq(DocumentEntry) = {}
  /\ DiskWritable \in BOOLEAN
  /\ MaxId \in Nat /\ MaxRows \in Nat /\ MaxRequest \in Nat

VARIABLES
  problems,     \* m_oProject.problems()
  lastId,       \* the id counter of Ids.cpp
  current,      \* m_oCurrentId, 0 when invalid
  editor,       \* m_oEditor: its problem, whether it parsed, whether it has errors
  view,         \* the text in the QML TextArea
  explorer,     \* the rows of m_oProblemsModel
  panel,        \* m_oVariablesModel: whose variables are the rows, whose model the values
  status,       \* m_strResultStatus
  busy,         \* m_bBusy
  lastRequest,  \* m_uNextRequestId
  token,        \* m_spCancellation, named by its request; 0 when null
  armed,        \* the live cancellation tokens whose flag is set
  requests,     \* the worker's event queue
  worker,       \* the job inside Z3's check(), or NoJob
  results,      \* the results queued for the GUI thread
  dirty,        \* m_bDirty
  file,         \* what the file at m_strProjectPath holds; NoFile when there is no path
  phase         \* the life of the process: "open", "closing", "exited"

projectVars == <<problems, lastId>>
editorVars  == <<current, editor, view>>
resultVars  == <<panel, status>>
requestVars == <<busy, lastRequest, token, armed>>
threadVars  == <<requests, worker, results>>
storeVars   == <<dirty, file>>

vars == <<projectVars, editorVars, explorer, resultVars, requestVars, threadVars,
          storeVars, phase>>

-----------------------------------------------------------------------------
NoJob    == [req |-> 0, problem |-> NoProblem]

Job      == [req : Nat, problem : Problem]
Verdicts == {"SAT", "UNSAT", "UNKNOWN", "ERROR"}
Result   == [req : Nat, id : Nat, verdict : Verdicts, model : Texts]
Editor   == [valid : BOOLEAN, errors : BOOLEAN, problem : Problem]
Panel    == [rows : Texts, values : Texts]
Row      == [id : Nat, name : Name]
Statuses == {"", "INVALID", "SOLVING", "CANCELLING"} \union Verdicts
Contents == {NoFile, TornFile} \union Seq(DocumentEntry)

\* EditorState{}: not valid, yet without diagnostics.
EmptyEditor == [valid |-> FALSE, errors |-> FALSE, problem |-> NoProblem]

\* What Z3 may answer for a text.  It is trusted to be sound; a timeout or an
\* unsupported construct may come instead of either answer.
Answers(text) == {"UNKNOWN", "ERROR"} \union (IF text \in SatTexts THEN {"SAT"} ELSE {"UNSAT"})

TypeOK ==
  /\ problems \in Seq(Problem)
  /\ lastId \in Nat
  /\ current \in Nat
  /\ editor \in Editor
  /\ view \in Texts
  /\ explorer \in Seq(Row)
  /\ panel \in Panel
  /\ status \in Statuses
  /\ busy \in BOOLEAN
  /\ lastRequest \in Nat
  /\ token \in Nat
  /\ armed \subseteq Nat
  /\ requests \in Seq(Job)
  /\ worker \in Job
  /\ results \in Seq(Result)
  /\ dirty \in BOOLEAN
  /\ file \in Contents
  /\ phase \in {"open", "closing", "exited"}

-----------------------------------------------------------------------------
(* Views of the state that the handlers share.                             *)

ExplorerRows(ps) == [i \in DOMAIN ps |-> [id |-> ps[i].id, name |-> ps[i].name]]

\* refreshVariablesModel: the editor's variables when it is valid, else the
\* project problem's; a value is looked up in the model by variable name.
VariableRows(ps, id, e, model) ==
  LET rows == IF e.valid THEN e.problem.contents
              ELSE IF HasProblem(ps, id) THEN FindProblem(ps, id).contents ELSE EmptyText
  IN  [rows |-> rows, values |-> IF rows = EmptyText THEN EmptyText ELSE model]

\* The editor state reparseEditor builds from the project problem p.
ReparsedWithoutContents(p) == [valid   |-> Rebuilds(p.source),
                               errors  |-> ~Rebuilds(p.source),
                               problem |-> p]
Reparsed(p) == [valid   |-> Rebuilds(p.source),
                errors  |-> ~Rebuilds(p.source),
                problem |-> RebuildFromSource(p, p.source)]

\* reparseEditor, on the project ps with `id` selected.
ReparseKeepingResult(ps, id) ==
  /\ editor' = IF HasProblem(ps, id) THEN Reparsed(FindProblem(ps, id)) ELSE editor
  /\ UNCHANGED resultVars
ReparseEditor(ps, id) ==
  IF HasProblem(ps, id)
  THEN /\ editor' = Reparsed(FindProblem(ps, id))
       /\ status' = IF editor'.valid THEN "" ELSE "INVALID"
       /\ panel' = VariableRows(ps, id, editor', EmptyText)
  ELSE UNCHANGED <<editor, panel, status>>

\* setEditorText(text), on the project ps with `id` selected: a text equal to
\* the editor's is dropped.  Otherwise the project takes it, parsed or not.
TakesText(ps, id, text) == HasProblem(ps, id) /\ text # editor.problem.source

SetEditorText(ps, id, text) ==
  IF TakesText(ps, id, text)
  THEN /\ problems' = SetSourceText(ps, id, text)
       /\ ReparseEditor(problems', id)
       /\ view' = editor'.problem.source
  ELSE /\ problems' = ps
       /\ UNCHANGED <<editor, panel, status, view>>

\* selectById(id), for an id of ps.
SelectByIdKeepingEditor(ps, id) ==
  /\ current' = id
  /\ UNCHANGED <<editor, view, panel, status>>
SelectById(ps, id) ==
  /\ current' = id
  /\ ReparseEditor(ps, id)
  /\ view' = editor'.problem.source

\* The guard on m_bBusy of solve, load, save, export and import.
IdleUnchecked == TRUE
Idle == ~busy

\* markDirty
MarkDirtyOfSelected == dirty' = (dirty \/ HasProblem(problems, current))
MarkDirty == dirty' = TRUE

-----------------------------------------------------------------------------
(* Managing problems.  None of these handlers looks at m_bBusy.  A row is  *)
(* one the explorer lists; the handler checks it against the project.      *)

CreateProblem ==
  LET name   == MakeUniqueName(<<>>, "problem", ProblemNames(problems))
      id     == NextId(lastId)
      listed == AdoptProblem(problems, NewProblem(id, name))
      ps     == SetSourceText(listed, id, Starter)
  IN  /\ phase = "open"
      /\ id <= MaxId /\ Len(problems) < MaxRows
      /\ CanAdopt(problems, NewProblem(id, name))
      /\ lastId' = id
      /\ explorer' = ExplorerRows(ps)
      /\ current' = id
      /\ SetEditorText(ps, id, Starter)
      /\ MarkDirty
      /\ UNCHANGED <<requestVars, threadVars, file, phase>>

SelectProblem(row) ==
  /\ phase = "open"
  /\ row \in DOMAIN problems
  /\ SelectById(problems, problems[row].id)
  /\ UNCHANGED <<projectVars, explorer, requestVars, threadVars, storeVars, phase>>

RemoveProblemAt(row) ==
  /\ phase = "open"
  /\ row \in DOMAIN problems
  /\ problems' = RemoveProblem(problems, row)
  /\ explorer' = ExplorerRows(problems')
  /\ MarkDirty
  /\ IF current = problems[row].id
     THEN /\ current' = 0
          /\ editor' = EmptyEditor
          /\ view' = EmptyText
          /\ panel' = VariableRows(problems', 0, EmptyEditor, EmptyText)
          /\ status' = ""
     ELSE UNCHANGED <<editorVars, resultVars>>
  /\ UNCHANGED <<lastId, requestVars, threadVars, file, phase>>

RenameProblemAt(row, name) ==
  /\ phase = "open"
  /\ row \in DOMAIN problems
  /\ name \in ValidNames
  /\ MayRename(problems, row, name)
  /\ problems' = RenameProblem(problems, row, name)
  /\ explorer' = ExplorerRows(problems')
  /\ MarkDirty
  /\ UNCHANGED <<lastId, editorVars, resultVars, requestVars, threadVars, file, phase>>

DuplicateProblemAt(row) ==
  LET source == problems[row]
      copy   == Duplicate(source, NextId(lastId),
                          MakeUniqueName(source.name, "copy", ProblemNames(problems)))
  IN  /\ phase = "open"
      /\ row \in DOMAIN problems
      /\ NextId(lastId) <= MaxId /\ Len(problems) < MaxRows
      /\ CanAdopt(problems, copy)
      /\ lastId' = copy.id
      /\ problems' = AdoptProblem(problems, copy)
      /\ explorer' = ExplorerRows(problems')
      /\ MarkDirty
      /\ UNCHANGED <<editorVars, resultVars, requestVars, threadVars, file, phase>>

-----------------------------------------------------------------------------
(* The editor.  The TextArea is enabled when m_oCurrentId is valid, even   *)
(* when no problem of the project has that id; it sends a text on when it  *)
(* differs from editorText(), and follows editorTextChanged.               *)

TypeText(text) ==
  /\ phase = "open"
  /\ current # 0
  /\ text # view
  /\ IF TakesText(problems, current, text)
     THEN /\ SetEditorText(problems, current, text)
          /\ MarkDirty
     ELSE /\ view' = text
          /\ UNCHANGED <<problems, editor, panel, status, dirty>>
  /\ UNCHANGED <<lastId, current, explorer, requestVars, threadVars, file, phase>>

-----------------------------------------------------------------------------
(* Solving.                                                                *)

\* solve() re-parses, refuses an invalid text, and otherwise posts a job that
\* carries a copy of the editor's problem and a new cancellation token.
Solve ==
  /\ phase = "open"
  /\ current # 0
  /\ Idle
  /\ lastRequest < MaxRequest
  /\ IF HasProblem(problems, current)
     THEN /\ editor' = Reparsed(FindProblem(problems, current))
          /\ panel' = VariableRows(problems, current, editor', EmptyText)
     ELSE UNCHANGED <<editor, panel>>
  /\ editor'.valid
  /\ lastRequest' = lastRequest + 1
  /\ token' = lastRequest'
  /\ busy' = TRUE
  /\ requests' = Append(requests, [req |-> lastRequest', problem |-> editor'.problem])
  /\ status' = "SOLVING"
  /\ UNCHANGED <<projectVars, current, view, explorer, armed, worker, results,
                 storeVars, phase>>

\* solve() on a text that does not parse only shows the diagnostics again.
SolveRefused ==
  /\ phase = "open"
  /\ current # 0
  /\ Idle
  /\ ReparseEditor(problems, current)
  /\ ~editor'.valid
  /\ UNCHANGED <<projectVars, current, view, explorer, requestVars, threadVars,
                 storeVars, phase>>

\* stop() arms the flag of the job in flight, whatever problem is selected.
Stop ==
  /\ phase = "open"
  /\ busy
  /\ token # 0
  /\ armed' = armed \union {token}
  /\ status' = "CANCELLING"
  /\ UNCHANGED <<projectVars, editorVars, explorer, panel, busy, lastRequest, token,
                 threadVars, storeVars, phase>>

\* The test that discards a result; request ids are not compared.
IsForLastRequest(result) == result.req = lastRequest
IsForSelected(result) == result.id = current

\* setBusy(false) and m_spCancellation.reset(), which frees the token.
FinishShownRequest(result) ==
  IF IsForSelected(result)
  THEN busy' = FALSE /\ token' = 0 /\ armed' = armed \ {result.req}
  ELSE UNCHANGED <<busy, token, armed>>
FinishRequest(result) ==
  /\ busy' = FALSE
  /\ token' = 0
  /\ armed' = armed \ {result.req}

\* applyResult: a model comes with SAT only.
ApplyResult(result) ==
  /\ status' = result.verdict
  /\ panel' = VariableRows(problems, current, editor, result.model)

\* onSolveFinished
OnSolveFinished ==
  LET result == Head(results)
  IN  /\ phase = "open"
      /\ results # <<>>
      /\ results' = Tail(results)
      /\ FinishRequest(result)
      /\ IF IsForSelected(result) THEN ApplyResult(result) ELSE UNCHANGED resultVars
      /\ UNCHANGED <<projectVars, editorVars, explorer, lastRequest, requests, worker,
                     storeVars, phase>>

-----------------------------------------------------------------------------
(* The worker thread.  doSolve takes a job from the thread's event queue;  *)
(* Z3Solver::solve reads the flag once before it starts.  A flag set later *)
(* cannot interrupt check() and does not change the verdict.               *)

\* What the worker posts to the GUI thread for a job.
ResultOf(job, verdict) ==
  [req |-> job.req, id |-> job.problem.id, verdict |-> verdict,
   model |-> IF verdict = "SAT" THEN job.problem.contents ELSE EmptyText]

\* A job cancelled before it started is answered without a check().
DropCancelled(job) == UNCHANGED results
AnswerCancelled(job) == results' = Append(results, ResultOf(job, "UNKNOWN"))

WorkerBegin ==
  LET job == Head(requests)
  IN  /\ phase # "exited"
      /\ worker = NoJob
      /\ requests # <<>>
      /\ requests' = Tail(requests)
      /\ IF job.req \in armed
         THEN AnswerCancelled(job) /\ UNCHANGED worker
         ELSE worker' = job /\ UNCHANGED results
      /\ UNCHANGED <<projectVars, editorVars, explorer, resultVars, requestVars,
                     storeVars, phase>>

WorkerFinish ==
  /\ worker # NoJob
  /\ \E verdict \in Answers(worker.problem.contents) :
       results' = Append(results, ResultOf(worker, verdict))
  /\ worker' = NoJob
  /\ UNCHANGED <<projectVars, editorVars, explorer, resultVars, requestVars, requests,
                 storeVars, phase>>

-----------------------------------------------------------------------------
(* Project files.  Open, save, export and import refuse to run while busy. *)

OpenProject ==
  /\ phase = "open"
  /\ Idle
  /\ \E doc \in StoredProjects \union ({file} \ {NoFile, TornFile}) :
       /\ Loadable(doc)
       /\ lastId + Len(doc) <= MaxId /\ Len(doc) <= MaxRows
       /\ problems' = LoadProject(doc, lastId)
       /\ lastId' = lastId + Len(doc)
       /\ file' = doc
  /\ dirty' = FALSE
  /\ UNCHANGED <<editorVars, explorer, resultVars, requestVars, threadVars, phase>>

\* loadImpl builds a project of its own, so that what it read before the row it
\* stops at is dropped with it.
BuildInPlace(doc, row) == problems' = LoadProject(SubSeq(doc, 1, row - 1), lastId)
BuildApart(doc, row) == UNCHANGED problems

\* An open that is refused half way: the first row that cannot be loaded ends it,
\* and the ids its problems took are gone.  (A file that is torn, missing or no
\* project takes none and changes nothing.)
OpenRefused ==
  /\ phase = "open"
  /\ Idle
  /\ \E doc \in StoredProjects \union ({file} \ {NoFile, TornFile}) :
     \E row \in RefusedRows(doc) :
       /\ \A other \in RefusedRows(doc) : row <= other
       /\ lastId + row <= MaxId
       /\ lastId' = lastId + row
       /\ BuildApart(doc, row)
  /\ UNCHANGED <<editorVars, explorer, resultVars, requestVars, threadVars, storeVars, phase>>

\* saveProject and saveProjectAs, when the storage reports no error.
SaveProject ==
  /\ phase = "open"
  /\ Idle
  /\ DiskWritable
  /\ file' = EncodeProject(problems)
  /\ dirty' = FALSE
  /\ UNCHANGED <<projectVars, editorVars, explorer, resultVars, requestVars, threadVars, phase>>

\* A save to the known path that fails after the file was truncated.
SaveFails ==
  /\ phase = "open"
  /\ Idle
  /\ DiskWritable
  /\ file # NoFile
  /\ file' = TornFile
  /\ UNCHANGED <<projectVars, editorVars, explorer, resultVars, requestVars, threadVars,
                 dirty, phase>>

\* exportProblem re-parses before it writes, so it also clears a shown result.
ExportProblem ==
  /\ phase = "open"
  /\ HasProblem(problems, current)
  /\ Idle
  /\ ReparseEditor(problems, current)
  /\ UNCHANGED <<projectVars, current, view, explorer, requestVars, threadVars,
                 storeVars, phase>>

ImportSmtLib2(text) ==
  LET name     == MakeUniqueName(<<>>, "import", ProblemNames(problems))
      imported == RebuildFromSource(NewProblem(NextId(lastId), name), text)
  IN  /\ phase = "open"
      /\ Idle
      /\ imported.id <= MaxId /\ Len(problems) < MaxRows
      /\ CanAdopt(problems, imported)
      /\ lastId' = imported.id
      /\ problems' = AdoptProblem(problems, imported)
      /\ explorer' = ExplorerRows(problems')
      /\ MarkDirty
      /\ SelectById(problems', imported.id)
      /\ UNCHANGED <<requestVars, threadVars, file, phase>>

-----------------------------------------------------------------------------
(* Shutdown: the destructor calls quit() and wait() on the worker thread.  *)
(* Nothing cancels the running check; a job still queued may run or not.   *)

Close ==
  /\ phase = "open"
  /\ phase' = "closing"
  /\ UNCHANGED <<projectVars, editorVars, explorer, resultVars, requestVars, threadVars, storeVars>>

WorkerExitAfterDelivery ==
  /\ phase = "closing"
  /\ worker = NoJob
  /\ results = <<>>
  /\ phase' = "exited"
  /\ UNCHANGED <<projectVars, editorVars, explorer, resultVars, requestVars, threadVars, storeVars>>
WorkerExit ==
  /\ phase = "closing"
  /\ worker = NoJob
  /\ phase' = "exited"
  /\ UNCHANGED <<projectVars, editorVars, explorer, resultVars, requestVars, threadVars, storeVars>>

\* The process has ended; the only state in which nothing more happens.
Exited == phase = "exited" /\ UNCHANGED vars
-----------------------------------------------------------------------------
(* The constructor starts the worker and creates one problem.              *)

Init ==
  LET first == [NewProblem(1, << <<"problem", 1>> >>) EXCEPT !.source = Starter]
  IN  /\ problems = <<first>>
      /\ lastId = 1
      /\ current = 1
      /\ editor = Reparsed(first)
      /\ view = Starter
      /\ explorer = ExplorerRows(<<first>>)
      /\ panel = [rows |-> Starter, values |-> EmptyText]
      /\ status = ""
      /\ busy = FALSE /\ lastRequest = 0 /\ token = 0 /\ armed = {}
      /\ requests = <<>> /\ worker = NoJob /\ results = <<>>
      /\ dirty = TRUE /\ file = NoFile
      /\ phase = "open"

Next ==
  \/ CreateProblem
  \/ \E row \in DOMAIN explorer : SelectProblem(row)
  \/ \E row \in DOMAIN explorer : RemoveProblemAt(row)
  \/ \E row \in DOMAIN explorer, name \in TypedNames : RenameProblemAt(row, name)
  \/ \E row \in DOMAIN explorer : DuplicateProblemAt(row)
  \/ \E text \in TypedTexts : TypeText(text)
  \/ Solve
  \/ SolveRefused
  \/ Stop
  \/ OnSolveFinished
  \/ WorkerBegin
  \/ WorkerFinish
  \/ OpenProject
  \/ OpenRefused
  \/ SaveProject
  \/ SaveFails
  \/ ExportProblem
  \/ \E text \in ImportTexts : ImportSmtLib2(text)
  \/ Close
  \/ WorkerExit
  \/ Exited

Spec == Init /\ [][Next]_vars

\* Both event loops keep running, and the timeout set on Z3 ends every check().
\* The user owes nothing: no handler a click starts is fair.
Fairness ==
  /\ WF_vars(WorkerBegin)
  /\ WF_vars(WorkerFinish)
  /\ WF_vars(OnSolveFinished)
  /\ WF_vars(WorkerExit)

FairSpec == Spec /\ Fairness
-----------------------------------------------------------------------------
(* Safety.                                                                 *)

\* The jobs on their way: queued for the worker, in check(), or answered.
InFlight == Len(requests) + (IF worker = NoJob THEN 0 ELSE 1) + Len(results)

\* The request that is on its way, 0 when there is none.
PendingRequest ==
  IF requests # <<>> THEN Head(requests).req
  ELSE IF worker # NoJob THEN worker.req
  ELSE IF results # <<>> THEN Head(results).req ELSE 0

\* m_bBusy is true exactly while one job is on its way between the threads,
\* m_spCancellation is then that job's token, and no other token is armed.
\* (solve, stop and onSolveFinished on one thread, doSolve on the other.)
OneJobInFlight ==
  /\ InFlight = IF busy THEN 1 ELSE 0
  /\ token = PendingRequest
  /\ armed \subseteq {token} \ {0}

\* A problem with a real id, whose text parsed and whose contents are that text's.
Checked(p) == p.source \in ValidTexts /\ p.contents = p.source /\ p.id # 0

\* Every job carries a text that parsed, with the contents parsed from that
\* very text, of a problem with a real id: the worker is never handed the
\* problem the project stores, whose contents lag behind its text.
JobsAreChecked ==
  /\ \A i \in DOMAIN requests : Checked(requests[i].problem)
  /\ worker # NoJob => Checked(worker.problem)

\* While the selected problem is in the project, m_oEditor holds the same text
\* as the project and a verdict of the parser that fits it, although five
\* handlers write the one or the other and createProblem may skip the re-parse.
EditorInSync ==
  HasProblem(problems, current) =>
    LET p == FindProblem(problems, current)
    IN  /\ editor.problem.source = p.source
        /\ editor.valid = (p.source \in ValidTexts)
        /\ editor.errors = ~editor.valid
        /\ editor.valid => editor.problem.contents = p.source

\* No two problems of the project share an id or a name, whichever of create,
\* duplicate, rename, import and open put them there.
IdsAndNamesUnique ==
  \A i, j \in DOMAIN problems :
    problems[i].id = problems[j].id \/ problems[i].name = problems[j].name => i = j

\* A window without the unsaved-changes mark shows a project equal to its file,
\* also after an open that was refused half way; unless a failed save has just
\* destroyed that file.
CleanMeansSaved ==
  ~dirty /\ file # TornFile => file = EncodeProject(problems)

\* An id that has left the project (its problem was deleted, or another project
\* was opened) never comes back, so that a late result or a stale selection
\* cannot land on another problem.
IdsNeverReturn ==
  [][\A id \in 1..lastId : ~HasProblem(problems, id) => ~HasProblem(problems', id)]_vars

\* A step that changes the editor's text, by typing, selecting, creating,
\* deleting or importing, leaves no verdict and no model value of the previous
\* text on the screen.
VerdictDropsWithText ==
  [][editor'.problem.source # editor.problem.source =>
       status' \in {"", "INVALID", "SOLVING"} /\ panel'.values = EmptyText]_vars

-----------------------------------------------------------------------------
(* Liveness, under Fairness.                                               *)

\* Solve, open and save cannot stay blocked: busy ends unless the user quits.
BusyEnds == busy ~> (~busy \/ phase # "open")

\* wait() in the destructor returns, also when it meets a running check().
CloseEnds == phase = "closing" ~> phase = "exited"

-----------------------------------------------------------------------------
(* The two threads implement the promise of SolveSession.                  *)

Session == INSTANCE SolveSession WITH
  asked    <- lastRequest,
  pending  <- PendingRequest,
  stopping <- PendingRequest \in armed,
  window   <- IF phase = "open" THEN "open" ELSE "shut"

ImplementsSession == Session!Spec

-----------------------------------------------------------------------------
(* What the documentation says and the program does not do.                *)

\* "Lists all problems of the current project." (Project Explorer)
ExplorerListsProject == explorer = ExplorerRows(problems)

\* "INVALID: Editor text currently has diagnostics" (statuses of an idle window)
ErrorsShowInvalid == ~busy /\ editor.errors => status = "INVALID"

\* "Solving... / Cancelling...: Job in flight"
SolvingMeansBusy == status \in {"SOLVING", "CANCELLING"} => busy

\* "While the text has errors, the problem internally keeps its last valid state"
KeepsLastValidState ==
  [][ /\ editor.valid /\ editor'.errors
      /\ editor'.problem.id = editor.problem.id
      => editor'.problem.contents = editor.problem.contents ]_vars
=============================================================================
