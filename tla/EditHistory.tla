----------------------------- MODULE EditHistory -----------------------------
(***************************************************************************)
(* The workbench together with a history variable: whether the text of the *)
(* problem being solved has been edited since the solve was asked for.     *)
(* onSolveFinished matches a result by the id of its problem only, so this *)
(* is what decides whether a verdict may be trusted.                       *)
(***************************************************************************)
EXTENDS Workspace

VARIABLE disturbed   \* the text that was sent to the worker has been edited

historyVars == <<vars, disturbed>>

\* The id of the problem whose job is on its way, 0 when there is none.
PendingProblem ==
  IF requests # <<>> THEN Head(requests).problem.id
  ELSE IF worker # NoJob THEN worker.problem.id
  ELSE IF results # <<>> THEN Head(results).id ELSE 0

\* A step that replaces the text of the problem in flight.
EditsPending ==
  /\ HasProblem(problems, PendingProblem)
  /\ HasProblem(problems', PendingProblem)
  /\ FindProblem(problems, PendingProblem).source # FindProblem(problems', PendingProblem).source

HistoryInit == Init /\ disturbed = FALSE

\* A request for a problem of the project re-parses its text and clears the
\* screen first, so it starts undisturbed.  (The selected id may be one no
\* problem has, after another project was opened: solve() then sends the text
\* that is still in the editor and leaves the values on the screen.)
StartsAfresh == lastRequest' # lastRequest /\ HasProblem(problems, current)

HistoryNext ==
  /\ Next
  /\ disturbed' = (~StartsAfresh /\ (disturbed \/ EditsPending))

HistorySpec == HistoryInit /\ [][HistoryNext]_historyVars

-----------------------------------------------------------------------------
\* The verdict on the screen is the answer to the text of the selected problem,
\* and the values beside its variables come from that text's own model.
VerdictFitsText ==
  HasProblem(problems, current) =>
    LET text == FindProblem(problems, current).source
    IN  /\ status = "SAT" => text \in SatTexts
        /\ status = "UNSAT" => text \in ValidTexts \ SatTexts
        /\ panel.values # EmptyText => panel.values = text

\* As long as nobody edits the very text that is being solved, a verdict on the
\* screen is the one of that text, whatever else happens meanwhile: selecting,
\* editing, creating, renaming and deleting other problems, stopping, opening a
\* project afterwards (onSolveFinished, applyResult, selectById, reparseEditor).
VerdictFitsUndisturbed == ~disturbed => VerdictFitsText
=============================================================================
