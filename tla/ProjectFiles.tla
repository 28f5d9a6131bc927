---------------------------- MODULE ProjectFiles ----------------------------
(***************************************************************************)
(* Several project files and the list of recent projects.  Workspace knows *)
(* the one file at m_strProjectPath; here are all of them, across sessions *)
(* of the program: the disk and the QSettings outlive a session, which may *)
(* end at any moment, also in the middle of a save.                        *)
(*                                                                         *)
(* A project is a member of Projects, the data its file would hold.  One   *)
(* load refuses (a text that does not parse, a name twice) is not in       *)
(* LoadableProjects; it can be saved all the same.                         *)
(***************************************************************************)
EXTENDS Naturals, Sequences, SequencesExt

CONSTANTS
  Paths,             \* the files a dialog can return: a name and its suffix
  Projects,
  LoadableProjects,
  Untitled,          \* the project a session starts with
  Missing,           \* what a path without a file holds
  Torn,              \* what a save that did not finish leaves
  NoPath,            \* m_strProjectPath is empty
  MaxRecentProjects, \* k_iMaxRecentProjects
  MaxUses            \* bound: opens and saves

ProjectSuffixes == {".z3w", ".Z3W"}

\* saveProjectAs appends ".z3w" to a name that does not end in it, in any case.
Normalized(path) ==
  IF path.suffix \in ProjectSuffixes THEN path ELSE [path EXCEPT !.suffix = ".z3w"]

ASSUME FilesAssumption ==
  /\ \A path \in Paths : Normalized(path) \in Paths
  /\ NoPath \notin Paths
  /\ LoadableProjects \subseteq Projects
  /\ Untitled \in Projects
  /\ {Missing, Torn} \intersect Projects = {}
  /\ MaxRecentProjects \in Nat \ {0}
  /\ MaxUses \in Nat

VARIABLES
  disk,         \* what each path holds
  recents,      \* recentProjects in the QSettings, the latest first
  project,      \* m_oProject
  projectPath,  \* m_strProjectPath
  dirty,        \* m_bDirty
  busy,         \* m_bBusy
  uses,         \* history: the opens and saves that have succeeded so far
  lastUse       \* history: the number of each path's last one, 0 for none

windowVars  == <<project, projectPath, dirty>>
recentVars  == <<recents, uses, lastUse>>
vars        == <<disk, windowVars, busy, recentVars>>

TypeOK ==
  /\ disk \in [Paths -> Projects \union {Missing, Torn}]
  /\ recents \in Seq(Paths)
  /\ project \in Projects
  /\ projectPath \in Paths \union {NoPath}
  /\ dirty \in BOOLEAN
  /\ busy \in BOOLEAN
  /\ uses \in Nat
  /\ lastUse \in [Paths -> Nat]

-----------------------------------------------------------------------------
(* rememberRecentProject                                                   *)

\* QStringList::removeAll.  The list never holds a path twice
\* (RecentsAreLastUsed), so there is at most one entry to remove.
Without(list, path) ==
  IF \E i \in DOMAIN list : list[i] = path
  THEN RemoveAt(list, CHOOSE i \in DOMAIN list : list[i] = path)
  ELSE list

Trimmed(list) ==
  IF Len(list) > MaxRecentProjects THEN SubSeq(list, 1, MaxRecentProjects) ELSE list

PrependOnly(path) == recents' = Trimmed(<<path>> \o recents)
RememberRecentProject(path) == recents' = Trimmed(<<path>> \o Without(recents, path))

\* A use of the path that the user can tell has succeeded.
Uses(path) ==
  /\ uses < MaxUses
  /\ uses' = uses + 1
  /\ lastUse' = [lastUse EXCEPT ![path] = uses + 1]

-----------------------------------------------------------------------------
(* The user edits, and a solve keeps the window busy for a while.          *)

Edit(p) ==
  /\ project' = p
  /\ dirty' = TRUE
  /\ UNCHANGED <<disk, projectPath, busy, recentVars>>

SetBusy == busy' = ~busy /\ UNCHANGED <<disk, windowVars, recentVars>>

-----------------------------------------------------------------------------
(* Opening.  A file that cannot be read or does not load changes nothing.  *)

LoadFromPath(path) ==
  /\ ~busy
  /\ disk[path] \in LoadableProjects
  /\ project' = disk[path]
  /\ projectPath' = path
  /\ dirty' = FALSE
  /\ RememberRecentProject(path)
  /\ Uses(path)
  /\ UNCHANGED <<disk, busy>>

\* openProject, and openProjectPath for an entry of the menu.
OpenProject    == \E path \in Paths : LoadFromPath(path)
OpenRecent     == \E i \in DOMAIN recents : LoadFromPath(recents[i])

-----------------------------------------------------------------------------
(* Saving: to the known path, or to one from the dialog.                   *)

SaveToPath(path) ==
  /\ ~busy
  /\ disk' = [disk EXCEPT ![path] = project]
  /\ projectPath' = path
  /\ dirty' = FALSE
  /\ RememberRecentProject(path)
  /\ Uses(path)
  /\ UNCHANGED <<project, busy>>

\* The file cannot be opened for writing, or breaks off after its truncation.
SaveFailsAdopting(path) ==
  /\ ~busy
  /\ \E content \in {disk[path], Torn} : disk' = [disk EXCEPT ![path] = content]
  /\ projectPath' = path
  /\ UNCHANGED <<project, dirty, busy, recentVars>>
SaveFails(path) ==
  /\ ~busy
  /\ \E content \in {disk[path], Torn} : disk' = [disk EXCEPT ![path] = content]
  /\ UNCHANGED <<windowVars, busy, recentVars>>

SaveTargets == {Normalized(path) : path \in Paths} \union ({projectPath} \ {NoPath})

SaveProject   == projectPath # NoPath /\ SaveToPath(projectPath)
SaveProjectAs == \E path \in Paths : SaveToPath(Normalized(path))

-----------------------------------------------------------------------------
(* Sessions.  The next one starts with a new project and no path; what     *)
(* remains of the last one is the disk and the settings.                   *)

NewSession ==
  /\ project' = Untitled
  /\ projectPath' = NoPath
  /\ dirty' = TRUE
  /\ busy' = FALSE

Restart == NewSession /\ UNCHANGED <<disk, recentVars>>

\* The process dies inside saveToPath: before the data is written, or after
\* that and before the path is remembered.
CrashWhileSaving(path) ==
  /\ ~busy
  /\ \E content \in {Torn, project} : disk' = [disk EXCEPT ![path] = content]
  /\ NewSession
  /\ UNCHANGED recentVars

\* The user deletes a file with another program.
FileDisappears(path) ==
  /\ disk[path] # Missing
  /\ disk' = [disk EXCEPT ![path] = Missing]
  /\ UNCHANGED <<windowVars, busy, recentVars>>

-----------------------------------------------------------------------------
Init ==
  /\ disk = [path \in Paths |-> Missing]
  /\ recents = <<>>
  /\ project = Untitled /\ projectPath = NoPath /\ dirty = TRUE
  /\ busy = FALSE
  /\ uses = 0 /\ lastUse = [path \in Paths |-> 0]

Next ==
  \/ \E p \in Projects : Edit(p)
  \/ SetBusy
  \/ OpenProject
  \/ OpenRecent
  \/ SaveProject
  \/ SaveProjectAs
  \/ \E path \in SaveTargets : SaveFails(path)
  \/ Restart
  \/ \E path \in SaveTargets : CrashWhileSaving(path)
  \/ \E path \in Paths : FileDisappears(path)

Spec == Init /\ [][Next]_vars
-----------------------------------------------------------------------------
\* Open Recent lists exactly the paths used last, the latest first and each
\* once, across every end of a session: a path that was opened or saved and is
\* not listed is older than all the listed ones, and the list is full
\* (rememberRecentProject; "The last 10 opened/saved project paths persist").
RecentsAreLastUsed ==
  /\ Len(recents) <= MaxRecentProjects
  /\ \A i \in DOMAIN recents : lastUse[recents[i]] > 0
  /\ \A i, j \in DOMAIN recents : i < j => lastUse[recents[i]] > lastUse[recents[j]]
  /\ \A path \in Paths :
       lastUse[path] > 0 /\ (\A i \in DOMAIN recents : recents[i] # path) =>
         /\ Len(recents) = MaxRecentProjects
         /\ \A i \in DOMAIN recents : lastUse[recents[i]] > lastUse[path]

\* A window without the unsaved-changes mark has a path, and the file there
\* holds its project, unless a failed save tore it or the user deleted it:
\* a save to another path that fails moves neither the path nor the mark
\* (loadFromPath, saveToPath, saveProjectAs).
WindowFitsItsFile ==
  ~dirty => projectPath # NoPath /\ disk[projectPath] \in {project, Torn, Missing}
=============================================================================
