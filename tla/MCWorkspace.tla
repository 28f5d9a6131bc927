----------------------------- MODULE MCWorkspace -----------------------------
(* Small values for the constants of Workspace.                             *)
EXTENDS Workspace

CONSTANTS empty, starter, unsat, broken

MCWords      == {"problem", "import", "copy", "9lives", "stored"}
MCTexts      == {empty, starter, unsat, broken}
MCValidTexts == {empty, starter, unsat}
MCSatTexts   == {empty, starter}
MCTypedTexts == {unsat, broken}
MCImports    == {unsat}

Named(word, n) == << <<word, n>> >>

\* One name that makeUniqueName could also produce, and one the identifier
\* rule rejects.
MCTypedNames == {Named("problem", 2), Named("9lives", 0)}
MCValidNames == {Named("problem", 2)}

Entry(name, text) == [name |-> name, source |-> text]

\* A good file, one whose text does not parse, and one with a name twice.
MCStoredProjects ==
  { <<Entry(Named("problem", 1), unsat)>>,
    <<Entry(Named("problem", 1), broken)>>,
    <<Entry(Named("stored", 0), starter), Entry(Named("stored", 0), starter)>> }
=============================================================================
