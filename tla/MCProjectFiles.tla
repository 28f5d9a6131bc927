--------------------------- MODULE MCProjectFiles ---------------------------
(* Small values for the constants of ProjectFiles.                          *)
EXTENDS ProjectFiles

CONSTANTS blank, sound, unparsed

File(name, suffix) == [name |-> name, suffix |-> suffix]

\* More paths than the list has room for, and one that needs its suffix.
MCPaths    == {File("a", ""), File("a", ".z3w"), File("b", ".z3w"), File("c", ".Z3W")}
MCProjects == {blank, sound, unparsed}
MCLoadable == {blank, sound}
=============================================================================
