---------------------------- MODULE MC_FileStore ----------------------------
(* Small instances of FileStore: names a, A and b, of which the first two    *)
(* differ in case only, or a name whose letters only Python can fold.        *)
EXTENDS FileStore, TLC

CONSTANTS a, A, b, e

MCLower == [x \in Bases |-> IF x = A THEN a ELSE x]
\* str.lower folds the accented capital e, which SQLite's lower() leaves alone.
MCPyLower == [x \in Bases |-> IF x = e THEN "small e" ELSE MCLower[x]]
MCPaths == {<< <<a>> >>, << <<A>>, <<b>> >>}
MCNamePaths == {<< <<e>> >>}

Alike == Permutations(Inners) \cup Permutations(Contents)
==============================================================================
