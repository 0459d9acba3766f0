--------------------------- MODULE MC_SyncEngine ----------------------------
(* Small instances of SyncEngine: a file with the names its conflicted       *)
(* copies may get, and a folder d with a folder e and a file x in it.        *)
EXTENDS SyncEngine, TLC

CONSTANTS a, copy1, copy2, d, e, x

MCAncestors == [p \in Paths |-> IF p \in {e, x} THEN {d} ELSE {}]
MCRank ==
    [p \in Paths |-> CASE p = copy1 -> 1 [] p = copy2 -> 2 [] p = a -> 3
                       [] p = d -> 4 [] p = e -> 5 [] p = x -> 6]
MCCopies == [p \in Paths |-> IF p = a THEN {copy1, copy2} \cap Paths ELSE {}]

Alike == Permutations(Contents)
==============================================================================
