------------------------------ MODULE FileTree ------------------------------
(* The server's file tree (files/tree_service.py over the file_node table):  *)
(* the table as a function from ids to rows, and what the operations look up *)
(* and write in it.  A table is an argument here; FileStore has the one that *)
(* changes.                                                                  *)
EXTENDS Naturals, Sequences, FiniteSets, FiniteSetsExt

CONSTANTS
    Bases,          \* names without an autorename suffix
    SqlLower,       \* a name's letters folded as SQLite does (lower(), NOCASE)
    PyLower,        \* the same as Python's str.lower does, on what is looked for
    Inners,         \* inner_name, the key of a blob
    Contents,       \* bytes, told apart by their md5
    NoInner, NoHash,
    MaxId           \* bound on the number of rows

ASSUME FileTreeAssumption ==
    /\ MaxId \in Nat
    /\ NoInner \notin Inners /\ NoHash \notin Contents
    /\ DOMAIN SqlLower = Bases /\ DOMAIN PyLower = Bases

Root == 0
Ids  == 1..MaxId

\* "stem (1).ext" is the base and the numbers autorename has added to it.
Names == {<<base>> : base \in Bases} \cup {<<base, i>> : base \in Bases, i \in Ids}
Suffixed(name, i) == Append(name, i)

FileNode == [parent : Ids \cup {Root}, name : Seq(Bases \cup Nat), folder : BOOLEAN,
             inner : Inners \cup {NoInner}, hash : Contents \cup {NoHash}]

FolderRow(p, name) ==
    [parent |-> p, name |-> name, folder |-> TRUE, inner |-> NoInner, hash |-> NoHash]
FileRow(p, name, inner, hash) ==
    [parent |-> p, name |-> name, folder |-> FALSE, inner |-> inner, hash |-> hash]

Files(t) == {n \in DOMAIN t : ~t[n].folder}

\* INTEGER PRIMARY KEY without AUTOINCREMENT: one more than the largest there is.
NewId(t) == Max(DOMAIN t \cup {0}) + 1
Room(t)  == NewId(t) \in Ids
Inserted(t, row) == [n \in DOMAIN t \cup {NewId(t)} |-> IF n = NewId(t) THEN row ELSE t[n]]
Without(t, ns)   == [n \in DOMAIN t \ ns |-> t[n]]

SameLower(stored, wanted) ==
    /\ Tail(stored) = Tail(wanted)
    /\ SqlLower[Head(stored)] = PyLower[Head(wanted)]

\* find_child's rows: at most one, by the unique constraint.
FindChild(t, p, name) == {n \in DOMAIN t : t[n].parent = p /\ SameLower(t[n].name, name)}

\* uq_sibling_name, UNIQUE(parent_id, name COLLATE NOCASE): the flush raises.
Clashes(t, p, name, but) ==
    \E n \in DOMAIN t \ but : /\ t[n].parent = p /\ Tail(t[n].name) = Tail(name)
                              /\ SqlLower[Head(t[n].name)] = SqlLower[Head(name)]

Children(t, p) == {n \in DOMAIN t : t[n].parent = p}

\* The node and all that lies under it: what delete collects, where a move may not go.
Closed(t, ns) == \A m \in DOMAIN t : t[m].parent \in ns => m \in ns
Subtree(t, n) ==
    LET closed == {ns \in SUBSET (DOMAIN t \cup {n}) : n \in ns /\ Closed(t, ns)}
    IN  {m \in DOMAIN t \cup {n} : \A ns \in closed : m \in ns}
\* Mutant: the walk up starts at the destination's parent.
IsDescendant_Above(t, n, p) == p # Root /\ t[p].parent \in Subtree(t, n)
IsDescendant(t, n, p) == p \in Subtree(t, n)

Taken(t, p, name) == FindChild(t, p, name) # {}
\* autorenamed: the name, or the first of its suffixed forms that is free.
Autorenamed(t, p, name) ==
    IF ~Taken(t, p, name) THEN {name}
    ELSE {Suffixed(name, i) : i \in {j \in 1..MaxId + 1 :
             /\ ~Taken(t, p, Suffixed(name, j))
             /\ \A k \in 1..MaxId + 1 : k < j => Taken(t, p, Suffixed(name, k))}}

UsedBytes(t) == Cardinality(Files(t))
BlobReferenced(t, inner) == \E n \in DOMAIN t : t[n].inner = inner
==============================================================================
