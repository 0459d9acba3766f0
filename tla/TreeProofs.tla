----------------------------- MODULE TreeProofs ------------------------------
(* The server's rows stay a tree with one name for each node, and the change *)
(* rows tell of every change, when requests follow one another.              *)
EXTENDS FileStoreProofs

------------------------------------------------------------------------------
(* Subtrees *)

\* The least set that holds n and, with a node, what lies in it.
LEMMA SubtreeIsLeast ==
    ASSUME NEW t, NEW n
    PROVE  /\ n \in Subtree(t, n) /\ Subtree(t, n) \subseteq DOMAIN t \cup {n}
           /\ Closed(t, Subtree(t, n))
           /\ \A ns : n \in ns /\ Closed(t, ns) => Subtree(t, n) \subseteq ns
<1> DEFINE closed == {ns \in SUBSET (DOMAIN t \cup {n}) : n \in ns /\ Closed(t, ns)}
<1>1. Subtree(t, n) = {m \in DOMAIN t \cup {n} : \A ns \in closed : m \in ns}
  BY DEF Subtree
<1>2. n \in Subtree(t, n) /\ Subtree(t, n) \subseteq DOMAIN t \cup {n}
  BY <1>1
<1>3. ASSUME NEW m \in DOMAIN t, t[m].parent \in Subtree(t, n)
      PROVE  m \in Subtree(t, n)
  <2>1. ASSUME NEW ns \in closed PROVE m \in ns
    <3>1. t[m].parent \in ns
      BY <1>1, <1>3
    <3>2. QED BY <3>1 DEF Closed
  <2>2. QED BY <1>1, <2>1
<1>4. ASSUME NEW ns, n \in ns, Closed(t, ns)
      PROVE  Subtree(t, n) \subseteq ns
  <2>1. ns \cap (DOMAIN t \cup {n}) \in closed
    BY <1>4 DEF Closed
  <2>2. QED BY <1>1, <2>1
<1>5. QED BY <1>2, <1>3, <1>4 DEF Closed

\* What is reached from the root is what every closed set around the root has.
LEMMA ReachedFromRoot ==
    ASSUME NEW t
    PROVE  Subtree(t, Root) = DOMAIN t \cup {Root}
             <=> \A ns : Root \in ns /\ Closed(t, ns) => DOMAIN t \subseteq ns
<1>1. ASSUME Subtree(t, Root) = DOMAIN t \cup {Root}, NEW ns, Root \in ns, Closed(t, ns)
      PROVE  DOMAIN t \subseteq ns
  BY <1>1, SubtreeIsLeast
<1>2. ASSUME \A ns : Root \in ns /\ Closed(t, ns) => DOMAIN t \subseteq ns
      PROVE  Subtree(t, Root) = DOMAIN t \cup {Root}
  <2>1. Root \in Subtree(t, Root) /\ Subtree(t, Root) \subseteq DOMAIN t \cup {Root}
    BY SubtreeIsLeast
  <2>2. Closed(t, Subtree(t, Root))
    BY SubtreeIsLeast
  <2>3. DOMAIN t \subseteq Subtree(t, Root)
    BY <1>2, <2>1, <2>2
  <2>4. QED BY <2>1, <2>3
<1>3. QED BY <1>1, <1>2

------------------------------------------------------------------------------
(* What is done to the table keeps it a tree *)

\* A place for a node: the root, or a folder that is there.
Place(t, q) == q = Root \/ (q \in DOMAIN t /\ t[q].folder)

\* The unique constraint's key.
SameKey(t, m, n) ==
    /\ t[m].parent = t[n].parent /\ Tail(t[m].name) = Tail(t[n].name)
    /\ SqlLower[Head(t[m].name)] = SqlLower[Head(t[n].name)]

Parented(t) == \A n \in DOMAIN t : Place(t, t[n].parent)
Rooted(t)   == Subtree(t, Root) = DOMAIN t \cup {Root}
OneName(t)  == \A m, n \in DOMAIN t : SameKey(t, m, n) => m = n
Forest(t)   == Parented(t) /\ Rooted(t) /\ OneName(t)

\* A row goes into a folder that is there.
LEMMA ForestGrows ==
    ASSUME NEW t, Forest(t), DOMAIN t \subseteq Ids, NEW row, Place(t, row.parent),
           ~Clashes(t, row.parent, row.name, {})
    PROVE  Forest(Inserted(t, row))
<1> DEFINE new == NewId(t)
<1>1. new \in Nat /\ new \notin DOMAIN t
  BY NewIdIsNew
<1> HIDE DEF new
<1>2. PICK next : next = Inserted(t, row)
  OBVIOUS
<1>3. /\ DOMAIN next = DOMAIN t \cup {new} /\ next[new] = row
      /\ \A n \in DOMAIN t : next[n] = t[n]
  BY <1>1, <1>2 DEF Inserted, new
<1>4. Parented(next)
  BY <1>3 DEF Forest, Parented, Place
<1>5. Rooted(next)
  <2>1. ASSUME NEW ns, Root \in ns, Closed(next, ns) PROVE DOMAIN next \subseteq ns
    <3>1. Closed(t, ns)
      BY <1>3, <2>1 DEF Closed
    <3>2. DOMAIN t \subseteq ns
      BY <2>1, <3>1, ReachedFromRoot DEF Forest, Rooted
    <3>3. next[new].parent \in ns
      BY <1>3, <2>1, <3>2 DEF Place
    <3>4. QED BY <1>3, <2>1, <3>2, <3>3 DEF Closed
  <2>2. QED BY <2>1, ReachedFromRoot DEF Rooted
<1>6. OneName(next)
  <2>1. \A n \in DOMAIN t : ~SameKey(next, n, new) /\ ~SameKey(next, new, n)
    BY <1>1, <1>3 DEF Clashes, SameKey
  <2>2. \A m, n \in DOMAIN t : SameKey(next, m, n) => SameKey(t, m, n)
    BY <1>3 DEF SameKey
  <2>3. QED BY <1>3, <2>1, <2>2 DEF Forest, OneName
<1>7. QED BY <1>2, <1>4, <1>5, <1>6 DEF Forest

\* A node goes with all that lies in it.
LEMMA ForestShrinks ==
    ASSUME NEW t, Forest(t), NEW n
    PROVE  Forest(Without(t, Subtree(t, n)))
<1> DEFINE ns == Subtree(t, n)
<1>1. Closed(t, ns)
  BY SubtreeIsLeast
<1> HIDE DEF ns
<1>2. PICK next : next = Without(t, ns)
  OBVIOUS
<1>3. DOMAIN next = DOMAIN t \ ns /\ \A m \in DOMAIN next : next[m] = t[m]
  BY <1>2 DEF Without
<1>4. Parented(next)
  <2>1. \A m \in DOMAIN next : t[m].parent \notin ns
    BY <1>1, <1>3 DEF Closed
  <2>2. QED BY <1>3, <2>1 DEF Forest, Parented, Place
<1>5. Rooted(next)
  <2>1. ASSUME NEW rs, Root \in rs, Closed(next, rs) PROVE DOMAIN next \subseteq rs
    <3>1. Closed(t, rs \cup ns)
      BY <1>1, <1>3, <2>1 DEF Closed
    <3>2. DOMAIN t \subseteq rs \cup ns
      BY <2>1, <3>1, ReachedFromRoot DEF Forest, Rooted
    <3>3. QED BY <1>3, <3>2
  <2>2. QED BY <2>1, ReachedFromRoot DEF Rooted
<1>6. OneName(next)
  BY <1>3 DEF Forest, OneName, SameKey
<1>7. QED BY <1>2, <1>4, <1>5, <1>6 DEF Forest, ns

\* A node goes to a folder that does not lie in it.
LEMMA ForestMoves ==
    ASSUME NEW t, Forest(t), NEW n \in DOMAIN t, NEW q, Place(t, q), q \notin Subtree(t, n),
           NEW next, DOMAIN next = DOMAIN t, next[n].parent = q, next[n].folder = t[n].folder,
           ~Clashes(t, q, next[n].name, {n}),
           \A m \in DOMAIN t \ {n} : next[m] = t[m]
    PROVE  Forest(next)
<1> DEFINE ns == Subtree(t, n)
<1>1. n \in ns /\ Closed(t, ns)
  BY SubtreeIsLeast
<1>2. \A rs : n \in rs /\ Closed(t, rs) => ns \subseteq rs
  BY SubtreeIsLeast
<1> HIDE DEF ns
<1>3. Parented(next)
  BY DEF Forest, Parented, Place
<1>4. Rooted(next)
  <2>1. ASSUME NEW rs, Root \in rs, Closed(next, rs) PROVE DOMAIN next \subseteq rs
    <3>1. Closed(t, rs \cup ns)
      BY <1>1, <2>1 DEF Closed
    <3>2. DOMAIN t \subseteq rs \cup ns
      BY <2>1, <3>1, ReachedFromRoot DEF Forest, Rooted
    <3>3. q \in rs
      BY <2>1, <3>2 DEF Place, ns
    <3>4. n \in rs
      BY <2>1, <3>3 DEF Closed
    <3>5. Closed(t, rs)
      BY <2>1, <3>4 DEF Closed
    <3>6. QED BY <2>1, <3>5, ReachedFromRoot DEF Forest, Rooted
  <2>2. QED BY <2>1, ReachedFromRoot DEF Rooted
<1>5. OneName(next)
  <2>1. \A m \in DOMAIN t \ {n} : ~SameKey(next, m, n) /\ ~SameKey(next, n, m)
    BY DEF Clashes, SameKey
  <2>2. \A k, m \in DOMAIN t \ {n} : SameKey(next, k, m) => SameKey(t, k, m)
    BY DEF SameKey
  <2>3. QED BY <2>1, <2>2 DEF Forest, OneName
<1>6. QED BY <1>3, <1>4, <1>5 DEF Forest

\* Rows that keep their place and their name.
LEMMA ForestStays ==
    ASSUME NEW t, Forest(t), NEW next, DOMAIN next = DOMAIN t,
           \A n \in DOMAIN t : /\ next[n].parent = t[n].parent /\ next[n].name = t[n].name
                               /\ next[n].folder = t[n].folder
    PROVE  Forest(next)
<1>1. Parented(next) /\ OneName(next)
  BY DEF Forest, Parented, Place, OneName, SameKey
<1>2. \A ns : Closed(next, ns) <=> Closed(t, ns)
  BY DEF Closed
<1>3. Rooted(next)
  BY <1>2, ReachedFromRoot DEF Forest, Rooted
<1>4. QED BY <1>1, <1>3 DEF Forest

------------------------------------------------------------------------------
(* Requests know where they put things *)

\* Where a request is about to put something is a folder that is there.
WellPlaced(r) ==
    /\ r.pc = "ensure" => Place(node, r.parent)
    /\ r.pc \in {"clone", "insert"} => \A p \in r.pairs : Place(node, p.parent)
    /\ r.pc = "insert" => Place(node, r.row.parent)

TreeInv == IInv /\ Forest(node) /\ \A w \in Workers : WellPlaced(req[w])

\* What is to be shown of a step of the one request.
LEMMA TreeStep ==
    ASSUME TreeInv, OneAtATime, IInv', NEW w \in Workers, NEW r,
           req' = [req EXCEPT ![w] = r], Forest(node)', WellPlaced(r)'
    PROVE  TreeInv'
<1>1. \A v \in Workers : req'[v] = r
  BY DEF TreeInv, IInv, TypeOK, OneAtATime
<1>2. QED BY <1>1 DEF TreeInv, WellPlaced

\* A step that leaves the tree alone, of a request that knows its place.
LEMMA TreeUntouched ==
    ASSUME TreeInv, OneAtATime, IInv', NEW w \in Workers, NEW r,
           req' = [req EXCEPT ![w] = r], node' = node, WellPlaced(r)
    PROVE  TreeInv'
<1>1. Forest(node)' /\ WellPlaced(r)'
  BY DEF TreeInv, WellPlaced
<1>2. QED BY <1>1, TreeStep

\* A request that fails, or has nothing more to do.
LEMMA TreeFails ==
    ASSUME TreeInv, OneAtATime, IInv', NEW w \in Workers, Fails(w)
    PROVE  TreeInv'
<1>1. req' = [req EXCEPT ![w] = Idle] /\ node' = node
  BY DEF Fails, Ends, GoesOn, Unchanged
<1>2. WellPlaced(Idle)
  BY DEF WellPlaced, Idle
<1>3. QED BY <1>1, <1>2, TreeUntouched

\* A row is put into a folder, and the request goes on from there.
LEMMA TreeInserts ==
    ASSUME TreeInv, OneAtATime, IInv', NEW w \in Workers, NEW row, NEW op, NEW next,
           Inserts(w, row, op, next), Place(node, row.parent),
           ASSUME \A q : Place(node, q) \/ (q = NewId(node) /\ row.folder) => Place(node, q)'
           PROVE  WellPlaced(next)'
    PROVE  TreeInv'
<1>1. CASE Clashes(node, row.parent, row.name, {})
  BY <1>1, TreeFails DEF Inserts
<1>2. CASE ~Clashes(node, row.parent, row.name, {})
  <2>1. node' = Inserted(node, row) /\ req' = [req EXCEPT ![w] = next]
    BY <1>2 DEF Inserts, GoesOn
  <2>2. NewId(node) \notin DOMAIN node /\ DOMAIN node \subseteq Ids
    BY NewIdIsNew DEF TreeInv, IInv, TypeOK
  <2>3. Forest(node)'
    BY <1>2, <2>1, <2>2, ForestGrows DEF TreeInv
  <2>4. \A q : Place(node, q) \/ (q = NewId(node) /\ row.folder) => Place(node, q)'
    BY <2>1, <2>2 DEF Inserted, Place
  <2>5. WellPlaced(next)'
    BY <2>4
  <2>6. QED BY <2>1, <2>3, <2>5, TreeStep
<1>3. QED BY <1>1, <1>2

\* ensure_folder: a folder on the way is found or made, and the request is in it.
LEMMA EnsureFolderTree ==
    ASSUME TreeInv, OneAtATime, IInv', NEW w \in Workers, EnsureFolder(w)
    PROVE  TreeInv'
<1>1. PICK r \in Request : r = req[w]
  BY DEF TreeInv, IInv, TypeOK
<1> DEFINE to(n) == [r EXCEPT !.parent = n, !.todo = Tail(r.todo)]
<1>2. r.pc = "ensure" /\ Place(node, r.parent)
  BY <1>1 DEF EnsureFolder, TreeInv, WellPlaced
<1>3. \A n : to(n).pc = "ensure" /\ to(n).parent = n
  BY <1>2 DEF Request
<1>4. \/ Inserts(w, FolderRow(r.parent, Head(r.todo)), None, to(NewId(node)))
      \/ \E n \in DOMAIN node : node[n].folder /\ GoesOn(w, to(n)) /\ Unchanged(w)
      \/ Fails(w)
  BY <1>1 DEF EnsureFolder, FindChild
<1> HIDE DEF to
<1>5. CASE Inserts(w, FolderRow(r.parent, Head(r.todo)), None, to(NewId(node)))
  <2>1. PICK new : new = NewId(node)
    OBVIOUS
  <2>2. PICK row : row = FolderRow(r.parent, Head(r.todo))
    OBVIOUS
  <2>3. PICK next : next = to(new)
    OBVIOUS
  <2>4. Inserts(w, row, None, next)
    BY <1>5, <2>1, <2>2, <2>3
  <2>5. row.folder /\ row.parent = r.parent /\ next.pc = "ensure" /\ next.parent = new
    BY <1>3, <2>2, <2>3 DEF FolderRow
  <2>6. ASSUME \A q : Place(node, q) \/ (q = NewId(node) /\ row.folder) => Place(node, q)'
        PROVE  WellPlaced(next)'
    BY <2>1, <2>5, <2>6 DEF WellPlaced
  <2>7. QED BY <1>2, <2>4, <2>5, <2>6, TreeInserts
<1>6. ASSUME NEW n \in DOMAIN node, node[n].folder, GoesOn(w, to(n)), Unchanged(w)
      PROVE  TreeInv'
  <2>1. WellPlaced(to(n))
    BY <1>3, <1>6 DEF WellPlaced, Place
  <2>2. QED BY <1>6, <2>1, TreeUntouched DEF GoesOn, Unchanged
<1>7. QED BY <1>4, <1>5, <1>6, TreeFails

\* create_folder's last name, and a finish that makes its row.
LEMMA LeafTree ==
    ASSUME TreeInv, OneAtATime, IInv', NEW w \in Workers, MakeFolder(w) \/ FinishNew(w)
    PROVE  TreeInv'
<1>1. PICK r \in Request : r = req[w]
  BY DEF TreeInv, IInv, TypeOK
<1>2. r.pc = "ensure" /\ Place(node, r.parent)
  BY <1>1 DEF MakeFolder, FinishNew, AtLeaf, TreeInv, WellPlaced
<1>3. ASSUME NEW row, NEW next, NEW op, row.parent = r.parent, next.pc \in {"idle", "trash"},
             Inserts(w, row, op, next)
      PROVE  TreeInv'
  <2>1. WellPlaced(next)'
    BY <1>3 DEF WellPlaced
  <2>2. QED BY <1>2, <1>3, <2>1, TreeInserts
<1>4. CASE MakeFolder(w)
  <2>1. \/ Fails(w)
        \/ \E name : Inserts(w, FolderRow(r.parent, name), "create", Idle)
    BY <1>1, <1>4 DEF MakeFolder
  <2>2. \A name : FolderRow(r.parent, name).parent = r.parent /\ Idle.pc = "idle"
    BY DEF FolderRow, Idle
  <2>3. QED BY <1>3, <2>1, <2>2, TreeFails
<1>5. CASE FinishNew(w)
  <2>1. Inserts(w, FileRow(r.parent, Leaf(r), r.up, upload[r.up].md5), "create", [r EXCEPT !.pc = "trash"])
    BY <1>1, <1>5 DEF FinishNew
  <2>2. /\ FileRow(r.parent, Leaf(r), r.up, upload[r.up].md5).parent = r.parent
        /\ [r EXCEPT !.pc = "trash"].pc = "trash"
    BY DEF FileRow, Request
  <2>3. QED BY <1>3, <2>1, <2>2
<1>6. QED BY <1>4, <1>5

\* move_node: not into the node itself, and under a name that is free there.
LEMMA MoveNodeTree ==
    ASSUME TreeInv, OneAtATime, IInv', NEW w \in Workers, MoveNode(w)
    PROVE  TreeInv'
<1>1. PICK r \in Request : r = req[w]
  BY DEF TreeInv, IInv, TypeOK
<1>2. Place(node, r.parent)
  BY <1>1 DEF MoveNode, AtLeaf, TreeInv, WellPlaced
<1>3. CASE Fails(w)
  BY <1>3, TreeFails
<1>4. CASE ~Fails(w)
  <2>1. PICK name : Moved(w, r, name)
    BY <1>1, <1>4 DEF MoveNode
  <2>2. r.id \in DOMAIN node /\ ~IntoItself(r)
    BY <1>1, <1>4 DEF MoveNode
  <2>3. /\ node' = [node EXCEPT ![r.id].parent = r.parent, ![r.id].name = name]
        /\ req' = [req EXCEPT ![w] = Idle] /\ ~Clashes(node, r.parent, name, {r.id})
    BY <1>4, <2>1 DEF Moved, Ends, GoesOn
  <2>4. /\ DOMAIN node' = DOMAIN node /\ \A m \in DOMAIN node \ {r.id} : node'[m] = node[m]
        /\ node'[r.id].parent = r.parent /\ node'[r.id].name = name
        /\ node'[r.id].folder = node[r.id].folder
    <3>1. node[r.id] \in FileNode
      BY <2>2 DEF TreeInv, IInv, TypeOK
    <3>2. QED BY <2>2, <2>3, <3>1 DEF FileNode
  <2>5. r.parent \notin Subtree(node, r.id)
    <3>1. CASE node[r.id].folder
      BY <2>2, <3>1 DEF IntoItself, IsDescendant
    <3>2. CASE ~node[r.id].folder
      <4>1. r.id # Root
        BY <2>2, FileTreeAssumption DEF TreeInv, IInv, TypeOK, Ids, Root
      <4>2. r.parent # r.id
        BY <1>2, <3>2, <4>1 DEF Place
      <4>3. Closed(node, {r.id})
        BY <3>2, <4>1 DEF Closed, TreeInv, Forest, Parented, Place
      <4>4. QED BY <4>2, <4>3, SubtreeIsLeast
    <3>3. QED BY <3>1, <3>2
  <2>6. Forest(node)'
    <3>1. PICK next : next = node'
      OBVIOUS
    <3>2. /\ DOMAIN next = DOMAIN node /\ \A m \in DOMAIN node \ {r.id} : next[m] = node[m]
          /\ next[r.id].parent = r.parent /\ next[r.id].folder = node[r.id].folder
          /\ ~Clashes(node, r.parent, next[r.id].name, {r.id})
      BY <2>3, <2>4, <3>1
    <3>3. Forest(node)
      BY DEF TreeInv
    <3>4. Forest(next)
      BY <1>2, <2>2, <2>5, <3>2, <3>3, ForestMoves
    <3>5. QED BY <3>1, <3>4
  <2>7. WellPlaced(Idle)'
    BY DEF WellPlaced, Idle
  <2>8. QED BY <2>3, <2>6, <2>7, TreeStep
<1>5. QED BY <1>3, <1>4

\* copy_node: the copy's place is the request's.
LEMMA CopyNodeTree ==
    ASSUME TreeInv, OneAtATime, IInv', NEW w \in Workers, CopyNode(w)
    PROVE  TreeInv'
<1>1. PICK r \in Request : r = req[w]
  BY DEF TreeInv, IInv, TypeOK
<1>2. Place(node, r.parent)
  BY <1>1 DEF CopyNode, AtLeaf, TreeInv, WellPlaced
<1> DEFINE top(name) == [src |-> r.id, parent |-> r.parent, name |-> name, root |-> TRUE]
           next(name) == [r EXCEPT !.pc = "clone", !.pairs = {top(name)}]
<1>3. \/ Fails(w)
      \/ \E name : GoesOn(w, next(name)) /\ Unchanged(w)
  BY <1>1 DEF CopyNode
<1>4. ASSUME NEW name, GoesOn(w, next(name)), Unchanged(w)
      PROVE  TreeInv'
  <2>1. next(name).pc = "clone" /\ next(name).pairs = {top(name)} /\ top(name).parent = r.parent
    BY DEF Request
  <2> HIDE DEF next, top
  <2>2. WellPlaced(next(name))
    BY <1>2, <2>1 DEF WellPlaced
  <2>3. QED BY <1>4, <2>2, TreeUntouched DEF GoesOn, Unchanged
<1>5. QED BY <1>3, <1>4, TreeFails

\* duplicate reads a row: its clone is to go where the pair says.
LEMMA CloneReadTree ==
    ASSUME TreeInv, OneAtATime, IInv', NEW w \in Workers, CloneRead(w)
    PROVE  TreeInv'
<1>1. PICK r \in Request : r = req[w]
  BY DEF TreeInv, IInv, TypeOK
<1>2. \A p \in r.pairs : p \in Copying /\ Place(node, p.parent)
  BY <1>1 DEF CloneRead, TreeInv, WellPlaced, Request
<1> DEFINE clone(p) == [node[p.src] EXCEPT !.parent = p.parent, !.name = p.name]
           next(p) == [r EXCEPT !.pc = "insert", !.pair = p, !.pairs = @ \ {p}, !.row = clone(p)]
<1>3. \/ Fails(w)
      \/ \E p \in r.pairs : p.src \in DOMAIN node /\ GoesOn(w, next(p)) /\ Unchanged(w)
  BY <1>1 DEF CloneRead
<1>4. ASSUME NEW p \in r.pairs, p.src \in DOMAIN node, GoesOn(w, next(p)), Unchanged(w)
      PROVE  TreeInv'
  <2>1. clone(p).parent = p.parent
    BY <1>4 DEF TreeInv, IInv, TypeOK, FileNode
  <2> HIDE DEF clone
  <2>2. next(p).pc = "insert" /\ next(p).pairs = r.pairs \ {p} /\ next(p).row = clone(p)
    BY DEF Request
  <2> HIDE DEF next
  <2>3. WellPlaced(next(p))
    BY <1>2, <2>1, <2>2 DEF WellPlaced
  <2>4. PICK n : n = next(p)
    OBVIOUS
  <2>5. QED BY <1>4, <2>3, <2>4, TreeUntouched DEF GoesOn, Unchanged
<1>5. QED BY <1>3, <1>4, TreeFails

\* A clone is committed; what lies in its source, a folder then, goes into the clone next.
LEMMA CloneCommitTree ==
    ASSUME TreeInv, OneAtATime, IInv', NEW w \in Workers, CloneCommit(w)
    PROVE  TreeInv'
<1>1. PICK r \in Request : r = req[w]
  BY DEF TreeInv, IInv, TypeOK
<1> DEFINE child(n) == [src |-> n, parent |-> NewId(node), name |-> node[n].name, root |-> FALSE]
           below == {child(n) : n \in Children(node, r.pair.src)}
           goesOn == [r EXCEPT !.pc = "clone", !.pairs = r.pairs \cup below, !.pair = None, !.row = None]
<1>2. /\ \A p \in r.pairs : Place(node, p.parent)
      /\ Place(node, r.row.parent)
      /\ r.pair \in Copying /\ r.row.folder = node[r.pair.src].folder
  BY <1>1 DEF CloneCommit, TreeInv, WellPlaced, IInv, AtWork, Cloning
<1>3. PICK op : Inserts(w, r.row, op, IF r.pairs \cup below = {} THEN Idle ELSE goesOn)
  BY <1>1 DEF CloneCommit
<1>4. Children(node, r.pair.src) # {} => r.row.folder
  <2>1. r.pair.src # Root
    BY <1>2, FileTreeAssumption DEF Copying, Ids, Root
  <2>2. QED BY <1>2, <2>1 DEF Children, TreeInv, Forest, Parented, Place
<1>5. \A p \in below : p.parent = NewId(node) /\ r.row.folder
  BY <1>4
<1>6. goesOn.pc = "clone" /\ goesOn.pairs = r.pairs \cup below
  BY DEF Request
<1> HIDE DEF below, goesOn
<1>7. PICK next, new, pairs, row :
        /\ next = IF r.pairs \cup below = {} THEN Idle ELSE goesOn
        /\ new = NewId(node) /\ pairs = below /\ row = r.row
  OBVIOUS
<1>8. next.pc = "idle" \/ (next.pc = "clone" /\ next.pairs = r.pairs \cup pairs)
  BY <1>6, <1>7 DEF Idle
<1>9. ASSUME \A q : Place(node, q) \/ (q = NewId(node) /\ row.folder) => Place(node, q)'
      PROVE  WellPlaced(next)'
  <2>1. \A p \in r.pairs \cup pairs : Place(node, p.parent) \/ (p.parent = NewId(node) /\ row.folder)
    BY <1>2, <1>5, <1>7
  <2>2. \A p \in r.pairs \cup pairs : Place(node, p.parent)'
    BY <1>9, <2>1
  <2>3. QED BY <1>8, <2>2 DEF WellPlaced
<1>10. QED BY <1>2, <1>3, <1>7, <1>9, TreeInserts

\* delete_node collects the node with all that lies in it.
LEMMA DeleteNodeTree ==
    ASSUME TreeInv, OneAtATime, IInv', NEW w \in Workers, DeleteNode(w)
    PROVE  TreeInv'
<1>1. PICK n, orphans :
        /\ n \in DOMAIN node
        /\ req' = [req EXCEPT ![w] = [Idle EXCEPT !.op = "delete", !.pc = "trash", !.orphans = orphans]]
        /\ node' = Without(node, Subtree(node, n))
  BY DEF DeleteNode, Arrives
<1> DEFINE r == [Idle EXCEPT !.op = "delete", !.pc = "trash", !.orphans = orphans]
<1>2. r.pc = "trash"
  BY DEF Idle
<1> HIDE DEF r
<1>3. WellPlaced(r)'
  BY <1>2 DEF WellPlaced
<1>4. Forest(node)'
  BY <1>1, ForestShrinks DEF TreeInv
<1>5. QED BY <1>1, <1>3, <1>4, TreeStep DEF r

\* A file is replaced where it is.
LEMMA FinishExistingTree ==
    ASSUME TreeInv, OneAtATime, IInv', NEW w \in Workers, FinishExisting(w)
    PROVE  TreeInv'
<1>1. PICK r \in Request : r = req[w]
  BY DEF TreeInv, IInv, TypeOK
<1>2. CASE Fails(w)
  BY <1>2, TreeFails
<1>3. CASE ~Fails(w)
  <2>1. PICK n, orphans :
          /\ n \in DOMAIN node
          /\ node' = [node EXCEPT ![n].inner = r.up, ![n].hash = upload[r.up].md5]
          /\ req' = [req EXCEPT ![w] = [r EXCEPT !.pc = "trash", !.orphans = orphans]]
    BY <1>1, <1>3 DEF FinishExisting, Found, FindChild, GoesOn
  <2>2. PICK next : next = node'
    OBVIOUS
  <2>3. /\ DOMAIN next = DOMAIN node
        /\ \A m \in DOMAIN node : /\ next[m].parent = node[m].parent /\ next[m].name = node[m].name
                                  /\ next[m].folder = node[m].folder
    BY <2>1, <2>2 DEF TreeInv, IInv, TypeOK, FileNode
  <2>4. Forest(node)'
    BY <2>2, <2>3, ForestStays DEF TreeInv
  <2>5. [r EXCEPT !.pc = "trash", !.orphans = orphans].pc = "trash"
    BY DEF Request
  <2>6. WellPlaced([r EXCEPT !.pc = "trash", !.orphans = orphans])'
    BY <2>5 DEF WellPlaced
  <2>7. QED BY <2>1, <2>4, <2>6, TreeStep
<1>4. QED BY <1>2, <1>3

\* A request that begins at the root, or puts nothing anywhere.
LEMMA ArrivesTree ==
    ASSUME TreeInv, OneAtATime, IInv', NEW w \in Workers, NEW r,
           Arrives(w, r), node' = node, r.pc \notin {"clone", "insert"}, r.parent = Root
    PROVE  TreeInv'
<1>1. WellPlaced(r)
  BY DEF WellPlaced, Place
<1>2. QED BY <1>1, TreeUntouched DEF Arrives

\* A request arrives.
LEMMA ArrivalsTree ==
    ASSUME TreeInv, OneAtATime, IInv', NEW w \in Workers,
           \/ CreateFolder(w) \/ MoveOrCopy(w, "move") \/ MoveOrCopy(w, "copy")
           \/ ReceiveFull(w) \/ ReceivePart(w) \/ Finish(w)
    PROVE  TreeInv'
<1>1. CASE CreateFolder(w)
  <2>1. PICK path, auto :
          Arrives(w, [Idle EXCEPT !.op = "create", !.pc = "ensure", !.todo = path, !.auto = auto])
    BY <1>1 DEF CreateFolder
  <2> DEFINE r == [Idle EXCEPT !.op = "create", !.pc = "ensure", !.todo = path, !.auto = auto]
  <2>2. r.pc = "ensure" /\ r.parent = Root
    BY DEF Idle
  <2>3. node' = node
    BY <1>1 DEF CreateFolder, Unchanged
  <2> HIDE DEF r
  <2>4. QED BY <2>1, <2>2, <2>3, ArrivesTree DEF r
<1>2. CASE MoveOrCopy(w, "move") \/ MoveOrCopy(w, "copy")
  <2>1. PICK op, n, path, auto :
          Arrives(w, [Idle EXCEPT !.op = op, !.pc = "ensure", !.id = n, !.todo = path, !.auto = auto])
    BY <1>2 DEF MoveOrCopy
  <2> DEFINE r == [Idle EXCEPT !.op = op, !.pc = "ensure", !.id = n, !.todo = path, !.auto = auto]
  <2>2. r.pc = "ensure" /\ r.parent = Root
    BY DEF Idle
  <2>3. node' = node
    BY <1>2 DEF MoveOrCopy, Unchanged
  <2> HIDE DEF r
  <2>4. QED BY <2>1, <2>2, <2>3, ArrivesTree DEF r
<1>3. CASE ReceiveFull(w)
  <2>1. PICK u, c : Arrives(w, [Idle EXCEPT !.op = "put", !.pc = "write", !.up = u, !.bytes = c])
    BY <1>3 DEF ReceiveFull
  <2> DEFINE r == [Idle EXCEPT !.op = "put", !.pc = "write", !.up = u, !.bytes = c]
  <2>2. r.pc = "write" /\ r.parent = Root
    BY DEF Idle
  <2>3. node' = node
    BY <1>3 DEF ReceiveFull
  <2> HIDE DEF r
  <2>4. QED BY <2>1, <2>2, <2>3, ArrivesTree DEF r
<1>4. CASE ReceivePart(w)
  <2>1. PICK u, bytes :
          \/ Arrives(w, [Idle EXCEPT !.op = "part", !.pc = "write", !.up = u, !.bytes = bytes])
          \/ Arrives(w, Idle)
    <3>1. PICK u \in Inners, k \in UploadIds, i \in Parts, c \in Contents :
            LET stored == [chunk[k] EXCEPT ![i] = c]
                next == [Idle EXCEPT !.op = "part", !.pc = "write", !.up = u, !.bytes = Assembled(stored)]
                complete == \A j \in Parts : stored[j] # None
            IN  /\ upload[u].status = "pending" /\ upload[u].id \in {None, k}
                /\ upload' = [upload EXCEPT ![u].id = k,
                                            ![u].counted = IF complete THEN UsedBytes(node) + 1 ELSE @]
                /\ chunk' = [chunk EXCEPT ![k] = stored]
                /\ Arrives(w, IF complete /\ QuotaLeft(1) THEN next ELSE Idle)
      BY <1>4, Zenon DEF ReceivePart
    <3>2. PICK bytes : bytes = Assembled([chunk[k] EXCEPT ![i] = c])
      OBVIOUS
    <3>3. QED BY <3>1, <3>2
  <2> DEFINE r == [Idle EXCEPT !.op = "part", !.pc = "write", !.up = u, !.bytes = bytes]
  <2>2. /\ r.pc = "write" /\ r.parent = Root
        /\ Idle.pc = "idle" /\ Idle.parent = Root
    BY DEF Idle
  <2>3. node' = node
    BY <1>4 DEF ReceivePart
  <2> HIDE DEF r
  <2>4. CASE Arrives(w, r)
    BY <2>2, <2>3, <2>4, ArrivesTree
  <2>5. CASE Arrives(w, Idle)
    BY <2>2, <2>3, <2>5, ArrivesTree
  <2>6. QED BY <2>1, <2>4, <2>5 DEF r
<1>5. CASE Finish(w)
  <2>1. PICK u, path : Arrives(w, [Idle EXCEPT !.op = "finish", !.pc = "ensure", !.up = u, !.todo = path])
    BY <1>5 DEF Finish
  <2> DEFINE r == [Idle EXCEPT !.op = "finish", !.pc = "ensure", !.up = u, !.todo = path]
  <2>2. r.pc = "ensure" /\ r.parent = Root
    BY DEF Idle
  <2>3. node' = node
    BY <1>5 DEF Finish
  <2> HIDE DEF r
  <2>4. QED BY <2>1, <2>2, <2>3, ArrivesTree DEF r
<1>6. QED BY <1>1, <1>2, <1>3, <1>4, <1>5

\* A step that looks after blobs and sessions only.
LEMMA GoesOnTree ==
    ASSUME TreeInv, OneAtATime, IInv', NEW w \in Workers, NEW r,
           GoesOn(w, r), node' = node, r.pc \notin {"ensure", "clone", "insert"}
    PROVE  TreeInv'
<1>1. WellPlaced(r)
  BY DEF WellPlaced
<1>2. QED BY <1>1, TreeUntouched DEF GoesOn

\* The steps that look after blobs and sessions.
LEMMA BytesTree ==
    ASSUME TreeInv, OneAtATime, IInv', NEW w \in Workers,
           \/ CheckOrphan(w) \/ TrashBlob(w) \/ DeleteEnds(w)
           \/ WriteStream(w) \/ Complete(w) \/ FinishEnds(w)
    PROVE  TreeInv'
<1>1. PICK q \in Request : q = req[w]
  BY DEF TreeInv, IInv, TypeOK
<1>2. node' = node
  BY DEF CheckOrphan, TrashBlob, DeleteEnds, WriteStream, Complete, FinishEnds, Fails, Unchanged
<1>3. CASE CheckOrphan(w)
  <2>1. PICK u : \/ GoesOn(w, [q EXCEPT !.orphans = @ \ {u}])
                 \/ GoesOn(w, [q EXCEPT !.orphans = @ \ {u}, !.pc = "doomed", !.doomed = u])
    BY <1>1, <1>3 DEF CheckOrphan
  <2>2. /\ [q EXCEPT !.orphans = @ \ {u}].pc = "trash"
        /\ [q EXCEPT !.orphans = @ \ {u}, !.pc = "doomed", !.doomed = u].pc = "doomed"
    BY <1>1, <1>3 DEF CheckOrphan, Request
  <2>3. CASE GoesOn(w, [q EXCEPT !.orphans = @ \ {u}])
    BY <1>2, <2>2, <2>3, GoesOnTree
  <2>4. CASE GoesOn(w, [q EXCEPT !.orphans = @ \ {u}, !.pc = "doomed", !.doomed = u])
    BY <1>2, <2>2, <2>4, GoesOnTree
  <2>5. QED BY <2>1, <2>3, <2>4
<1>4. CASE TrashBlob(w)
  <2>1. GoesOn(w, [q EXCEPT !.pc = "trash", !.doomed = NoInner])
    BY <1>1, <1>4 DEF TrashBlob
  <2>2. [q EXCEPT !.pc = "trash", !.doomed = NoInner].pc = "trash"
    BY DEF Request
  <2>3. QED BY <1>2, <2>1, <2>2, GoesOnTree
<1>5. CASE WriteStream(w)
  <2>1. GoesOn(w, [q EXCEPT !.pc = "complete"])
    BY <1>1, <1>5 DEF WriteStream
  <2>2. [q EXCEPT !.pc = "complete"].pc = "complete"
    BY DEF Request
  <2>3. QED BY <1>2, <2>1, <2>2, GoesOnTree
<1>6. CASE DeleteEnds(w) \/ Complete(w) \/ FinishEnds(w)
  <2>1. GoesOn(w, Idle)
    BY <1>6 DEF DeleteEnds, Complete, FinishEnds, Fails, Ends
  <2>2. Idle.pc = "idle"
    BY DEF Idle
  <2>3. QED BY <1>2, <2>1, <2>2, GoesOnTree
<1>7. QED BY <1>3, <1>4, <1>5, <1>6

\* Every step keeps the tree and the requests' places.
LEMMA TreeSteps ==
    ASSUME OneAtATime, TreeInv, [Next]_vars
    PROVE  TreeInv'
<1>1. IInv'
  BY StepsKeep DEF TreeInv
<1>2. ASSUME NEW w \in Workers, Step(w) PROVE TreeInv'
  BY <1>1, <1>2, EnsureFolderTree, LeafTree, MoveNodeTree, CopyNodeTree, CloneReadTree,
     CloneCommitTree, FinishExistingTree, BytesTree DEF Step
<1>3. ASSUME NEW w \in Workers, NewRequest(w) PROVE TreeInv'
  <2>1. CASE Apply(w)
    <3>1. node' = node /\ req' = req
      BY <2>1 DEF Apply
    <3>2. QED BY <1>1, <3>1 DEF TreeInv, WellPlaced
  <2>2. CASE ~Apply(w)
    BY <1>1, <1>3, <2>2, ArrivalsTree, DeleteNodeTree DEF NewRequest
  <2>3. QED BY <2>1, <2>2
<1>4. CASE SignedUrl \/ UNCHANGED vars
  <2>1. node' = node /\ req' = req
    BY <1>4 DEF SignedUrl, vars
  <2>2. QED BY <1>1, <2>1 DEF TreeInv, WellPlaced
<1>5. CASE Crash
  <2>1. node' = node /\ req' = [w \in Workers |-> Idle]
    BY <1>5 DEF Crash
  <2>2. Idle.pc = "idle"
    BY DEF Idle
  <2>3. \A w \in Workers : req'[w].pc = "idle"
    BY <2>1, <2>2
  <2>4. QED BY <1>1, <2>1, <2>3 DEF TreeInv, WellPlaced
<1>6. QED BY <1>2, <1>3, <1>4, <1>5 DEF Next

\* The empty table is a tree.
LEMMA TreeStarts == Init => TreeInv
<1> SUFFICES ASSUME Init PROVE TreeInv
  OBVIOUS
<1>2. DOMAIN node = {}
  <2>1. node = << >>
    BY DEF Init
  <2>2. QED BY <2>1
<1>3. Forest(node)
  <2>1. \A ns : DOMAIN node \subseteq ns
    BY <1>2
  <2>2. Rooted(node)
    BY <2>1, ReachedFromRoot DEF Rooted
  <2>3. Parented(node) /\ OneName(node)
    BY <1>2 DEF Parented, OneName
  <2>4. QED BY <2>2, <2>3 DEF Forest
<1>4. \A w \in Workers : WellPlaced(req[w])
  BY DEF Init, Idle, WellPlaced
<1>5. QED BY <1>3, <1>4, StartsSound DEF TreeInv

------------------------------------------------------------------------------
(* The results *)

\* The rows are always a tree: each lies in a folder that is there, all are reached from
\* the root, and no two share a folder and a folded name, whatever is created, moved,
\* copied and deleted and wherever the server dies (tree_service.py, one request at a time).
THEOREM TreeInvariant == ASSUME OneAtATime PROVE Spec => []TreeInv
<1>1. Init => TreeInv
  BY TreeStarts
<1>2. TreeInv /\ [Next]_vars => TreeInv'
  BY TreeSteps
<1>3. QED BY <1>1, <1>2, PTL DEF Spec

\* And where SQLite folds letters as Python does, each node is the one that its own path
\* resolves to (tree_service.py find_child).
THEOREM TreeIsSound == ASSUME OneAtATime, SqlLower = PyLower PROVE Spec => []TreeSound
<1>1. TreeInv => TreeSound
  <2>1. SUFFICES ASSUME TreeInv PROVE TreeSound
    OBVIOUS
  <2>2. \A n \in DOMAIN node : node[n].parent = Root \/ node[node[n].parent].folder
    BY <2>1 DEF TreeInv, Forest, Parented, Place
  <2>3. Subtree(node, Root) = DOMAIN node \cup {Root}
    BY <2>1 DEF TreeInv, Forest, Rooted
  <2>4. ASSUME NEW n \in DOMAIN node
        PROVE  FindChild(node, node[n].parent, node[n].name) = {n}
    <3>1. \A m \in DOMAIN node : SameKey(node, m, n) => m = n
      BY <2>1 DEF TreeInv, Forest, OneName
    <3>2. \A m \in DOMAIN node : m \in FindChild(node, node[n].parent, node[n].name) <=> SameKey(node, m, n)
      BY DEF FindChild, SameLower, SameKey
    <3>3. SameKey(node, n, n)
      BY DEF SameKey
    <3>4. QED BY <3>1, <3>2, <3>3 DEF FindChild
  <2>5. QED BY <2>2, <2>3, <2>4 DEF TreeSound
<1>2. QED BY <1>1, TreeInvariant, PTL

------------------------------------------------------------------------------
(* Change rows *)

\* What a step changes, and what ChangesAnnounced asks of it.
Touched == {n \in DOMAIN node \cup DOMAIN node' :
              n \notin DOMAIN node \cap DOMAIN node' \/ node[n] # node'[n]}
Announced ==
    IF appended' # None
    THEN Touched \subseteq Subtree(node, appended'.node) \cup Subtree(node', appended'.node)
    ELSE /\ Touched \cap DOMAIN node = {}
         /\ \A n \in Touched : node'[n].folder \/ (\E w \in Workers : req[w].op = "copy")

\* A step that leaves the rows alone needs no change row.
LEMMA NothingAnnounced ==
    ASSUME node' = node, appended' = None
    PROVE  Announced
<1>1. Touched = {}
  BY DEF Touched
<1>2. QED BY <1>1 DEF Announced

\* A change row for the one node, or for the top of the subtree, that was changed.
LEMMA RowAnnounced ==
    ASSUME NEW op \in ChangeOps, NEW n \in Ids, appended' = Change(op, n),
           Touched \subseteq Subtree(node, n) \cup Subtree(node', n)
    PROVE  Announced
<1>1. appended' # None /\ appended'.node = n
  BY FileStoreAssumption DEF Change, ChangeRow
<1>2. QED BY <1>1 DEF Announced

\* The new row is the change; without a change row it is a folder or part of a copy.
LEMMA InsertAnnounced ==
    ASSUME TypeOK, NEW w \in Workers, NEW row, NEW op \in ChangeOps \cup {None}, NEW next,
           Inserts(w, row, op, next), op = None => row.folder \/ req[w].op = "copy"
    PROVE  Announced
<1>1. CASE Clashes(node, row.parent, row.name, {})
  BY <1>1, NothingAnnounced DEF Inserts, Fails, Unchanged
<1>2. CASE ~Clashes(node, row.parent, row.name, {})
  <2>1. PICK new : new = NewId(node)
    OBVIOUS
  <2>2. new \in Ids /\ new \notin DOMAIN node
    BY <1>2, <2>1, NewIdIsNew DEF Inserts, Room, TypeOK
  <2>3. /\ node' = Inserted(node, row)
        /\ appended' = IF op = None THEN None ELSE Change(op, new)
    BY <1>2, <2>1 DEF Inserts
  <2>4. DOMAIN node' = DOMAIN node \cup {new} /\ node'[new] = row
        /\ \A n \in DOMAIN node : node'[n] = node[n]
    BY <2>1, <2>2, <2>3 DEF Inserted
  <2>5. Touched = {new}
    BY <2>2, <2>4 DEF Touched
  <2>6. CASE op = None
    BY <2>2, <2>3, <2>4, <2>5, <2>6 DEF Announced
  <2>7. CASE op # None
    <3>1. new \in Subtree(node, new)
      BY SubtreeIsLeast
    <3>2. QED BY <2>2, <2>3, <2>5, <2>7, <3>1, RowAnnounced
  <2>8. QED BY <2>6, <2>7
<1>3. QED BY <1>1, <1>2

\* Rows stay where they are, and one of them is rewritten.
LEMMA RewriteAnnounced ==
    ASSUME TypeOK, NEW n \in DOMAIN node, NEW row, NEW op \in ChangeOps,
           node' = [node EXCEPT ![n] = row], appended' = Change(op, n)
    PROVE  Announced
<1>1. Touched \subseteq {n}
  BY DEF Touched
<1>2. n \in Subtree(node, n) /\ n \in Ids
  BY SubtreeIsLeast DEF TypeOK
<1>3. QED BY <1>1, <1>2, RowAnnounced

\* The operations on the tree announce what they do.
LEMMA TreeAnnounced ==
    ASSUME IInv, NEW w \in Workers,
           \/ EnsureFolder(w) \/ MakeFolder(w) \/ MoveNode(w) \/ CloneCommit(w)
           \/ FinishNew(w) \/ FinishExisting(w) \/ DeleteNode(w)
    PROVE  Announced
<1>1. TypeOK /\ ChangeOps = {"create", "update", "delete", "move", "copy"}
  BY DEF IInv, ChangeOps
<1>2. CASE Fails(w)
  BY <1>2, NothingAnnounced DEF Fails, Unchanged
<1>3. PICK r : r = req[w]
  OBVIOUS
<1>4. CASE EnsureFolder(w)
  <2>1. \/ \E next : Inserts(w, FolderRow(r.parent, Head(r.todo)), None, next)
        \/ node' = node /\ appended' = None
    BY <1>3, <1>4 DEF EnsureFolder, Unchanged, Fails
  <2>2. FolderRow(r.parent, Head(r.todo)).folder
    BY DEF FolderRow
  <2>3. QED BY <1>1, <2>1, <2>2, InsertAnnounced, NothingAnnounced
<1>5. CASE MakeFolder(w)
  <2>1. Fails(w) \/ \E name : Inserts(w, FolderRow(r.parent, name), "create", Idle)
    BY <1>3, <1>5 DEF MakeFolder
  <2>2. \A name : FolderRow(r.parent, name).folder
    BY DEF FolderRow
  <2>3. QED BY <1>1, <1>2, <2>1, <2>2, InsertAnnounced
<1>6. CASE MoveNode(w) /\ ~Fails(w)
  <2>1. PICK name : Moved(w, r, name)
    BY <1>3, <1>6 DEF MoveNode
  <2>2. r.id \in DOMAIN node
    BY <1>3, <1>6 DEF MoveNode
  <2>3. PICK row : row = [node[r.id] EXCEPT !.parent = r.parent, !.name = name]
    OBVIOUS
  <2>4. node' = [node EXCEPT ![r.id] = row] /\ appended' = Change("move", r.id)
    BY <1>6, <2>1, <2>2, <2>3 DEF Moved
  <2>5. QED BY <1>1, <2>2, <2>4, RewriteAnnounced
<1>7. CASE CloneCommit(w)
  <2>1. \E next : Inserts(w, r.row, IF r.pair.root THEN "copy" ELSE None, next)
    BY <1>3, <1>7 DEF CloneCommit
  <2>2. r.op = "copy"
    BY <1>3, <1>7 DEF CloneCommit, IInv, AtWork, Cloning
  <2>3. QED BY <1>1, <1>3, <2>1, <2>2, InsertAnnounced
<1>8. CASE FinishNew(w)
  <2>1. \E row, next : Inserts(w, row, "create", next)
    BY <1>8 DEF FinishNew
  <2>2. None # "create"
    BY <1>1, FileStoreAssumption
  <2>3. QED BY <1>1, <2>1, <2>2, InsertAnnounced
<1>9. CASE FinishExisting(w) /\ ~Fails(w)
  <2>1. PICK n \in DOMAIN node :
          /\ node' = [node EXCEPT ![n].inner = r.up, ![n].hash = upload[r.up].md5]
          /\ appended' = Change("update", n)
    BY <1>3, <1>9 DEF FinishExisting, Found, FindChild
  <2>2. PICK row : row = [node[n] EXCEPT !.inner = r.up, !.hash = upload[r.up].md5]
    OBVIOUS
  <2>3. node' = [node EXCEPT ![n] = row]
    BY <2>1, <2>2
  <2>4. QED BY <1>1, <2>1, <2>3, RewriteAnnounced
<1>10. CASE DeleteNode(w)
  <2>1. PICK n \in DOMAIN node :
          node' = Without(node, Subtree(node, n)) /\ appended' = Change("delete", n)
    BY <1>10 DEF DeleteNode
  <2>2. Touched \subseteq Subtree(node, n)
    BY <2>1 DEF Touched, Without
  <2>3. QED BY <1>1, <2>1, <2>2, RowAnnounced DEF TypeOK
<1>11. QED BY <1>2, <1>4, <1>5, <1>6, <1>7, <1>8, <1>9, <1>10

\* The change row that a step commits names a node over all that the step changed, and a
\* step without one adds folders on the way to a path or the rest of a copy: a device
\* that follows the change log misses no other change (tree_service.py _record_change).
THEOREM ChangesAreAnnounced == ASSUME OneAtATime PROVE Spec => ChangesAnnounced
<1>1. IInv /\ [Next]_vars => [Announced]_vars
  <2>1. SUFFICES ASSUME IInv, Next PROVE Announced
    OBVIOUS
  <2>2. ASSUME NEW w \in Workers, Step(w) \/ NewRequest(w) PROVE Announced
    <3>1. CASE \/ EnsureFolder(w) \/ MakeFolder(w) \/ MoveNode(w) \/ CloneCommit(w)
               \/ FinishNew(w) \/ FinishExisting(w) \/ DeleteNode(w)
      BY <2>1, <3>1, TreeAnnounced
    <3>2. CASE \/ CopyNode(w) \/ CloneRead(w) \/ CheckOrphan(w) \/ TrashBlob(w) \/ DeleteEnds(w)
               \/ WriteStream(w) \/ Complete(w) \/ FinishEnds(w)
      BY <3>2, NothingAnnounced DEF CopyNode, CloneRead, CheckOrphan, TrashBlob, DeleteEnds,
         WriteStream, Complete, FinishEnds, Fails, Unchanged
    <3>3. CASE \/ CreateFolder(w) \/ MoveOrCopy(w, "move") \/ MoveOrCopy(w, "copy")
               \/ Apply(w) \/ ReceiveFull(w) \/ ReceivePart(w) \/ Finish(w)
      BY <3>3, NothingAnnounced DEF CreateFolder, MoveOrCopy, Apply, ReceiveFull, ReceivePart,
         Finish, Unchanged
    <3>4. QED BY <2>2, <3>1, <3>2, <3>3 DEF Step, NewRequest
  <2>3. CASE SignedUrl \/ Crash
    BY <2>3, NothingAnnounced DEF SignedUrl, Crash
  <2>4. QED BY <2>1, <2>2, <2>3 DEF Next
<1>2. [][Announced]_vars => ChangesAnnounced
  BY PTL DEF ChangesAnnounced, Announced, Touched
<1>3. QED BY <1>1, <1>2, StoreInvariant, PTL DEF Spec
==============================================================================
