----------------------------- MODULE VaultProofs -----------------------------
(* That FileStore implements Vault, and what that says of the quota: every   *)
(* step of a request is one thing that happens to the files or none.         *)
EXTENDS FileStoreProofs

\* Vault's two variables, with a file's hash for its blob's content.
FileOf  == [n \in Files(node) |-> node[n].hash]
InboxOf == [u \in {v \in Inners : ToBeFiled(v)} |-> upload[u].md5]

\* The request is a finish that has not come to its file.
Holds(r, u) == r.op = "finish" /\ r.pc = "ensure" /\ r.up = u

Stutters == UNCHANGED <<FileOf, InboxOf>>
Arrival == \E u \in Inners, c \in Contents :
               u \notin DOMAIN InboxOf /\ InboxOf' = Kept!With(InboxOf, u, c) /\ UNCHANGED FileOf
Discards == \E u \in Inners : InboxOf' = Kept!Less(InboxOf, {u}) /\ UNCHANGED FileOf
Filing   == \E w \in Workers, n \in Ids :
               LET u == req[w].up IN
               /\ Holds(req[w], u) /\ u \in DOMAIN InboxOf
               /\ FileOf' = Kept!With(FileOf, n, InboxOf[u]) /\ InboxOf' = Kept!Less(InboxOf, {u})
Copies   == \E w \in Workers, m, n \in Ids :
               /\ req[w].op = "copy" /\ m \in DOMAIN FileOf /\ n \notin DOMAIN FileOf
               /\ FileOf' = Kept!With(FileOf, n, FileOf[m]) /\ UNCHANGED InboxOf
Removes  == \E ns \in SUBSET Ids : FileOf' = Kept!Less(FileOf, ns) /\ UNCHANGED InboxOf

Happens == Stutters \/ Arrival \/ Discards \/ Filing \/ Copies \/ Removes

------------------------------------------------------------------------------
(* The two variables *)

\* Who finishes an upload is the one request there is.
LEMMA TheOneHolds ==
    ASSUME OneAtATime, NEW w \in Workers, NEW u \in Inners
    PROVE  /\ ToBeFiled(u) <=> Verified(u) /\ (~upload[u].begun \/ Holds(req[w], u))
           /\ ToBeFiled(u)' <=> Verified(u)' /\ (~upload'[u].begun \/ Holds(req'[w], u))
  BY DEF OneAtATime, ToBeFiled, Holds

\* Nobody has come to his file, and no session has changed.
LEMMA InboxIsKept ==
    ASSUME OneAtATime, NEW w \in Workers, UNCHANGED upload,
           \A u \in Inners : Holds(req'[w], u) <=> Holds(req[w], u)
    PROVE  InboxOf' = InboxOf
  <1>1. \A u \in Inners : ToBeFiled(u)' <=> ToBeFiled(u)
    BY TheOneHolds DEF Verified
  <1> QED BY <1>1 DEF InboxOf

\* A finish that ends takes its upload out of the inbox, if it was there.
LEMMA InboxLoses ==
    ASSUME IInv, OneAtATime, NEW w \in Workers, UNCHANGED upload, req[w].op = "finish",
           req[w].pc = "ensure", \A u \in Inners : ~Holds(req'[w], u)
    PROVE  /\ req[w].up \in Inners /\ req[w].up \in DOMAIN InboxOf
           /\ InboxOf[req[w].up] = upload[req[w].up].md5
           /\ InboxOf' = Kept!Less(InboxOf, {req[w].up})
  <1> DEFINE up == req[w].up
  <1>1. /\ up \in Inners /\ upload[up].status = "completed" /\ upload[up].begun
        /\ upload[up].md5 \in Contents
    BY DEF IInv, AtWork, Finishing
  <1>2. \A u \in Inners : Holds(req[w], u) <=> u = up
    BY DEF Holds
  <1>3. \A u \in Inners : ToBeFiled(u)' <=> ToBeFiled(u) /\ u # up
    BY <1>1, <1>2, TheOneHolds DEF Verified
  <1>4. ToBeFiled(up)
    BY <1>1, <1>2, TheOneHolds DEF Verified
  <1> HIDE DEF up
  <1>5. DOMAIN InboxOf = {v \in Inners : ToBeFiled(v)} /\ InboxOf[up] = upload[up].md5 /\ up \in DOMAIN InboxOf
    BY <1>1, <1>4 DEF InboxOf
  <1>6. {v \in Inners : ToBeFiled(v)'} = DOMAIN InboxOf \ {up}
    BY <1>3, <1>5
  <1>7. InboxOf' = [v \in DOMAIN InboxOf \ {up} |-> upload[v].md5]
    BY <1>6 DEF InboxOf
  <1>8. \A v \in DOMAIN InboxOf : InboxOf[v] = upload[v].md5
    BY DEF InboxOf
  <1>9. InboxOf' = Kept!Less(InboxOf, {up})
    BY <1>7, <1>8 DEF Kept!Less
  <1> QED BY <1>1, <1>5, <1>9 DEF up

\* Tables with the same files, and a table with one more.
LEMMA FilesAreKept ==
    ASSUME DOMAIN node' = DOMAIN node,
           \A n \in DOMAIN node : node'[n].folder = node[n].folder /\ node'[n].hash = node[n].hash
    PROVE  FileOf' = FileOf
  BY DEF FileOf, Files

\* A folder's row adds no file.
LEMMA FolderIsNoFile ==
    ASSUME IInv, NEW row, row.folder, node' = Inserted(node, row)
    PROVE  FileOf' = FileOf
  <1>1. NewId(node) \notin DOMAIN node
    BY NewIdIsNew DEF IInv, TypeOK
  <1>2. Files(node') = Files(node) /\ \A n \in Files(node) : node'[n] = node[n]
    BY <1>1 DEF Inserted, Files
  <1> QED BY <1>2 DEF FileOf

\* A file's row adds a file that was not there.
LEMMA FileIsAdded ==
    ASSUME IInv, NEW row, ~row.folder, node' = Inserted(node, row)
    PROVE  NewId(node) \notin DOMAIN FileOf /\ FileOf' = Kept!With(FileOf, NewId(node), row.hash)
  <1> DEFINE n == NewId(node)
  <1>1. n \notin DOMAIN node
    BY NewIdIsNew DEF IInv, TypeOK
  <1>2. node' = [m \in DOMAIN node \cup {n} |-> IF m = n THEN row ELSE node[m]]
    BY DEF Inserted
  <1> HIDE DEF n
  <1>3. Files(node') = Files(node) \cup {n} /\ n \notin Files(node)
    BY <1>1, <1>2 DEF Files
  <1>4. \A m \in Files(node') : node'[m].hash = IF m = n THEN row.hash ELSE node[m].hash
    BY <1>2, <1>3 DEF Files
  <1>5. DOMAIN FileOf = Files(node) /\ \A m \in Files(node) : FileOf[m] = node[m].hash
    BY DEF FileOf
  <1>6. FileOf' = [m \in Files(node) \cup {n} |-> IF m = n THEN row.hash ELSE FileOf[m]]
    BY <1>3, <1>4, <1>5 DEF FileOf
  <1> QED BY <1>3, <1>5, <1>6 DEF n, Kept!With

------------------------------------------------------------------------------
(* The steps *)

\* Nothing happens where neither the tree nor a session changes, nor who finishes what.
LEMMA QuietStep ==
    ASSUME IInv, OneAtATime, NEW w \in Workers, NEW r, UNCHANGED <<node, upload>>,
           req' = [req EXCEPT ![w] = r], \A u \in Inners : Holds(r, u) <=> Holds(req[w], u)
    PROVE  Happens
  <1>1. req'[w] = r
    BY DEF IInv, TypeOK
  <1>2. InboxOf' = InboxOf
    BY <1>1, InboxIsKept
  <1> QED BY <1>2, FilesAreKept DEF Happens, Stutters

\* A request that fails drops the upload it was finishing, or nothing.
LEMMA FailedHappens ==
    ASSUME IInv, OneAtATime, NEW w \in Workers, Fails(w)
    PROVE  Happens
  <1>1. req' = [req EXCEPT ![w] = Idle] /\ UNCHANGED <<node, upload>>
    BY DEF Fails, Ends, GoesOn, Unchanged, disk
  <1>2. req'[w] = Idle /\ \A u : ~Holds(Idle, u)
    BY <1>1 DEF IInv, TypeOK, Holds, Idle
  <1>3. CASE req[w].op = "finish" /\ req[w].pc = "ensure"
    <2>1. req[w].up \in Inners /\ InboxOf' = Kept!Less(InboxOf, {req[w].up})
      BY <1>1, <1>2, <1>3, InboxLoses
    <2>2. FileOf' = FileOf
      BY <1>1, FilesAreKept
    <2> QED BY <2>1, <2>2 DEF Happens, Discards
  <1>4. CASE ~(req[w].op = "finish" /\ req[w].pc = "ensure")
    BY <1>1, <1>2, <1>4, QuietStep DEF Holds
  <1> QED BY <1>3, <1>4

\* A folder on the way, or one that was asked for.
LEMMA FolderHappens ==
    ASSUME IInv, OneAtATime, NEW w \in Workers, NEW row, row.folder, NEW op, NEW next,
           Inserts(w, row, op, next), \A u \in Inners : Holds(next, u) <=> Holds(req[w], u)
    PROVE  Happens
  <1>1. CASE Fails(w)
    BY <1>1, FailedHappens
  <1>2. CASE ~Fails(w)
    <2>1. node' = Inserted(node, row) /\ req' = [req EXCEPT ![w] = next] /\ UNCHANGED upload
      BY <1>2 DEF Inserts, GoesOn, disk
    <2>2. req'[w] = next
      BY <2>1 DEF IInv, TypeOK
    <2>3. FileOf' = FileOf /\ InboxOf' = InboxOf
      BY <2>1, <2>2, FolderIsNoFile, InboxIsKept
    <2> QED BY <2>3 DEF Happens, Stutters
  <1> QED BY <1>1, <1>2

\* Folders on the way to a path are not to be seen; a file in the way ends the request.
LEMMA EnsureFolderHappens ==
    ASSUME IInv, OneAtATime, NEW w \in Workers, EnsureFolder(w)
    PROVE  Happens
  <1> DEFINE r == req[w]
             to(n) == [r EXCEPT !.parent = n, !.todo = Tail(r.todo)]
  <1>1. r \in Request
    BY DEF IInv, TypeOK
  <1>2. \A n, u : Holds(to(n), u) <=> Holds(r, u)
    BY <1>1 DEF Holds, Request
  <1>3. CASE Inserts(w, FolderRow(r.parent, Head(r.todo)), None, to(NewId(node)))
    <2>1. FolderRow(r.parent, Head(r.todo)).folder
      BY DEF FolderRow
    <2> HIDE DEF to
    <2> QED BY <1>2, <1>3, <2>1, FolderHappens
  <1>4. ASSUME NEW n, GoesOn(w, to(n)), Unchanged(w) PROVE Happens
    <2>1. UNCHANGED <<node, upload>> /\ req' = [req EXCEPT ![w] = to(n)]
      BY <1>4 DEF GoesOn, Unchanged, disk
    <2> HIDE DEF to
    <2> QED BY <1>2, <2>1, QuietStep
  <1> QED BY <1>3, <1>4, FailedHappens DEF EnsureFolder

\* A folder that was asked for is not to be seen.
LEMMA MakeFolderHappens ==
    ASSUME IInv, OneAtATime, NEW w \in Workers, MakeFolder(w)
    PROVE  Happens
  <1>1. CASE Fails(w)
    BY <1>1, FailedHappens
  <1>2. CASE \E name \in TargetNames(req[w]) : Inserts(w, FolderRow(req[w].parent, name), "create", Idle)
    <2>1. PICK name \in TargetNames(req[w]) : Inserts(w, FolderRow(req[w].parent, name), "create", Idle)
      BY <1>2
    <2>2. FolderRow(req[w].parent, name).folder
      BY DEF FolderRow
    <2>3. \A u : ~Holds(Idle, u) /\ ~Holds(req[w], u)
      BY DEF Holds, Idle, MakeFolder, AtLeaf
    <2> QED BY <2>1, <2>2, <2>3, FolderHappens
  <1> QED BY <1>1, <1>2 DEF MakeFolder

\* A node that moves keeps its bytes.
LEMMA MoveNodeHappens ==
    ASSUME IInv, OneAtATime, NEW w \in Workers, MoveNode(w)
    PROVE  Happens
  <1>1. CASE Fails(w)
    BY <1>1, FailedHappens
  <1>2. CASE ~Fails(w)
    <2>1. PICK name : Moved(w, req[w], name)
      BY <1>2 DEF MoveNode
    <2>2. CASE Clashes(node, req[w].parent, name, {req[w].id})
      BY <2>1, <2>2, <1>2 DEF Moved
    <2>3. CASE ~Clashes(node, req[w].parent, name, {req[w].id})
      <3>1. /\ node' = [node EXCEPT ![req[w].id].parent = req[w].parent, ![req[w].id].name = name]
            /\ req' = [req EXCEPT ![w] = Idle] /\ UNCHANGED upload
        BY <2>1, <2>3 DEF Moved, Ends, GoesOn, disk
      <3>2. ASSUME NEW n \in DOMAIN node
            PROVE  node'[n].folder = node[n].folder /\ node'[n].hash = node[n].hash
        <4>1. node[n] \in FileNode
          BY DEF IInv, TypeOK
        <4> QED BY <4>1, <3>1 DEF FileNode
      <3>3. FileOf' = FileOf
        BY <3>1, <3>2, FilesAreKept
      <3>4. req'[w] = Idle /\ req[w].op = "move"
        BY <3>1 DEF IInv, TypeOK, MoveNode, AtLeaf
      <3>5. InboxOf' = InboxOf
        BY <3>1, <3>4, InboxIsKept DEF Holds, Idle
      <3> QED BY <3>3, <3>5 DEF Happens, Stutters
    <2> QED BY <2>2, <2>3
  <1> QED BY <1>1, <1>2

\* The locals of a copy, of the trashing and of a write say nothing of the files.
LEMMA LocalsHappen ==
    ASSUME IInv, OneAtATime, NEW w \in Workers,
           \/ CopyNode(w) \/ CloneRead(w) \/ CheckOrphan(w) \/ TrashBlob(w) \/ DeleteEnds(w)
           \/ WriteStream(w)
    PROVE  Happens
  <1> DEFINE r == req[w]
  <1>1. r \in Request /\ AtWork(r)
    BY DEF IInv, TypeOK
  <1>2. CASE Fails(w)
    BY <1>2, FailedHappens
  <1>3. CASE ~Fails(w)
    <2>1. UNCHANGED <<node, upload>>
      BY <1>3 DEF CopyNode, CloneRead, CheckOrphan, TrashBlob, DeleteEnds, WriteStream, Unchanged, disk
    <2>2. \A u : ~Holds(r, u)
      BY <1>1 DEF Holds, CopyNode, AtLeaf, CloneRead, CheckOrphan, TrashBlob, DeleteEnds, WriteStream
    <2>3. PICK next : req' = [req EXCEPT ![w] = next] /\ next.pc # "ensure"
      <3>1. CASE CopyNode(w)
        <4> DEFINE to(name) == [r EXCEPT !.pc = "clone",
                                  !.pairs = {[src |-> r.id, parent |-> r.parent, name |-> name, root |-> TRUE]}]
        <4>1. PICK name : req' = [req EXCEPT ![w] = to(name)]
          BY <1>3, <3>1 DEF CopyNode, GoesOn
        <4>2. to(name).pc = "clone"
          BY <1>1 DEF Request
        <4> HIDE DEF to
        <4> QED BY <4>1, <4>2
      <3>2. CASE CloneRead(w)
        <4> DEFINE to(p) == [r EXCEPT !.pc = "insert", !.pair = p, !.pairs = @ \ {p},
                               !.row = [node[p.src] EXCEPT !.parent = p.parent, !.name = p.name]]
        <4>1. PICK p : req' = [req EXCEPT ![w] = to(p)]
          BY <1>3, <3>2 DEF CloneRead, GoesOn
        <4>2. to(p).pc = "insert"
          BY <1>1 DEF Request
        <4> HIDE DEF to
        <4> QED BY <4>1, <4>2
      <3>3. CASE CheckOrphan(w)
        <4> DEFINE one(u) == [r EXCEPT !.orphans = @ \ {u}]
                   two(u) == [r EXCEPT !.orphans = @ \ {u}, !.pc = "doomed", !.doomed = u]
        <4>1. PICK u : req' = [req EXCEPT ![w] = one(u)] \/ req' = [req EXCEPT ![w] = two(u)]
          BY <3>3 DEF CheckOrphan, GoesOn
        <4>2. one(u).pc = "trash" /\ two(u).pc = "doomed"
          BY <1>1, <3>3 DEF Request, CheckOrphan
        <4> HIDE DEF one, two
        <4> QED BY <4>1, <4>2
      <3>4. CASE TrashBlob(w)
        <4> DEFINE to == [r EXCEPT !.pc = "trash", !.doomed = NoInner]
        <4>1. req' = [req EXCEPT ![w] = to]
          BY <3>4 DEF TrashBlob, GoesOn
        <4>2. to.pc = "trash"
          BY <1>1 DEF Request
        <4> HIDE DEF to
        <4> QED BY <4>1, <4>2
      <3>5. CASE WriteStream(w)
        <4> DEFINE to == [r EXCEPT !.pc = "complete"]
        <4>1. req' = [req EXCEPT ![w] = to]
          BY <3>5 DEF WriteStream, GoesOn
        <4>2. to.pc = "complete"
          BY <1>1 DEF Request
        <4> HIDE DEF to
        <4> QED BY <4>1, <4>2
      <3> QED BY <1>3, <3>1, <3>2, <3>3, <3>4, <3>5 DEF DeleteEnds
    <2> QED BY <2>1, <2>2, <2>3, QuietStep DEF Holds
  <1> QED BY <1>2, <1>3

\* The commit of a clone copies the file its row was read from.
LEMMA CloneCommitHappens ==
    ASSUME IInv, OneAtATime, NEW w \in Workers, CloneCommit(w)
    PROVE  Happens
  <1>1. PICK r \in Request : r = req[w]
    BY DEF IInv, TypeOK
  <1>2. /\ AtWork(r) /\ r.pc = "insert" /\ r.op = "copy" /\ Whole(r.row)
        /\ r.pair \in Copying /\ r.pair.src \in DOMAIN node
        /\ r.row.folder = node[r.pair.src].folder /\ r.row.hash = node[r.pair.src].hash
    BY <1>1 DEF IInv, CloneCommit, AtWork, Cloning
  <1> DEFINE left == r.pairs \cup {[src |-> n, parent |-> NewId(node), name |-> node[n].name, root |-> FALSE] :
                                     n \in Children(node, r.pair.src)}
             goesOn == [r EXCEPT !.pc = "clone", !.pairs = left, !.pair = None, !.row = None]
             next == IF left = {} THEN Idle ELSE goesOn
             op == IF r.pair.root THEN "copy" ELSE None
  <1>3. Inserts(w, r.row, op, next)
    BY <1>1 DEF CloneCommit
  <1>4. \A u : ~Holds(next, u) /\ ~Holds(r, u)
    <2>1. goesOn.op = "copy" /\ Idle.op = "none"
      BY <1>2 DEF Request, Idle
    <2> HIDE DEF goesOn
    <2> QED BY <1>2, <2>1 DEF Holds
  <1> HIDE DEF next, op
  <1>5. CASE Fails(w)
    BY <1>5, FailedHappens
  <1>6. CASE ~Fails(w) /\ r.row.folder
    BY <1>1, <1>3, <1>4, <1>6, FolderHappens
  <1>7. CASE ~Fails(w) /\ ~r.row.folder
    <2>1. /\ node' = Inserted(node, r.row) /\ Room(node) /\ req' = [req EXCEPT ![w] = next]
          /\ UNCHANGED upload
      BY <1>3, <1>7 DEF Inserts, GoesOn, disk
    <2>2. /\ NewId(node) \notin DOMAIN FileOf /\ NewId(node) \in Ids
          /\ FileOf' = Kept!With(FileOf, NewId(node), r.row.hash)
      BY <1>7, <2>1, FileIsAdded DEF Room
    <2>3. r.pair.src \in DOMAIN FileOf /\ FileOf[r.pair.src] = r.row.hash /\ r.pair.src \in Ids
      BY <1>2, <1>7 DEF FileOf, Files, IInv, TypeOK
    <2>4. req'[w] = next
      BY <2>1 DEF IInv, TypeOK
    <2>5. InboxOf' = InboxOf
      BY <1>1, <1>4, <2>1, <2>4, InboxIsKept
    <2>6. Copies
      BY <1>1, <1>2, <2>2, <2>3, <2>5 DEF Copies
    <2> QED BY <2>6 DEF Happens
  <1> QED BY <1>5, <1>6, <1>7

\* What a delete takes is removed in one step.
LEMMA DeleteNodeHappens ==
    ASSUME IInv, OneAtATime, NEW w \in Workers, DeleteNode(w)
    PROVE  Happens
  <1> DEFINE r(n) == [Idle EXCEPT !.op = "delete", !.pc = "trash",
                         !.orphans = {node[m].inner : m \in Subtree(node, n) \cap Files(node)}]
  <1>1. PICK n \in DOMAIN node : Arrives(w, r(n)) /\ node' = Without(node, Subtree(node, n))
    BY DEF DeleteNode
  <1>2. PICK S : S = Subtree(node, n)
    OBVIOUS
  <1>3. UNCHANGED upload /\ req' = [req EXCEPT ![w] = r(n)] /\ req[w] = Idle
    BY <1>1 DEF DeleteNode, disk, Arrives
  <1>4. \A u : ~Holds(r(n), u) /\ ~Holds(Idle, u)
    BY DEF Holds, Idle
  <1> HIDE DEF r
  <1>5. InboxOf' = InboxOf
    <2>1. req'[w] = r(n)
      BY <1>3 DEF IInv, TypeOK
    <2> QED BY <1>3, <1>4, <2>1, InboxIsKept
  <1>6. DOMAIN node' = DOMAIN node \ S /\ \A m \in DOMAIN node' : node'[m] = node[m]
    BY <1>1, <1>2 DEF Without
  <1>7. Files(node') = Files(node) \ S
    BY <1>6 DEF Files
  <1>8. DOMAIN FileOf = Files(node) /\ \A m \in Files(node) : FileOf[m] = node[m].hash
    BY DEF FileOf
  <1>9. FileOf' = [m \in Files(node) \ S |-> node'[m].hash]
    BY <1>7 DEF FileOf
  <1>10. \A m \in Files(node) \ S : node'[m].hash = FileOf[m]
    BY <1>6, <1>8 DEF Files
  <1>11. FileOf' = Kept!Less(FileOf, S \cap Ids)
    <2>1. Files(node) \ (S \cap Ids) = Files(node) \ S
      BY DEF Files, IInv, TypeOK
    <2> QED BY <1>8, <1>9, <1>10, <2>1 DEF Kept!Less
  <1>12. Removes
    BY <1>5, <1>11 DEF Removes
  <1> QED BY <1>12 DEF Happens

\* The bytes of an upload arrive in the inbox, unless they are of two contents.
LEMMA CompleteHappens ==
    ASSUME IInv, OneAtATime, NEW w \in Workers, Complete(w)
    PROVE  Happens
  <1> DEFINE r == req[w]
  <1>1. r \in Request /\ AtWork(r) /\ r.pc = "complete"
    BY DEF IInv, TypeOK, Complete
  <1>2. PICK u \in Inners, b \in Bytes :
           r.up = u /\ r.bytes = b /\ upload[u].status = "pending"
    BY <1>1 DEF AtWork, Receiving
  <1>3. UNCHANGED node /\ req' = [req EXCEPT ![w] = Idle]
    BY DEF Complete, Ends, GoesOn
  <1>4. req'[w] = Idle /\ \A v : ~Holds(Idle, v) /\ ~Holds(r, v)
    BY <1>1, <1>3 DEF IInv, TypeOK, Holds, Idle
  <1>5. FileOf' = FileOf
    BY <1>3, FilesAreKept
  <1>6. CASE UNCHANGED upload
    BY <1>3, <1>4, <1>6, QuietStep
  <1>7. CASE upload' = [upload EXCEPT ![u].status = "completed", ![u].md5 = b]
    <2>1. /\ upload'[u].status = "completed" /\ upload'[u].md5 = b
          /\ upload'[u].begun = upload[u].begun
          /\ \A v \in Inners \ {u} : upload'[v] = upload[v]
      BY <1>7 DEF IInv, TypeOK, UploadSession
    <2>2. ~ToBeFiled(u)
      BY <1>2 DEF ToBeFiled, Verified
    <2>3. \A v \in Inners \ {u} : ToBeFiled(v)' <=> ToBeFiled(v)
      BY <1>4, <2>1, TheOneHolds DEF Verified
    <2>4. CASE ToBeFiled(u)'
      <3>1. b \in Contents
        BY <2>1, <2>4 DEF ToBeFiled, Verified
      <3>2. u \notin DOMAIN InboxOf /\ DOMAIN InboxOf = {v \in Inners : ToBeFiled(v)}
        BY <2>2 DEF InboxOf
      <3>3. {v \in Inners : ToBeFiled(v)'} = DOMAIN InboxOf \cup {u}
        BY <2>3, <2>4, <3>2
      <3>4. InboxOf' = [v \in DOMAIN InboxOf \cup {u} |-> upload'[v].md5]
        BY <3>3 DEF InboxOf
      <3>5. \A v \in DOMAIN InboxOf : InboxOf[v] = upload'[v].md5
        BY <2>1, <2>2 DEF InboxOf
      <3>6. InboxOf' = Kept!With(InboxOf, u, b)
        BY <2>1, <3>2, <3>4, <3>5 DEF Kept!With
      <3>7. Arrival
        BY <1>5, <3>1, <3>2, <3>6 DEF Arrival
      <3> QED BY <3>7 DEF Happens
    <2>5. CASE ~ToBeFiled(u)'
      <3>1. {v \in Inners : ToBeFiled(v)'} = {v \in Inners : ToBeFiled(v)}
        BY <2>2, <2>3, <2>5
      <3>2. \A x \in {v \in Inners : ToBeFiled(v)} : upload'[x].md5 = upload[x].md5
        BY <2>1, <2>2
      <3>3. InboxOf' = InboxOf
        BY <3>1, <3>2 DEF InboxOf
      <3> QED BY <1>5, <3>3 DEF Happens, Stutters
    <2> QED BY <2>4, <2>5
  <1> QED BY <1>2, <1>6, <1>7 DEF Complete

\* A session row changes, and its upload is or is not to be filed as before.
LEMMA SessionHappens ==
    ASSUME IInv, OneAtATime, NEW w \in Workers, NEW u \in Inners, UNCHANGED node,
           \A v \in Inners \ {u} : upload'[v] = upload[v] /\ (Holds(req'[w], v) <=> Holds(req[w], v)),
           ToBeFiled(u)' <=> ToBeFiled(u), ToBeFiled(u) => upload'[u].md5 = upload[u].md5
    PROVE  Happens
  <1>1. \A v \in Inners \ {u} : ToBeFiled(v)' <=> ToBeFiled(v)
    BY TheOneHolds DEF Verified
  <1>2. {v \in Inners : ToBeFiled(v)'} = {v \in Inners : ToBeFiled(v)}
    BY <1>1
  <1>3. \A x \in {v \in Inners : ToBeFiled(v)} : upload'[x].md5 = upload[x].md5
    OBVIOUS
  <1>4. InboxOf' = InboxOf
    BY <1>2, <1>3 DEF InboxOf
  <1> QED BY <1>4, FilesAreKept DEF Happens, Stutters

\* finish files what is in the inbox: as a new file, or in the place of another.
LEMMA FinishNewHappens ==
    ASSUME IInv, OneAtATime, NEW w \in Workers, FinishNew(w)
    PROVE  Happens
  <1>1. PICK r \in Request : r = req[w]
    BY DEF IInv, TypeOK
  <1>2. r.op = "finish" /\ r.pc = "ensure"
    BY <1>1 DEF FinishNew, AtLeaf
  <1>3. PICK md5 : md5 = upload[r.up].md5
    OBVIOUS
  <1> DEFINE row == FileRow(r.parent, Leaf(r), r.up, md5)
             next == [r EXCEPT !.pc = "trash"]
  <1>4. Inserts(w, row, "create", next)
    BY <1>1, <1>3 DEF FinishNew
  <1>5. ~row.folder /\ row.hash = md5
    BY DEF FileRow
  <1>6. \A u : ~Holds(next, u)
    BY DEF Holds, Request
  <1> HIDE DEF row, next
  <1>7. CASE Fails(w)
    BY <1>7, FailedHappens
  <1>8. CASE ~Fails(w)
    <2>1. /\ node' = Inserted(node, row) /\ Room(node) /\ req' = [req EXCEPT ![w] = next]
          /\ UNCHANGED upload
      BY <1>4, <1>8 DEF Inserts, GoesOn, disk
    <2>2. NewId(node) \in Ids /\ FileOf' = Kept!With(FileOf, NewId(node), md5)
      BY <1>5, <2>1, FileIsAdded DEF Room
    <2>3. \A u : ~Holds(req'[w], u)
      BY <1>6, <2>1 DEF IInv, TypeOK
    <2>4. /\ r.up \in Inners /\ r.up \in DOMAIN InboxOf /\ InboxOf[r.up] = md5
          /\ InboxOf' = Kept!Less(InboxOf, {r.up})
      BY <1>1, <1>2, <1>3, <2>1, <2>3, InboxLoses
    <2>5. Holds(r, r.up)
      BY <1>2 DEF Holds
    <2>6. Filing
      BY <1>1, <2>2, <2>4, <2>5 DEF Filing
    <2> QED BY <2>6 DEF Happens
  <1> QED BY <1>7, <1>8

\* A file that is replaced is the upload filed in its place.
LEMMA FinishExistingHappens ==
    ASSUME IInv, OneAtATime, NEW w \in Workers, FinishExisting(w)
    PROVE  Happens
  <1>1. PICK r \in Request : r = req[w]
    BY DEF IInv, TypeOK
  <1>2. r.op = "finish" /\ r.pc = "ensure"
    BY <1>1 DEF FinishExisting, AtLeaf
  <1>3. PICK n \in Found(r) :
          IF node[n].folder THEN Fails(w)
          ELSE /\ node' = [node EXCEPT ![n].inner = r.up, ![n].hash = upload[r.up].md5]
               /\ appended' = Change("update", n)
               /\ GoesOn(w, [r EXCEPT !.pc = "trash", !.orphans = {node[n].inner}])
               /\ UNCHANGED <<disk, link, crashes>>
    BY <1>1 DEF FinishExisting
  <1>4. CASE node[n].folder
    BY <1>3, <1>4, FailedHappens
  <1>5. CASE ~node[n].folder
    <2>1. n \in Ids /\ n \in Files(node) /\ node[n] \in FileNode
      BY <1>3, <1>5 DEF Found, FindChild, IInv, TypeOK, Files
    <2>2. PICK md5 : md5 = upload[r.up].md5
      OBVIOUS
    <2> DEFINE next == [r EXCEPT !.pc = "trash", !.orphans = {node[n].inner}]
    <2>3. /\ node' = [node EXCEPT ![n].inner = r.up, ![n].hash = md5]
          /\ req' = [req EXCEPT ![w] = next] /\ UNCHANGED upload
      BY <1>3, <1>5, <2>2 DEF GoesOn, disk
    <2>4. \A u : ~Holds(next, u)
      BY DEF Holds, Request
    <2> HIDE DEF next
    <2>5. \A u : ~Holds(req'[w], u)
      BY <2>3, <2>4 DEF IInv, TypeOK
    <2>6. /\ r.up \in Inners /\ r.up \in DOMAIN InboxOf /\ InboxOf[r.up] = md5
          /\ InboxOf' = Kept!Less(InboxOf, {r.up})
      BY <1>1, <1>2, <2>2, <2>3, <2>5, InboxLoses
    <2>7. /\ DOMAIN node' = DOMAIN node /\ node'[n].hash = md5 /\ node'[n].folder = node[n].folder
          /\ \A m \in DOMAIN node \ {n} : node'[m] = node[m]
      BY <2>1, <2>3 DEF FileNode, Files
    <2>8. Files(node') = Files(node)
      BY <2>7 DEF Files
    <2>9. DOMAIN FileOf = Files(node) /\ \A m \in Files(node) : FileOf[m] = node[m].hash
      BY DEF FileOf
    <2>10. FileOf' = [m \in Files(node) |-> node'[m].hash]
      BY <2>8 DEF FileOf
    <2>11. \A m \in Files(node) : node'[m].hash = IF m = n THEN md5 ELSE FileOf[m]
      BY <2>7, <2>9 DEF Files
    <2>12. FileOf' = [m \in Files(node) \cup {n} |-> IF m = n THEN md5 ELSE FileOf[m]]
      BY <2>1, <2>10, <2>11
    <2>13. FileOf' = Kept!With(FileOf, n, md5)
      BY <2>9, <2>12 DEF Kept!With
    <2>14. Filing
      BY <1>1, <1>2, <2>1, <2>6, <2>13 DEF Filing, Holds
    <2> QED BY <2>14 DEF Happens
  <1> QED BY <1>4, <1>5

\* The upload that ends was filed before.
LEMMA FinishEndsHappens ==
    ASSUME IInv, OneAtATime, NEW w \in Workers, FinishEnds(w)
    PROVE  Happens
  <1>1. PICK r \in Request : r = req[w]
    BY DEF IInv, TypeOK
  <1>2. r.op = "finish" /\ r.pc = "trash" /\ r.up \in Inners /\ upload[r.up].begun
    BY <1>1 DEF FinishEnds, IInv, AtWork, Finishing
  <1>3. /\ upload' = [upload EXCEPT ![r.up] = [NoSession EXCEPT !.status = "gone"]]
        /\ req' = [req EXCEPT ![w] = Idle] /\ UNCHANGED node
    BY <1>1 DEF FinishEnds, Ends, GoesOn
  <1>4. /\ upload'[r.up].status = "gone" /\ \A v \in Inners \ {r.up} : upload'[v] = upload[v]
    BY <1>2, <1>3 DEF IInv, TypeOK, NoSession
  <1>5. \A u : ~Holds(req[w], u) /\ ~Holds(req'[w], u)
    BY <1>1, <1>2, <1>3 DEF Holds, Idle, IInv, TypeOK
  <1>6. ~ToBeFiled(r.up) /\ ~ToBeFiled(r.up)'
    BY <1>2, <1>4, <1>5, TheOneHolds DEF Verified
  <1> QED BY <1>2, <1>3, <1>4, <1>5, <1>6, SessionHappens

\* A request that begins files nothing; a finish leaves its upload to be filed.
LEMMA RequestHappens ==
    ASSUME IInv, OneAtATime, NEW w \in Workers, NewRequest(w)
    PROVE  Happens
  <1>1. \A u : ~Holds(Idle, u)
    BY DEF Holds, Idle
  <1>2. ASSUME NEW op \in {"create", "move", "copy"}, NEW n, NEW path, NEW auto, Unchanged(w),
               Arrives(w, [Idle EXCEPT !.op = op, !.pc = "ensure", !.id = n, !.todo = path, !.auto = auto])
        PROVE  Happens
    <2> DEFINE r == [Idle EXCEPT !.op = op, !.pc = "ensure", !.id = n, !.todo = path, !.auto = auto]
    <2>1. \A u : ~Holds(r, u)
      BY DEF Holds, Idle
    <2>2. UNCHANGED <<node, upload>> /\ req[w] = Idle /\ req' = [req EXCEPT ![w] = r]
      BY <1>2 DEF Unchanged, disk, Arrives
    <2> HIDE DEF r
    <2> QED BY <1>1, <2>1, <2>2, QuietStep
  <1>3. CASE CreateFolder(w)
    <2>1. PICK path \in Paths, auto \in BOOLEAN :
             Arrives(w, [Idle EXCEPT !.op = "create", !.pc = "ensure", !.todo = path, !.auto = auto])
      BY <1>3 DEF CreateFolder
    <2> DEFINE r == [Idle EXCEPT !.op = "create", !.pc = "ensure", !.todo = path, !.auto = auto]
    <2>2. \A u : ~Holds(r, u)
      BY DEF Holds, Idle
    <2>3. UNCHANGED <<node, upload>> /\ req[w] = Idle /\ req' = [req EXCEPT ![w] = r]
      BY <1>3, <2>1 DEF CreateFolder, Unchanged, disk, Arrives
    <2> HIDE DEF r
    <2> QED BY <1>1, <2>2, <2>3, QuietStep
  <1>4. CASE MoveOrCopy(w, "move") \/ MoveOrCopy(w, "copy")
    <2>1. PICK op \in {"move", "copy"} : MoveOrCopy(w, op)
      BY <1>4
    <2> QED BY <1>2, <2>1 DEF MoveOrCopy
  <1>5. CASE Apply(w)
    <2>1. PICK u \in Inners : /\ upload[u].status = "none"
                              /\ upload' = [upload EXCEPT ![u].status = "pending"]
      BY <1>5 DEF Apply
    <2>2. /\ upload'[u].status = "pending" /\ \A v \in Inners \ {u} : upload'[v] = upload[v]
          /\ UNCHANGED <<node, req>>
      BY <1>5, <2>1 DEF Apply, IInv, TypeOK, UploadSession
    <2>3. ~ToBeFiled(u) /\ ~ToBeFiled(u)'
      BY <2>1, <2>2 DEF ToBeFiled, Verified
    <2> QED BY <2>2, <2>3, SessionHappens
  <1>6. CASE ReceiveFull(w) \/ ReceivePart(w)
    <2>1. PICK u \in Inners :
             /\ upload[u].status = "pending" /\ upload'[u].status = "pending"
             /\ \A v \in Inners \ {u} : upload'[v] = upload[v]
      <3>1. CASE ReceiveFull(w)
        <4>1. PICK u \in Inners, declared \in 0..1 :
                 /\ upload[u].status = "pending"
                 /\ upload' = [upload EXCEPT ![u].counted = UsedBytes(node) + declared]
          BY <3>1 DEF ReceiveFull
        <4> QED BY <4>1 DEF IInv, TypeOK, UploadSession
      <3>2. CASE ReceivePart(w)
        <4>1. PICK u \in Inners, k \in UploadIds, i \in Parts, c \in Contents :
                LET stored == [chunk[k] EXCEPT ![i] = c]
                    next == [Idle EXCEPT !.op = "part", !.pc = "write", !.up = u, !.bytes = Assembled(stored)]
                    complete == \A j \in Parts : stored[j] # None
                IN  /\ upload[u].status = "pending" /\ upload[u].id \in {None, k}
                    /\ upload' = [upload EXCEPT ![u].id = k,
                                                ![u].counted = IF complete THEN UsedBytes(node) + 1 ELSE @]
                    /\ chunk' = [chunk EXCEPT ![k] = stored]
                    /\ Arrives(w, IF complete /\ QuotaLeft(1) THEN next ELSE Idle)
          BY <3>2, Zenon DEF ReceivePart
        <4>2. upload[u].status = "pending" /\ upload'[u].status = "pending"
          BY <4>1 DEF IInv, TypeOK, UploadSession
        <4>3. \A v \in Inners \ {u} : upload'[v] = upload[v]
          BY <4>1 DEF IInv, TypeOK
        <4> QED BY <4>2, <4>3
      <3> QED BY <1>6, <3>1, <3>2
    <2>2. UNCHANGED node
      BY <1>6, Zenon DEF ReceiveFull, ReceivePart
    <2>3. req[w] = Idle /\ \A v : ~Holds(req'[w], v)
      <3>1. CASE ReceiveFull(w)
        <4>1. PICK x, c : Arrives(w, [Idle EXCEPT !.op = "put", !.pc = "write", !.up = x, !.bytes = c])
          BY <3>1 DEF ReceiveFull
        <4> QED BY <4>1 DEF Arrives, Holds, Idle, IInv, TypeOK
      <3>2. CASE ReceivePart(w)
        <4>1. PICK x \in Inners, k \in UploadIds, i \in Parts, c \in Contents :
                LET stored == [chunk[k] EXCEPT ![i] = c]
                    next == [Idle EXCEPT !.op = "part", !.pc = "write", !.up = x, !.bytes = Assembled(stored)]
                    complete == \A j \in Parts : stored[j] # None
                IN  /\ upload[x].status = "pending" /\ upload[x].id \in {None, k}
                    /\ upload' = [upload EXCEPT ![x].id = k,
                                                ![x].counted = IF complete THEN UsedBytes(node) + 1 ELSE @]
                    /\ chunk' = [chunk EXCEPT ![k] = stored]
                    /\ Arrives(w, IF complete /\ QuotaLeft(1) THEN next ELSE Idle)
          BY <3>2, Zenon DEF ReceivePart
        <4> DEFINE stored == [chunk[k] EXCEPT ![i] = c]
                   to == [Idle EXCEPT !.op = "part", !.pc = "write", !.up = x, !.bytes = Assembled(stored)]
                   room == (\A j \in Parts : stored[j] # None) /\ QuotaLeft(1)
        <4>4. Arrives(w, IF room THEN to ELSE Idle)
          BY <4>1, Zenon
        <4> HIDE DEF room
        <4>2. Arrives(w, to) \/ Arrives(w, Idle)
          <5>1. CASE room
            BY <4>4, <5>1, Zenon
          <5>2. CASE ~room
            BY <4>4, <5>2, Zenon
          <5> QED BY <5>1, <5>2
        <4>3. \A v : ~Holds(to, v)
          BY DEF Holds, Idle
        <4> HIDE DEF to
        <4> QED BY <1>1, <4>2, <4>3 DEF Arrives, IInv, TypeOK
      <3> QED BY <1>6, <3>1, <3>2
    <2>4. ~ToBeFiled(u) /\ ~ToBeFiled(u)'
      BY <2>1 DEF ToBeFiled, Verified
    <2> QED BY <1>1, <2>1, <2>2, <2>3, <2>4, SessionHappens
  <1>7. CASE Finish(w)
    <2>1. PICK u \in Inners, path \in Paths :
          /\ Verified(u) /\ (Repeats \/ ~upload[u].begun)
          /\ Arrives(w, [Idle EXCEPT !.op = "finish", !.pc = "ensure", !.up = u, !.todo = path])
          /\ upload' = [upload EXCEPT ![u].begun = TRUE]
      BY <1>7 DEF Finish
    <2> DEFINE r == [Idle EXCEPT !.op = "finish", !.pc = "ensure", !.up = u, !.todo = path]
    <2>2. UNCHANGED node /\ req[w] = Idle /\ req' = [req EXCEPT ![w] = r]
      BY <1>7, <2>1 DEF Finish, Arrives
    <2>3. \A v : Holds(r, v) <=> v = u
      BY DEF Holds, Idle
    <2> HIDE DEF r
    <2>4. req'[w] = r
      BY <2>2 DEF IInv, TypeOK
    <2>5. /\ upload'[u].status = upload[u].status /\ upload'[u].md5 = upload[u].md5
          /\ \A v \in Inners \ {u} : upload'[v] = upload[v]
      BY <2>1 DEF IInv, TypeOK, UploadSession
    <2>6. ToBeFiled(u) /\ ToBeFiled(u)'
      <3>1. Verified(u)'
        BY <2>1, <2>5 DEF Verified
      <3> QED BY <2>1, <2>3, <2>4, <3>1, TheOneHolds DEF OneAtATime
    <2> QED BY <1>1, <2>2, <2>3, <2>4, <2>5, <2>6, SessionHappens
  <1>8. CASE DeleteNode(w)
    BY <1>8, DeleteNodeHappens
  <1> QED BY <1>3, <1>4, <1>5, <1>6, <1>7, <1>8 DEF NewRequest

\* A death drops the upload that was being finished.
LEMMA CrashHappens ==
    ASSUME IInv, OneAtATime, Crash
    PROVE  Happens
  <1>1. PICK w \in Workers : TRUE
    BY DEF Crash
  <1>2. UNCHANGED <<node, upload>> /\ req' = [v \in Workers |-> Idle]
    BY DEF Crash, disk
  <1>3. req'[w] = Idle /\ \A u : ~Holds(Idle, u)
    BY <1>2 DEF Holds, Idle
  <1>4. FileOf' = FileOf
    BY <1>2, FilesAreKept
  <1>5. CASE req[w].op = "finish" /\ req[w].pc = "ensure"
    <2>1. req[w].up \in Inners /\ InboxOf' = Kept!Less(InboxOf, {req[w].up})
      BY <1>2, <1>3, <1>5, InboxLoses
    <2> QED BY <1>4, <2>1 DEF Happens, Discards
  <1>6. CASE ~(req[w].op = "finish" /\ req[w].pc = "ensure")
    <2>1. InboxOf' = InboxOf
      BY <1>2, <1>3, <1>6, InboxIsKept DEF Holds
    <2> QED BY <1>4, <2>1 DEF Happens, Stutters
  <1> QED BY <1>5, <1>6

\* Every step of the server is one of the things that happen.
LEMMA StepsHappen ==
    ASSUME IInv, OneAtATime, [Next]_vars
    PROVE  Happens
  <1>1. ASSUME NEW w \in Workers, Step(w) PROVE Happens
    BY <1>1, EnsureFolderHappens, MakeFolderHappens, MoveNodeHappens, LocalsHappen, CloneCommitHappens,
       CompleteHappens, FinishNewHappens, FinishExistingHappens, FinishEndsHappens DEF Step
  <1>2. CASE UNCHANGED <<node, upload, req>>
    BY <1>2 DEF Happens, Stutters, FileOf, InboxOf, ToBeFiled, Verified, Files
  <1>3. SignedUrl \/ UNCHANGED vars => UNCHANGED <<node, upload, req>>
    BY DEF SignedUrl, vars, disk
  <1> QED BY <1>1, <1>2, <1>3, RequestHappens, CrashHappens DEF Next

------------------------------------------------------------------------------
(* The refinement *)

\* The empty server is an empty vault.
LEMMA StartsEmpty == Init => Kept!Init
  <1> SUFFICES ASSUME Init PROVE Kept!Init
    OBVIOUS
  <1>1. DOMAIN << >> = {}
    OBVIOUS
  <1>2. << >> = [x \in DOMAIN << >> |-> << >>[x]]
    OBVIOUS
  <1>3. Files(node) = {}
    BY <1>1 DEF Init, Files
  <1>4. {v \in Inners : ToBeFiled(v)} = {}
    BY DEF Init, ToBeFiled, Verified, NoSession
  <1>5. [n \in Files(node) |-> blob[node[n].inner]] = << >>
    BY <1>1, <1>2, <1>3
  <1>6. [u \in {v \in Inners : ToBeFiled(v)} |-> upload[u].md5] = << >>
    BY <1>1, <1>2, <1>4
  <1> QED BY <1>5, <1>6 DEF Kept!Init

\* What happens to the files is a step of the vault, or none: the bytes on the disk are
\* what the rows say of them, so Vault's files are FileOf.
LEMMA HappensIsAStep ==
    ASSUME IInv, IInv', Happens
    PROVE  [Kept!Next]_(Kept!vars)
  <1> DEFINE f == [n \in Files(node) |-> blob[node[n].inner]]
             i == [u \in {v \in Inners : ToBeFiled(v)} |-> upload[u].md5]
  <1>1. f = FileOf /\ f' = FileOf' /\ i = InboxOf /\ i' = InboxOf'
    <2>1. \A n \in Files(node) : blob[node[n].inner] = node[n].hash
      BY DEF IInv, RowsWhole, Whole, Files
    <2>2. \A n \in Files(node)' : (blob[node[n].inner])' = node'[n].hash
      BY DEF IInv, RowsWhole, Whole, Files
    <2> QED BY <2>1, <2>2 DEF FileOf, InboxOf
  <1>2. DOMAIN FileOf \subseteq Ids /\ DOMAIN InboxOf \subseteq Inners
    BY DEF FileOf, InboxOf, IInv, TypeOK, Files
  <1>3. CASE Stutters
    BY <1>1, <1>3 DEF Stutters, Kept!vars
  <1>4. CASE Arrival
    <2>1. \E u \in Inners, c \in Contents : Kept!Arrive(u, c)
      BY <1>1, <1>4 DEF Arrival, Kept!Arrive
    <2> QED BY <2>1 DEF Kept!Next
  <1>5. CASE Discards
    <2>1. \E u \in Inners : Kept!Discard(u)
      BY <1>1, <1>5 DEF Discards, Kept!Discard
    <2> QED BY <2>1 DEF Kept!Next
  <1>6. CASE Filing
    <2>1. \E u \in Inners, n \in Ids : Kept!File(u, n)
      BY <1>1, <1>2, <1>6 DEF Filing, Kept!File
    <2> QED BY <2>1 DEF Kept!Next
  <1>7. CASE Copies
    <2>1. \E m, n \in Ids : Kept!Copy(m, n)
      BY <1>1, <1>7 DEF Copies, Kept!Copy
    <2> QED BY <2>1 DEF Kept!Next
  <1>8. CASE Removes
    <2>1. PICK ns : FileOf' = Kept!Less(FileOf, ns) /\ UNCHANGED InboxOf
      BY <1>8 DEF Removes
    <2>2. Kept!Less(FileOf, ns) = Kept!Less(FileOf, ns \cap DOMAIN FileOf)
      <3>1. DOMAIN FileOf \ ns = DOMAIN FileOf \ (ns \cap DOMAIN FileOf)
        OBVIOUS
      <3> QED BY <3>1, Zenon DEF Kept!Less
    <2>3. PICK xs : xs = ns \cap DOMAIN FileOf
      OBVIOUS
    <2>4. xs \in SUBSET DOMAIN f
      BY <1>1, <2>3
    <2>5. Kept!Remove(xs)
      BY <1>1, <2>1, <2>2, <2>3 DEF Kept!Remove
    <2>6. \E ys \in SUBSET DOMAIN f : Kept!Remove(ys)
      BY <2>4, <2>5, Zenon
    <2> QED BY <2>6, Zenon DEF Kept!Next
  <1> QED BY <1>3, <1>4, <1>5, <1>6, <1>7, <1>8 DEF Happens

\* Whoever keeps files on the server sees a vault: contents arrive whole or not at all,
\* each is filed at most once, and a file stays what it is until another content is filed
\* in its place or it is removed, through folders, moves, shared blobs and deaths.
THEOREM StoreImplementsVault == ASSUME OneAtATime PROVE Spec => ImplementsVault
  <1>1. Init => Kept!Init
    BY StartsEmpty
  <1>2. IInv /\ IInv' /\ [Next]_vars => [Kept!Next]_(Kept!vars)
    BY StepsHappen, HappensIsAStep
  <1> QED BY <1>1, <1>2, StoreInvariant, PTL DEF Spec, ImplementsVault, Kept!Spec

------------------------------------------------------------------------------
(* The quota *)

\* A file's size is one: used_bytes counts Vault's files.
LEMMA UsedCountsFiles ==
    ASSUME IInv
    PROVE  /\ Files(node) = DOMAIN FileOf /\ Files(node') = DOMAIN FileOf'
           /\ UsedBytes(node) \in Nat /\ IsFiniteSet(Files(node))
  BY UsedIsNat DEF FileOf, Files, IInv

\* used_bytes is a number after a step, too.
LEMMA UsedStaysNat == ASSUME IInv' PROVE UsedBytes(node') \in Nat
  <1>1. Files(node') \subseteq 1..MaxId
    BY DEF IInv, TypeOK, Files, Ids
  <1>2. IsFiniteSet(1..MaxId)
    BY FS_Interval, FileTreeAssumption
  <1>3. IsFiniteSet(Files(node'))
    BY <1>1, <1>2, FS_Subset
  <1> QED BY <1>3, FS_CardinalityType DEF UsedBytes

\* Unless a file is filed or copied, used_bytes does not grow.
LEMMA OthersDoNotGrow ==
    ASSUME IInv, Happens, ~Filing, ~Copies
    PROVE  ~(UsedBytes(node') > UsedBytes(node))
  <1>1. DOMAIN FileOf' \subseteq DOMAIN FileOf
    BY DEF Happens, Stutters, Arrival, Discards, Removes, Kept!Less
  <1>2. Files(node') \in SUBSET Files(node)
    BY <1>1, UsedCountsFiles
  <1>3. Cardinality(Files(node')) <= Cardinality(Files(node)) /\ IsFiniteSet(Files(node'))
    BY <1>2, UsedCountsFiles, FS_Subset
  <1> QED BY <1>3, FS_CardinalityType, UsedCountsFiles DEF UsedBytes

\* An upload that is filed had room for what was counted when it arrived.
LEMMA FilingHadRoom ==
    ASSUME IInv, NEW w \in Workers, Holds(req[w], req[w].up)
    PROVE  upload[req[w].up].counted <= Capacity /\ upload[req[w].up].counted \in Nat
  <1>1. req[w].up \in Inners /\ upload[req[w].up].status = "completed"
    BY DEF Holds, IInv, AtWork, Finishing
  <1> QED BY <1>1 DEF IInv, UploadsTrue, TypeOK, UploadSession

\* However many files there are and whatever the quota is, only a copy, or an upload whose
\* check took the tree to come to less, takes the tree over it.
THEOREM QuotaOverrunIsUncounted == ASSUME OneAtATime PROVE Spec => OnlyUncountedOverruns
  <1>1. ASSUME IInv, IInv', [Next]_vars, UsedBytes(node') > UsedBytes(node), UsedBytes(node') > Capacity
        PROVE  \E w \in Workers :
                  \/ req[w].op = "copy"
                  \/ req[w].op = "finish" /\ upload[req[w].up].counted < UsedBytes(node')
    <2>1. Filing \/ Copies
      BY <1>1, StepsHappen, OthersDoNotGrow
    <2>2. CASE Filing
      <3>1. PICK w \in Workers : Holds(req[w], req[w].up)
        BY <2>2 DEF Filing
      <3>2. upload[req[w].up].counted < UsedBytes(node')
        <4>1. UsedBytes(node') \in Nat
          BY <1>1, UsedStaysNat
        <4>2. upload[req[w].up].counted <= Capacity /\ upload[req[w].up].counted \in Nat
          BY <1>1, <3>1, FilingHadRoom
        <4> QED BY <1>1, <4>1, <4>2, FileStoreAssumption
      <3> QED BY <3>1, <3>2 DEF Holds
    <2>3. CASE Copies
      BY <2>3 DEF Copies
    <2> QED BY <2>1, <2>2, <2>3
  <1>2. IInv /\ IInv' /\ [Next]_vars =>
            [UsedBytes(node') > UsedBytes(node) /\ UsedBytes(node') > Capacity =>
                \E w \in Workers :
                    \/ req[w].op = "copy"
                    \/ req[w].op = "finish" /\ upload[req[w].up].counted < UsedBytes(node')]_vars
    BY <1>1
  <1> QED BY <1>2, StoreInvariant, PTL DEF Spec, OnlyUncountedOverruns
==============================================================================
