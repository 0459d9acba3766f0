--------------------------- MODULE FileStoreProofs ---------------------------
(* What holds of the file server when the sync lock holds: requests follow   *)
(* one another, whatever they are and wherever the server dies.              *)
EXTENDS FileStore, FiniteSetTheorems, WellFoundedInduction, TLAPS

\* One request at a time, and none that finishes an upload a second time.
OneAtATime == (\A v, w \in Workers : v = w) /\ ~Repeats

Named(u) == BlobReferenced(node, u)

\* No file has ever had the blob of this upload, so it may still be written.
Fresh(u) == \/ upload[u].status \in {"none", "pending"}
            \/ upload[u].status = "completed" /\ ~upload[u].begun

\* A folder has no blob; a file has one that is on the disk and no longer written.
Whole(row) ==
    /\ row \in FileNode
    /\ row.folder => row.inner = NoInner
    /\ ~row.folder => /\ row.inner \in Inners /\ row.hash \in Contents
                      /\ blob[row.inner] = row.hash /\ ~Fresh(row.inner)

RowsWhole == \A n \in DOMAIN node : Whole(node[n])

\* An upload that can be finished has the bytes it says, and when they came there was room
\* for what was counted.
UploadsTrue ==
    \A u \in Inners :
        /\ upload[u].status = "none" => blob[u] = None
        /\ upload[u].status = "completed" =>
              /\ upload[u].md5 \in Bytes /\ upload[u].counted <= Capacity
              /\ ~upload[u].begun => blob[u] = upload[u].md5

LinkTrue ==
    link.inner # NoInner =>
        /\ link.inner \in Inners /\ link.hash \in Contents
        /\ ~Fresh(link.inner) /\ blob[link.inner] \in {link.hash, None}

\* What a request relies on from one step to the next.
Receiving(r) ==
    r.pc \in {"write", "complete"} =>
        /\ r.op \in {"put", "part"} /\ r.up \in Inners /\ r.bytes \in Bytes
        /\ upload[r.up].status = "pending" /\ upload[r.up].counted <= Capacity
        /\ r.pc = "complete" => blob[r.up] = r.bytes

Finishing(r) ==
    r.op = "finish" =>
        /\ r.up \in Inners /\ upload[r.up].status = "completed" /\ upload[r.up].begun
        /\ upload[r.up].md5 \in Contents
        /\ r.pc \in {"ensure", "trash", "doomed"}
        /\ r.pc = "ensure" => blob[r.up] = upload[r.up].md5
        /\ r.pc \in {"trash", "doomed"} => Named(r.up)

Cloning(r) ==
    /\ r.pc \in {"clone", "insert"} => r.op = "copy"
    /\ r.pc = "insert" => /\ r.pair \in Copying /\ Whole(r.row) /\ r.pair.src \in DOMAIN node
                          /\ r.row.folder = node[r.pair.src].folder
                          /\ r.row.hash = node[r.pair.src].hash

Trashing(r) ==
    /\ \A u \in r.orphans : u \in Inners /\ ~Fresh(u)
    /\ IF r.pc \in {"trash", "doomed"} THEN r.op \in {"finish", "delete"} ELSE r.orphans = {}
    /\ r.pc # "doomed" => r.doomed = NoInner
    /\ r.pc = "doomed" => r.doomed \in Inners /\ ~Named(r.doomed) /\ ~Fresh(r.doomed)

AtWork(r) == Receiving(r) /\ Finishing(r) /\ Cloning(r) /\ Trashing(r)

IInv == /\ TypeOK /\ RowsWhole /\ UploadsTrue /\ LinkTrue /\ BlobsAccounted
        /\ \A w \in Workers : AtWork(req[w])

------------------------------------------------------------------------------
(* The tables *)

\* The largest id there is: tree_service's inserts take the one after it.
LEMMA MaxIsLargest ==
    ASSUME NEW S, S \subseteq 0..MaxId, S # {}
    PROVE  Max(S) \in S /\ \A y \in S : Max(S) >= y
  <1> DEFINE T == {MaxId - n : n \in S}
  <1>1. MaxId \in Nat
    BY FileTreeAssumption
  <1>8. ASSUME NEW n \in S PROVE MaxId - n \in Nat
    <2>1. n \in 0..MaxId
      OBVIOUS
    <2> QED BY <2>1, <1>1
  <1>2. T \subseteq Nat /\ T # {}
    BY <1>8
  <1> DEFINE Less == OpToRel(<, Nat)
  <1>6. IsWellFoundedOn(Less, Nat)
    BY NatLessThanWellFounded
  <1>7. \E x \in T : \A y \in T : ~(<<y, x>> \in Less)
    <2> HIDE DEF T, Less
    <2> QED BY <1>2, <1>6, WFMin
  <1>3. PICK x \in T : \A y \in T : ~(<<y, x>> \in Less)
    BY <1>7
  <1>4. PICK n \in S : x = MaxId - n
    BY <1>3
  <1>5. ASSUME NEW y \in S PROVE n >= y
    <2>1. MaxId - y \in T /\ MaxId - y \in Nat /\ x \in Nat
      BY <1>2, <1>3
    <2>2. ~(MaxId - y < x)
      BY <2>1, <1>3 DEF OpToRel
    <2> QED BY <2>2, <1>4, <1>1
  <1> QED BY <1>5 DEF Max

\* A new row takes the id of no row there is.
LEMMA NewIdIsNew ==
    ASSUME NEW t, DOMAIN t \subseteq Ids
    PROVE  NewId(t) \in Nat /\ NewId(t) \notin DOMAIN t
  <1>1. DOMAIN t \cup {0} \subseteq 0..MaxId /\ DOMAIN t \cup {0} # {}
    BY FileTreeAssumption DEF Ids
  <1>2. /\ Max(DOMAIN t \cup {0}) \in DOMAIN t \cup {0}
        /\ \A y \in DOMAIN t \cup {0} : Max(DOMAIN t \cup {0}) >= y
    BY <1>1, MaxIsLargest
  <1> DEFINE m == Max(DOMAIN t \cup {0})
  <1>3. m \in Nat /\ NewId(t) = m + 1
    BY <1>1, <1>2, FileTreeAssumption DEF NewId
  <1>4. \A y \in DOMAIN t : y \in Nat /\ m >= y
    BY <1>1, <1>2, FileTreeAssumption
  <1> HIDE DEF m
  <1>5. \A y \in DOMAIN t : y # m + 1
    BY <1>3, <1>4
  <1> QED BY <1>3, <1>5

\* Every name a request takes or autorename makes is a name of a row.
LEMMA NamesAreTyped ==
    ASSUME NEW r, r.todo \in Seq(Names), Len(r.todo) >= 1
    PROVE  /\ Leaf(r) \in Seq(Bases \cup Nat) /\ Head(r.todo) \in Seq(Bases \cup Nat)
           /\ TargetNames(r) \subseteq Seq(Bases \cup Nat)
  <1>1. Leaf(r) \in Names /\ Head(r.todo) \in Names
    BY DEF Leaf
  <1>2. Names \subseteq Seq(Bases \cup Nat)
    <2>1. \A i \in Ids : i \in Nat
      BY FileTreeAssumption DEF Ids
    <2>2. ASSUME NEW base \in Bases PROVE <<base>> \in Seq(Bases \cup Nat)
      OBVIOUS
    <2>3. ASSUME NEW base \in Bases, NEW i \in Ids PROVE <<base, i>> \in Seq(Bases \cup Nat)
      <3>1. base \in Bases \cup Nat /\ i \in Bases \cup Nat
        BY <2>1
      <3> QED BY <3>1
    <2> SUFFICES ASSUME NEW name \in Names PROVE name \in Seq(Bases \cup Nat)
      OBVIOUS
    <2>4. \/ \E base \in Bases : name = <<base>>
          \/ \E base \in Bases, i \in Ids : name = <<base, i>>
      BY DEF Names
    <2> QED BY <2>2, <2>3, <2>4
  <1>3. ASSUME NEW j \in 1..MaxId + 1 PROVE Suffixed(Leaf(r), j) \in Seq(Bases \cup Nat)
    <2>1. j \in Nat
      BY FileTreeAssumption
    <2> QED BY <1>1, <1>2, <2>1 DEF Suffixed
  <1>4. Autorenamed(node, r.parent, Leaf(r)) \subseteq Seq(Bases \cup Nat)
    BY <1>1, <1>2, <1>3 DEF Autorenamed
  <1> QED BY <1>1, <1>2, <1>4 DEF TargetNames

\* used_bytes is a number.
LEMMA UsedIsNat ==
    ASSUME TypeOK PROVE UsedBytes(node) \in Nat /\ IsFiniteSet(Files(node))
  <1>1. IsFiniteSet(1..MaxId)
    BY FS_Interval, FileTreeAssumption
  <1>2. Files(node) \subseteq 1..MaxId
    BY DEF TypeOK, Files, Ids
  <1>3. IsFiniteSet(Files(node))
    BY <1>1, <1>2, FS_Subset
  <1> QED BY <1>3, FS_CardinalityType DEF UsedBytes

------------------------------------------------------------------------------
(* What a step leaves alone *)

\* A step of the one request that there is takes every worker where it goes.
LEMMA TheOneRequest ==
    ASSUME TypeOK, OneAtATime, NEW w \in Workers, NEW r \in Request,
           req' = [req EXCEPT ![w] = r]
    PROVE  req' \in [Workers -> Request] /\ \A v \in Workers : req'[v] = r
  BY DEF TypeOK, OneAtATime

\* A request that goes on, with nothing committed and nothing written (Python locals only).
LEMMA RequestGoesOn ==
    ASSUME IInv, OneAtATime, NEW w \in Workers, NEW r \in Request, AtWork(r),
           GoesOn(w, r) \/ Arrives(w, r), Unchanged(w),
           \A u \in req[w].orphans \cup {req[w].doomed} :
               u \in r.orphans \cup {r.doomed} \/ u \notin Inners \/ Named(u)
    PROVE  IInv'
  <1>1. /\ req' = [req EXCEPT ![w] = r] /\ requests' \in 0..MaxRequests
        /\ UNCHANGED <<node, upload, blob, chunk, link, crashes>> /\ appended' = None
    BY FileStoreAssumption DEF IInv, TypeOK, GoesOn, Arrives, Unchanged, disk
  <1>2. req' \in [Workers -> Request] /\ \A v \in Workers : req'[v] = r
    BY <1>1, TheOneRequest DEF IInv
  <1>3. TypeOK'
    BY <1>1, <1>2 DEF IInv, TypeOK
  <1>4. RowsWhole' /\ UploadsTrue' /\ LinkTrue'
    BY <1>1 DEF IInv, RowsWhole, UploadsTrue, LinkTrue, Whole, Fresh
  <1>5. \A v \in Workers : AtWork(req[v])'
    BY <1>1, <1>2 DEF AtWork, Receiving, Finishing, Cloning, Trashing, Whole, Fresh, Named, BlobReferenced
  <1>6. BlobsAccounted'
    <2> SUFFICES ASSUME crashes = 0, NEW u \in Inners,
                        blob[u] # None, ~Named(u), upload[u].status \notin {"pending", "completed"}
                 PROVE  \E v \in Workers : u \in r.orphans \cup {r.doomed}
      BY <1>1, <1>2 DEF BlobsAccounted, Named, BlobReferenced
    <2>1. PICK v \in Workers : u \in req[v].orphans \cup {req[v].doomed}
      BY DEF IInv, BlobsAccounted, Named
    <2>2. v = w
      BY DEF OneAtATime
    <2> QED BY <2>1, <2>2
  <1> QED BY <1>3, <1>4, <1>5, <1>6 DEF IInv

\* A worker without a request is where a request leaves it.
LEMMA IdleIsARequest == Idle \in Request /\ AtWork(Idle)
  <1>1. Idle \in Request
    BY DEF Idle, Request
  <1> QED BY <1>1 DEF Idle, AtWork, Receiving, Finishing, Cloning, Trashing

\* A request that fails before it trashes leaves what there was.
LEMMA FailedRequest ==
    ASSUME IInv, OneAtATime, NEW w \in Workers, Fails(w), req[w].pc \notin {"trash", "doomed"}
    PROVE  IInv'
  <1>1. AtWork(req[w]) /\ NoInner \notin Inners
    BY FileTreeAssumption DEF IInv
  <1>2. req[w].orphans = {} /\ req[w].doomed \notin Inners
    BY <1>1 DEF AtWork, Trashing
  <1> QED BY <1>2, RequestGoesOn, IdleIsARequest DEF Fails, Ends

\* ensure_folder, create_folder, finish and copy insert a row and commit it, or fail.
LEMMA RowInserted ==
    ASSUME IInv, OneAtATime, NEW w \in Workers, NEW row, Whole(row),
           NEW op \in {None, "create", "copy"}, NEW next \in Request, Inserts(w, row, op, next),
           req[w].pc \in {"ensure", "insert"}, next.orphans = {}, next.doomed = NoInner,
           next.pc \in {"idle", "ensure", "clone", "trash"}, next.pc = "clone" => next.op = "copy",
           next.pc = "trash" => next.op = "finish" /\ row.inner = next.up,
           next.op = "finish" => /\ next.pc \in {"ensure", "trash"}
                                 /\ Finishing([next EXCEPT !.pc = "ensure"])
    PROVE  IInv'
  <1>1. CASE Clashes(node, row.parent, row.name, {})
    BY <1>1, FailedRequest DEF Inserts
  <1>2. CASE ~Clashes(node, row.parent, row.name, {})
    <2>1. /\ NewId(node) \in Ids /\ node' = Inserted(node, row)
          /\ appended' = IF op = None THEN None ELSE Change(op, NewId(node))
          /\ req' = [req EXCEPT ![w] = next]
          /\ UNCHANGED <<upload, blob, chunk, link, crashes, requests>>
      BY <1>2 DEF Inserts, GoesOn, disk, Room
    <2>2. req' \in [Workers -> Request] /\ \A v \in Workers : req'[v] = next
      BY <2>1, TheOneRequest DEF IInv
    <2>3. NewId(node) \notin DOMAIN node
      BY NewIdIsNew DEF IInv, TypeOK
    <2>4. /\ DOMAIN node' = DOMAIN node \cup {NewId(node)} /\ node'[NewId(node)] = row
          /\ \A n \in DOMAIN node : node'[n] = node[n]
      BY <2>1, <2>3 DEF Inserted
    <2>5. appended' \in ChangeRow \cup {None}
      BY <2>1 DEF ChangeRow, ChangeOps, Change
    <2>6. TypeOK'
      BY <2>1, <2>2, <2>4, <2>5 DEF IInv, TypeOK, Whole
    <2>7. RowsWhole' /\ UploadsTrue' /\ LinkTrue'
      BY <2>1, <2>4 DEF IInv, RowsWhole, UploadsTrue, LinkTrue, Whole, Fresh
    <2>8. \A u : Named(u) => Named(u)'
      BY <2>4 DEF Named, BlobReferenced
    <2>9. BlobsAccounted'
      <3> SUFFICES ASSUME crashes = 0, NEW u \in Inners,
                          blob[u] # None, ~Named(u)', upload[u].status \notin {"pending", "completed"}
                   PROVE  FALSE
        BY <2>1 DEF BlobsAccounted, Named
      <3>1. PICK v \in Workers : u \in req[v].orphans \cup {req[v].doomed}
        BY <2>8 DEF IInv, BlobsAccounted, Named
      <3>2. AtWork(req[v]) /\ req[v].pc \in {"ensure", "insert"}
        BY DEF OneAtATime, IInv
      <3> QED BY <3>1, <3>2, FileTreeAssumption DEF AtWork, Trashing
    <2>10. AtWork(next)'
      <3>1. Receiving(next)' /\ Cloning(next)' /\ Trashing(next)'
        BY DEF Receiving, Cloning, Trashing
      <3>2. next.pc = "trash" => Named(next.up)'
        BY <2>4 DEF Named, BlobReferenced
      <3>3. Finishing(next)'
        BY <2>1, <3>2 DEF Finishing
      <3> QED BY <3>1, <3>3 DEF AtWork
    <2>11. \A v \in Workers : AtWork(req[v])'
      BY <2>2, <2>10
    <2> QED BY <2>6, <2>7, <2>9, <2>11 DEF IInv
  <1> QED BY <1>1, <1>2

------------------------------------------------------------------------------
(* The tree's requests *)

\* create_folder, move and copy begin with the names of their path.
LEMMA TreeRequestsBegin ==
    ASSUME IInv, OneAtATime, NEW w \in Workers,
           CreateFolder(w) \/ MoveOrCopy(w, "move") \/ MoveOrCopy(w, "copy")
    PROVE  IInv'
  <1> DEFINE Asked(op, n, path, auto) ==
               [Idle EXCEPT !.op = op, !.pc = "ensure", !.id = n, !.todo = path, !.auto = auto]
  <1>1. \E op \in {"create", "move", "copy"}, n \in Ids \cup {Root}, path \in Paths, auto \in BOOLEAN :
           Arrives(w, Asked(op, n, path, auto))
    <2>1. CASE CreateFolder(w)
      <3>1. PICK path \in Paths, auto \in BOOLEAN :
               Arrives(w, [Idle EXCEPT !.op = "create", !.pc = "ensure", !.todo = path, !.auto = auto])
        BY <2>1 DEF CreateFolder
      <3>2. Asked("create", Root, path, auto)
            = [Idle EXCEPT !.op = "create", !.pc = "ensure", !.todo = path, !.auto = auto]
        <4>1. Idle \in Request /\ Idle.id = Root
          BY IdleIsARequest DEF Idle
        <4> QED BY <4>1 DEF Request
      <3>3. Arrives(w, Asked("create", Root, path, auto))
        BY <3>1, <3>2
      <3> HIDE DEF Asked
      <3> QED BY <3>3
    <2>2. ASSUME NEW op \in {"move", "copy"}, MoveOrCopy(w, op)
          PROVE  \E n \in Ids \cup {Root}, path \in Paths, auto \in BOOLEAN :
                    Arrives(w, Asked(op, n, path, auto))
      BY <2>2 DEF MoveOrCopy, IInv, TypeOK
    <2> HIDE DEF Asked
    <2> QED BY <2>1, <2>2
  <1>5. PICK op \in {"create", "move", "copy"}, n \in Ids \cup {Root}, path \in Paths, auto \in BOOLEAN :
           Arrives(w, Asked(op, n, path, auto))
    BY <1>1
  <1> DEFINE r == Asked(op, n, path, auto)
  <1>2. r \in Request
    BY FileStoreAssumption DEF Idle, Request
  <1>3. AtWork(r)
    BY DEF Idle, AtWork, Receiving, Finishing, Cloning, Trashing
  <1>4. Unchanged(w) /\ req[w] = Idle
    BY <1>5 DEF CreateFolder, MoveOrCopy, Arrives
  <1> QED BY <1>5, <1>2, <1>3, <1>4, RequestGoesOn, FileTreeAssumption DEF Idle

\* ensure_folder: the folder found or made is where the path goes on.
LEMMA EnsureFolderKeeps ==
    ASSUME IInv, OneAtATime, NEW w \in Workers, EnsureFolder(w)
    PROVE  IInv'
  <1> DEFINE r == req[w]
             found == FindChild(node, r.parent, Head(r.todo))
  <1>1. r \in Request /\ AtWork(r) /\ r.pc = "ensure" /\ Len(r.todo) > 1 /\ r.todo \in Seq(Names)
    BY DEF IInv, TypeOK, EnsureFolder, Request
  <1>2. ASSUME NEW n \in Ids PROVE [r EXCEPT !.parent = n, !.todo = Tail(r.todo)] \in Request
    <2>1. Tail(r.todo) \in Seq(Names)
      BY <1>1
    <2> QED BY <1>1, <2>1 DEF Request
  <1>3. ASSUME NEW n \in Ids PROVE AtWork([r EXCEPT !.parent = n, !.todo = Tail(r.todo)])
    BY <1>1 DEF AtWork, Receiving, Finishing, Cloning, Trashing, Request
  <1>4. r.orphans = {} /\ r.doomed = NoInner
    BY <1>1 DEF AtWork, Trashing
  <1>5. CASE Inserts(w, FolderRow(r.parent, Head(r.todo)), None,
                     [r EXCEPT !.parent = NewId(node), !.todo = Tail(r.todo)])
    <2>1. Whole(FolderRow(r.parent, Head(r.todo)))
      BY <1>1, NamesAreTyped DEF Whole, FolderRow, FileNode, Request
    <2>2. CASE Clashes(node, r.parent, Head(r.todo), {})
      BY <1>5, <2>2, <1>1, FailedRequest DEF Inserts, FolderRow
    <2>3. CASE ~Clashes(node, r.parent, Head(r.todo), {})
      <3>1. NewId(node) \in Ids
        BY <1>5, <2>3 DEF Inserts, Room, FolderRow
      <3> DEFINE next == [r EXCEPT !.parent = NewId(node), !.todo = Tail(r.todo)]
      <3>2. next \in Request /\ AtWork(next)
        BY <3>1, <1>2, <1>3
      <3>3. next.pc = "ensure" /\ next.orphans = {} /\ next.doomed = NoInner /\ next.op = r.op
        BY <1>1, <1>4 DEF Request
      <3>4. [next EXCEPT !.pc = "ensure"] = next
        BY <3>2, <3>3 DEF Request
      <3> HIDE DEF next
      <3>5. next.op = "finish" => Finishing([next EXCEPT !.pc = "ensure"])
        BY <3>2, <3>4 DEF AtWork
      <3>6. Inserts(w, FolderRow(r.parent, Head(r.todo)), None, next)
        BY <1>5 DEF next
      <3> QED BY <1>1, <2>1, <3>2, <3>3, <3>5, <3>6, RowInserted
    <2> QED BY <2>2, <2>3
  <1>6. ASSUME NEW n \in found, GoesOn(w, [r EXCEPT !.parent = n, !.todo = Tail(r.todo)]), Unchanged(w)
        PROVE  IInv'
    <2>1. n \in Ids
      BY <1>6 DEF FindChild, IInv, TypeOK
    <2> QED BY <1>2, <1>3, <1>4, <1>6, <2>1, RequestGoesOn, FileTreeAssumption
  <1>7. CASE Fails(w)
    BY <1>7, <1>1, FailedRequest
  <1> QED BY <1>5, <1>6, <1>7 DEF EnsureFolder

\* create_folder's last name.
LEMMA MakeFolderKeeps ==
    ASSUME IInv, OneAtATime, NEW w \in Workers, MakeFolder(w)
    PROVE  IInv'
  <1> DEFINE r == req[w]
  <1>1. r \in Request /\ r.pc = "ensure" /\ Len(r.todo) = 1 /\ r.todo \in Seq(Names)
    BY DEF IInv, TypeOK, MakeFolder, AtLeaf, Request
  <1>2. CASE Fails(w)
    BY <1>1, <1>2, FailedRequest
  <1>3. CASE \E name \in TargetNames(r) : Inserts(w, FolderRow(r.parent, name), "create", Idle)
    <2>1. PICK name \in TargetNames(r) : Inserts(w, FolderRow(r.parent, name), "create", Idle)
      BY <1>3
    <2>2. name \in Seq(Bases \cup Nat)
      BY <1>1, NamesAreTyped
    <2>3. Whole(FolderRow(r.parent, name))
      BY <1>1, <2>2 DEF Whole, FolderRow, FileNode, Request
    <2> QED BY <1>1, <2>1, <2>3, RowInserted, IdleIsARequest DEF Idle
  <1> QED BY <1>2, <1>3 DEF MakeFolder

\* move_node changes a row's place and nothing else of it.
LEMMA MoveNodeKeeps ==
    ASSUME IInv, OneAtATime, NEW w \in Workers, MoveNode(w)
    PROVE  IInv'
  <1> DEFINE r == req[w]
  <1>1. r \in Request /\ AtWork(r) /\ r.pc = "ensure" /\ Len(r.todo) = 1 /\ r.todo \in Seq(Names)
    BY DEF IInv, TypeOK, MoveNode, AtLeaf, Request
  <1>2. CASE Fails(w)
    BY <1>1, <1>2, FailedRequest
  <1>3. ASSUME NEW name \in Seq(Bases \cup Nat), Moved(w, r, name), r.id \in DOMAIN node,
               ~Clashes(node, r.parent, name, {r.id})
        PROVE  IInv'
    <2>1. /\ node' = [node EXCEPT ![r.id].parent = r.parent, ![r.id].name = name]
          /\ appended' = Change("move", r.id) /\ req' = [req EXCEPT ![w] = Idle]
          /\ UNCHANGED <<upload, blob, chunk, link, crashes, requests>>
      BY <1>3 DEF Moved, Ends, GoesOn, disk
    <2>2. req' \in [Workers -> Request] /\ \A v \in Workers : req'[v] = Idle
      BY <2>1, TheOneRequest, IdleIsARequest DEF IInv
    <2>3. DOMAIN node' = DOMAIN node
      BY <2>1
    <2>4. ASSUME NEW n \in DOMAIN node
          PROVE  /\ node'[n] \in FileNode /\ node'[n].folder = node[n].folder
                 /\ node'[n].inner = node[n].inner /\ node'[n].hash = node[n].hash
      <3>1. node[n] \in FileNode /\ r.parent \in Ids \cup {Root}
        BY <1>1 DEF IInv, TypeOK, Request
      <3> QED BY <3>1, <2>1 DEF FileNode
    <2>5. appended' \in ChangeRow
      BY <2>1, <1>3 DEF ChangeRow, ChangeOps, Change, IInv, TypeOK
    <2>6. TypeOK'
      BY <2>1, <2>2, <2>3, <2>4, <2>5 DEF IInv, TypeOK
    <2>11. \A u : Fresh(u)' <=> Fresh(u)
      BY <2>1 DEF Fresh
    <2>7. RowsWhole' /\ UploadsTrue' /\ LinkTrue'
      <3>1. ASSUME NEW n \in DOMAIN node PROVE Whole(node[n])'
        BY <2>1, <2>4, <2>11 DEF IInv, RowsWhole, Whole
      <3>2. UploadsTrue' /\ LinkTrue'
        BY <2>1, <2>11 DEF IInv, UploadsTrue, LinkTrue
      <3> QED BY <2>3, <3>1, <3>2 DEF RowsWhole
    <2>8. \A u : Named(u)' <=> Named(u)
      BY <2>3, <2>4 DEF Named, BlobReferenced
    <2>9. BlobsAccounted'
      <3>1. \A v \in Workers, u \in Inners : u \notin req[v].orphans \cup {req[v].doomed}
        BY <1>1, FileTreeAssumption DEF AtWork, Trashing, OneAtATime
      <3> QED BY <2>1, <2>8, <3>1 DEF IInv, BlobsAccounted, Named
    <2>10. \A v \in Workers : AtWork(req[v])'
      BY <2>2 DEF Idle, AtWork, Receiving, Finishing, Cloning, Trashing
    <2> QED BY <2>6, <2>7, <2>9, <2>10 DEF IInv
  <1>4. CASE ~Fails(w)
    <2>1. PICK name \in TargetNames(r) \cup {Leaf(r)} : Moved(w, r, name)
      BY <1>4 DEF MoveNode
    <2>2. name \in Seq(Bases \cup Nat)
      <3>1. Len(r.todo) >= 1
        BY <1>1
      <3>2. Leaf(r) \in Seq(Bases \cup Nat) /\ TargetNames(r) \subseteq Seq(Bases \cup Nat)
        BY <1>1, <3>1, NamesAreTyped, Zenon
      <3> QED BY <2>1, <3>2
    <2>3. r.id \in DOMAIN node
      BY <1>4 DEF MoveNode
    <2>4. CASE Clashes(node, r.parent, name, {r.id})
      BY <2>1, <2>4, <1>4 DEF Moved
    <2> QED BY <1>3, <2>1, <2>2, <2>3, <2>4
  <1> QED BY <1>2, <1>4

\* copy_node: where the copy goes, then one row read and its clone committed at a time.
LEMMA CopyNodeKeeps ==
    ASSUME IInv, OneAtATime, NEW w \in Workers, CopyNode(w)
    PROVE  IInv'
  <1> DEFINE r == req[w]
             top(name) == [src |-> r.id, parent |-> r.parent, name |-> name, root |-> TRUE]
  <1>1. /\ r \in Request /\ AtWork(r) /\ r.pc = "ensure" /\ r.op = "copy"
        /\ Len(r.todo) = 1 /\ r.todo \in Seq(Names)
    BY DEF IInv, TypeOK, CopyNode, AtLeaf, Request
  <1>2. CASE Fails(w)
    BY <1>1, <1>2, FailedRequest
  <1>3. CASE ~Fails(w)
    <2>1. PICK name \in TargetNames(r) : GoesOn(w, [r EXCEPT !.pc = "clone", !.pairs = {top(name)}])
      BY <1>3 DEF CopyNode
    <2>2. Unchanged(w) /\ r.id \in Ids
      BY <1>3 DEF CopyNode, IInv, TypeOK
    <2>3. top(name) \in Copying
      <3>3. Len(r.todo) >= 1
        BY <1>1
      <3>1. TargetNames(r) \subseteq Seq(Bases \cup Nat)
        BY <1>1, <3>3, NamesAreTyped, Zenon
      <3>2. name \in Seq(Bases \cup Nat) /\ r.parent \in Ids \cup {Root}
        BY <2>1, <3>1, <1>1 DEF Request
      <3> QED BY <2>2, <3>2 DEF Copying
    <2> DEFINE next == [r EXCEPT !.pc = "clone", !.pairs = {top(name)}]
    <2>4. next \in Request
      BY <1>1, <2>3 DEF Request
    <2>5. AtWork(next)
      BY <1>1 DEF AtWork, Receiving, Finishing, Cloning, Trashing, Request
    <2>6. r.orphans = {} /\ r.doomed \notin Inners
      BY <1>1, FileTreeAssumption DEF AtWork, Trashing
    <2> QED BY <2>1, <2>2, <2>4, <2>5, <2>6, RequestGoesOn
  <1> QED BY <1>2, <1>3

\* The row that is going to be cloned is taken down as it stands.
LEMMA CloneReadKeeps ==
    ASSUME IInv, OneAtATime, NEW w \in Workers, CloneRead(w)
    PROVE  IInv'
  <1> DEFINE r == req[w]
  <1>1. r \in Request /\ AtWork(r) /\ r.pc = "clone"
    BY DEF IInv, TypeOK, CloneRead
  <1>2. CASE Fails(w)
    BY <1>1, <1>2, FailedRequest
  <1>3. CASE ~Fails(w)
    <2> DEFINE clone(p) == [node[p.src] EXCEPT !.parent = p.parent, !.name = p.name]
               next(p) == [r EXCEPT !.pc = "insert", !.pair = p, !.pairs = @ \ {p}, !.row = clone(p)]
    <2>1. PICK p \in r.pairs : p.src \in DOMAIN node /\ GoesOn(w, next(p)) /\ Unchanged(w)
      BY <1>3 DEF CloneRead
    <2>2. p \in Copying
      BY <1>1 DEF Request
    <2>3. Whole(clone(p))
      <3>1. Whole(node[p.src]) /\ node[p.src] \in FileNode
        BY <2>1 DEF IInv, RowsWhole, Whole
      <3>2. clone(p) \in FileNode
        BY <3>1, <2>2 DEF FileNode, Copying
      <3>3. /\ clone(p).folder = node[p.src].folder /\ clone(p).inner = node[p.src].inner
            /\ clone(p).hash = node[p.src].hash
        BY <3>1 DEF FileNode
      <3> HIDE DEF clone
      <3> QED BY <3>1, <3>2, <3>3 DEF Whole
    <2>4. clone(p) \in FileNode
      BY <2>3 DEF Whole
    <2> HIDE DEF clone
    <2>5. next(p) \in Request
      BY <1>1, <2>2, <2>4 DEF Request
    <2>6. AtWork(next(p))
      <3>1. /\ next(p).pc = "insert" /\ next(p).pair = p /\ next(p).row = clone(p) /\ next(p).op = r.op
            /\ next(p).orphans = r.orphans /\ next(p).doomed = r.doomed
        BY <1>1 DEF Request
      <3>2. clone(p).folder = node[p.src].folder /\ clone(p).hash = node[p.src].hash
        <4>1. node[p.src] \in FileNode
          BY <2>1 DEF IInv, TypeOK
        <4> QED BY <4>1 DEF clone, FileNode
      <3> HIDE DEF next
      <3> QED BY <1>1, <2>1, <2>2, <2>3, <3>1, <3>2 DEF AtWork, Receiving, Finishing, Cloning, Trashing
    <2>7. r.orphans = {} /\ r.doomed \notin Inners
      BY <1>1, FileTreeAssumption DEF AtWork, Trashing
    <2> QED BY <2>1, <2>5, <2>6, <2>7, RequestGoesOn
  <1> QED BY <1>2, <1>3

\* A clone shares its source's blob, which is there because the source still is.
LEMMA CloneCommitKeeps ==
    ASSUME IInv, OneAtATime, NEW w \in Workers, CloneCommit(w)
    PROVE  IInv'
  <1> DEFINE r == req[w]
             below == {[src |-> n, parent |-> NewId(node), name |-> node[n].name, root |-> FALSE] :
                         n \in Children(node, r.pair.src)}
             left == r.pairs \cup below
             goesOn == [r EXCEPT !.pc = "clone", !.pairs = left, !.pair = None, !.row = None]
             next == IF left = {} THEN Idle ELSE goesOn
             op == IF r.pair.root THEN "copy" ELSE None
  <1>1. /\ r \in Request /\ AtWork(r) /\ r.pc = "insert" /\ r.op = "copy"
        /\ r.pair \in Copying /\ Whole(r.row) /\ r.orphans = {} /\ r.doomed = NoInner
    BY DEF IInv, TypeOK, CloneCommit, AtWork, Cloning, Trashing
  <1>2. Inserts(w, r.row, op, next)
    BY DEF CloneCommit
  <1>3. CASE Clashes(node, r.row.parent, r.row.name, {})
    BY <1>1, <1>2, <1>3, FailedRequest DEF Inserts
  <1>4. CASE ~Clashes(node, r.row.parent, r.row.name, {})
    <2>1. NewId(node) \in Ids
      BY <1>2, <1>4 DEF Inserts, Room
    <2>2. ASSUME NEW n \in Children(node, r.pair.src)
          PROVE  [src |-> n, parent |-> NewId(node), name |-> node[n].name, root |-> FALSE] \in Copying
      <3>1. n \in DOMAIN node /\ n \in Ids /\ node[n] \in FileNode
        BY DEF Children, IInv, TypeOK
      <3> QED BY <2>1, <3>1 DEF Copying, FileNode
    <2>3. below \subseteq Copying
      BY <2>2
    <2> HIDE DEF below
    <2>4. goesOn \in Request
      BY <1>1, <2>3 DEF Request
    <2>5. goesOn.pc = "clone" /\ goesOn.op = "copy" /\ goesOn.orphans = {} /\ goesOn.doomed = NoInner
      BY <1>1 DEF Request
    <2> HIDE DEF goesOn
    <2>6. /\ next \in Request /\ next.orphans = {} /\ next.doomed = NoInner
          /\ next.pc \in {"idle", "clone"} /\ (next.pc = "clone" => next.op = "copy")
          /\ next.op # "finish"
      <3>1. /\ Idle.pc = "idle" /\ Idle.orphans = {} /\ Idle.doomed = NoInner /\ Idle.op = "none"
        BY DEF Idle
      <3> QED BY <2>4, <2>5, <3>1, IdleIsARequest
    <2>7. op \in {None, "create", "copy"}
      OBVIOUS
    <2> HIDE DEF next, op
    <2> QED BY <1>1, <1>2, <2>6, <2>7, RowInserted
  <1> QED BY <1>3, <1>4

\* delete_node: what loses its last row is an orphan of the request.
LEMMA DeleteNodeKeeps ==
    ASSUME IInv, OneAtATime, NEW w \in Workers, DeleteNode(w)
    PROVE  IInv'
  <1>1. PICK n \in DOMAIN node :
          LET doomed == Subtree(node, n) IN
          /\ Arrives(w, [Idle EXCEPT !.op = "delete", !.pc = "trash",
                                     !.orphans = {node[m].inner : m \in doomed \cap Files(node)}])
          /\ node' = Without(node, doomed)
          /\ appended' = Change("delete", n)
    BY DEF DeleteNode
  <1> DEFINE S == Subtree(node, n)
             files == {node[m].inner : m \in S \cap Files(node)}
  <1>15. files \subseteq Inners /\ \A u \in files : ~Fresh(u)
    BY DEF Files, IInv, RowsWhole, Whole
  <1>16. PICK orphans \in SUBSET Inners : orphans = files
    BY <1>15
  <1> DEFINE r == [Idle EXCEPT !.op = "delete", !.pc = "trash", !.orphans = orphans]
  <1>2. UNCHANGED <<upload, blob, chunk, link, crashes>> /\ req[w] = Idle /\ requests' \in 0..MaxRequests
    BY <1>1, FileStoreAssumption DEF DeleteNode, disk, Arrives, IInv, TypeOK
  <1>3. \A u \in orphans : u \in Inners /\ ~Fresh(u)
    BY <1>15, <1>16
  <1>4. DOMAIN node' = DOMAIN node \ S /\ \A m \in DOMAIN node' : node'[m] = node[m]
    BY <1>1 DEF Without
  <1>5. ASSUME NEW u \in Inners, Named(u) PROVE Named(u)' \/ u \in orphans
    <2>1. PICK m \in DOMAIN node : node[m].inner = u
      BY <1>5 DEF Named, BlobReferenced
    <2>2. m \in Files(node)
      BY <2>1, FileTreeAssumption DEF Files, IInv, RowsWhole, Whole
    <2> QED BY <1>4, <1>16, <2>1, <2>2 DEF Named, BlobReferenced
  <1>6. req' = [req EXCEPT ![w] = r]
    BY <1>1, <1>16 DEF Arrives
  <1>10. appended' \in ChangeRow
    BY <1>1 DEF ChangeRow, ChangeOps, Change, IInv, TypeOK
  <1> HIDE DEF S, files
  <1>7. r \in Request
    BY IdleIsARequest DEF Request
  <1>8. r.op = "delete" /\ r.pc = "trash" /\ r.orphans = orphans /\ r.doomed = NoInner
    BY DEF Idle
  <1> HIDE DEF r
  <1>9. req' \in [Workers -> Request] /\ \A v \in Workers : req'[v] = r
    BY <1>6, <1>7, TheOneRequest DEF IInv
  <1>11. TypeOK'
    BY <1>2, <1>4, <1>9, <1>10 DEF IInv, TypeOK
  <1>12. RowsWhole' /\ UploadsTrue' /\ LinkTrue'
    BY <1>2, <1>4 DEF IInv, RowsWhole, UploadsTrue, LinkTrue, Whole, Fresh
  <1>13. AtWork(r)'
    <2>1. \A u \in r.orphans : u \in Inners /\ ~Fresh(u)'
      BY <1>2, <1>3, <1>8 DEF Fresh
    <2>2. Receiving(r)' /\ Finishing(r)' /\ Cloning(r)'
      BY <1>8 DEF Receiving, Finishing, Cloning
    <2> QED BY <1>8, <2>1, <2>2 DEF AtWork, Trashing
  <1>14. BlobsAccounted'
    <2> SUFFICES ASSUME crashes = 0, NEW u \in Inners,
                        blob[u] # None, ~Named(u)', upload[u].status \notin {"pending", "completed"}
                 PROVE  u \in orphans
      BY <1>2, <1>8, <1>9 DEF BlobsAccounted, Named
    <2>1. \A v \in Workers : req[v] = Idle
      BY <1>2 DEF OneAtATime
    <2>2. \A v \in Workers : u \notin req[v].orphans \cup {req[v].doomed}
      BY <2>1, FileTreeAssumption DEF Idle
    <2>3. Named(u)
      BY <2>2 DEF IInv, BlobsAccounted, Named
    <2> QED BY <2>3, <1>5
  <1> QED BY <1>9, <1>11, <1>12, <1>13, <1>14 DEF IInv

\* blob_referenced is asked of each orphan, and the blob nobody refers to goes to the trash.
LEMMA CheckOrphanKeeps ==
    ASSUME IInv, OneAtATime, NEW w \in Workers, CheckOrphan(w)
    PROVE  IInv'
  <1> DEFINE r == req[w]
  <1>1. r \in Request /\ AtWork(r) /\ r.pc = "trash" /\ Unchanged(w) /\ r.doomed = NoInner
    BY DEF IInv, TypeOK, CheckOrphan, AtWork, Trashing
  <1>2. PICK u \in r.orphans :
          IF BlobReferenced(node, u)
          THEN GoesOn(w, [r EXCEPT !.orphans = @ \ {u}])
          ELSE GoesOn(w, [r EXCEPT !.orphans = @ \ {u}, !.pc = "doomed", !.doomed = u])
    BY DEF CheckOrphan
  <1>3. u \in Inners /\ ~Fresh(u) /\ r.op \in {"finish", "delete"}
    BY <1>1 DEF AtWork, Trashing
  <1>4. CASE BlobReferenced(node, u)
    <2> DEFINE next == [r EXCEPT !.orphans = @ \ {u}]
    <2>1. next \in Request
      BY <1>1 DEF Request
    <2>2. /\ next.orphans = r.orphans \ {u} /\ next.doomed = r.doomed /\ next.pc = r.pc /\ next.op = r.op
          /\ next.up = r.up /\ next.bytes = r.bytes /\ next.pair = r.pair /\ next.row = r.row
      BY <1>1 DEF Request
    <2>5. GoesOn(w, next)
      BY <1>2, <1>4
    <2> HIDE DEF next
    <2>3. AtWork(next)
      BY <1>1, <2>2 DEF AtWork, Receiving, Finishing, Cloning, Trashing
    <2>4. \A v \in r.orphans \cup {r.doomed} :
             v \in next.orphans \cup {next.doomed} \/ v \notin Inners \/ Named(v)
      BY <1>4, <2>2 DEF Named
    <2> QED BY <1>1, <2>1, <2>3, <2>4, <2>5, RequestGoesOn
  <1>5. CASE ~BlobReferenced(node, u)
    <2> DEFINE next == [r EXCEPT !.orphans = @ \ {u}, !.pc = "doomed", !.doomed = u]
    <2>1. next \in Request
      BY <1>1, <1>3 DEF Request
    <2>2. /\ next.orphans = r.orphans \ {u} /\ next.doomed = u /\ next.pc = "doomed" /\ next.op = r.op
          /\ next.up = r.up
      BY <1>1 DEF Request
    <2>5. GoesOn(w, next)
      BY <1>2, <1>5
    <2> HIDE DEF next
    <2>3. AtWork(next)
      BY <1>1, <1>3, <1>5, <2>2 DEF AtWork, Receiving, Finishing, Cloning, Trashing, Named
    <2>4. \A v \in r.orphans \cup {r.doomed} :
             v \in next.orphans \cup {next.doomed} \/ v \notin Inners \/ Named(v)
      BY <1>1, <2>2, FileTreeAssumption
    <2> QED BY <1>1, <2>1, <2>3, <2>4, <2>5, RequestGoesOn
  <1> QED BY <1>4, <1>5

\* The blob that goes is named by no row and is not to be finished by anybody.
LEMMA TrashBlobKeeps ==
    ASSUME IInv, OneAtATime, NEW w \in Workers, TrashBlob(w)
    PROVE  IInv'
  <1>1. PICK r \in Request : r = req[w]
    BY DEF IInv, TypeOK
  <1>2. AtWork(r) /\ r.pc = "doomed" /\ r.doomed \in Inners /\ ~Named(r.doomed) /\ ~Fresh(r.doomed)
    BY <1>1 DEF IInv, TrashBlob, AtWork, Trashing
  <1> DEFINE next == [r EXCEPT !.pc = "trash", !.doomed = NoInner]
  <1>3. /\ blob' = [blob EXCEPT ![r.doomed] = None] /\ req' = [req EXCEPT ![w] = next]
        /\ appended' = None /\ UNCHANGED <<node, upload, chunk, link, crashes, requests>>
    BY <1>1 DEF TrashBlob, GoesOn
  <1>4. next \in Request
    BY DEF Request
  <1>5. /\ next.orphans = r.orphans /\ next.doomed = NoInner /\ next.pc = "trash" /\ next.op = r.op
        /\ next.up = r.up
    BY DEF Request
  <1> HIDE DEF next
  <1>6. req' \in [Workers -> Request] /\ \A v \in Workers : req'[v] = next
    BY <1>3, <1>4, TheOneRequest DEF IInv
  <1>7. /\ blob'[r.doomed] = None /\ blob' \in [Inners -> Bytes \cup {None}]
        /\ \A u \in Inners \ {r.doomed} : blob'[u] = blob[u]
    BY <1>2, <1>3 DEF IInv, TypeOK
  <1>8. TypeOK'
    BY <1>3, <1>6, <1>7 DEF IInv, TypeOK
  <1>9. RowsWhole'
    <2> SUFFICES ASSUME NEW n \in DOMAIN node PROVE Whole(node[n])'
      BY <1>3 DEF RowsWhole
    <2>1. Whole(node[n]) /\ node[n].inner # r.doomed
      BY <1>2 DEF IInv, RowsWhole, Named, BlobReferenced
    <2> QED BY <2>1, <1>3, <1>7 DEF Whole, Fresh
  <1>10. UploadsTrue'
    <2> SUFFICES ASSUME NEW u \in Inners PROVE
              /\ upload[u].status = "none" => blob'[u] = None
              /\ upload[u].status = "completed" =>
                    /\ upload[u].md5 \in Bytes /\ upload[u].counted <= Capacity
                    /\ ~upload[u].begun => blob'[u] = upload[u].md5
      BY <1>3 DEF UploadsTrue
    <2> QED BY <1>2, <1>7 DEF IInv, UploadsTrue, Fresh
  <1>11. LinkTrue'
    BY <1>3, <1>7 DEF IInv, LinkTrue, Fresh
  <1>12. BlobsAccounted'
    <2> SUFFICES ASSUME crashes = 0, NEW u \in Inners,
                        blob'[u] # None, ~Named(u), upload[u].status \notin {"pending", "completed"}
                 PROVE  \E v \in Workers : u \in next.orphans \cup {next.doomed}
      BY <1>3, <1>6 DEF BlobsAccounted, Named
    <2>1. u # r.doomed
      BY <1>7
    <2>2. PICK v \in Workers : u \in req[v].orphans \cup {req[v].doomed}
      BY <2>1, <1>7 DEF IInv, BlobsAccounted, Named
    <2>3. req[v] = r
      BY <1>1 DEF OneAtATime
    <2> QED BY <2>1, <2>2, <2>3, <1>5
  <1>13. AtWork(next)'
    <2>1. Receiving(next)' /\ Cloning(next)'
      BY <1>5 DEF Receiving, Cloning
    <2>2. Finishing(next)'
      BY <1>2, <1>3, <1>5 DEF AtWork, Finishing, Named
    <2>3. Trashing(next)'
      BY <1>2, <1>3, <1>5 DEF AtWork, Trashing, Fresh
    <2> QED BY <2>1, <2>2, <2>3 DEF AtWork
  <1> QED BY <1>6, <1>8, <1>9, <1>10, <1>11, <1>12, <1>13 DEF IInv

\* A delete ends when every blob it orphaned has been looked at.
LEMMA DeleteEndsKeeps ==
    ASSUME IInv, OneAtATime, NEW w \in Workers, DeleteEnds(w)
    PROVE  IInv'
  <1>1. AtWork(req[w]) /\ req[w].pc = "trash" /\ req[w].orphans = {} /\ Fails(w)
    BY DEF IInv, DeleteEnds
  <1>2. req[w].doomed \notin Inners
    BY <1>1, FileTreeAssumption DEF AtWork, Trashing
  <1> QED BY <1>1, <1>2, RequestGoesOn, IdleIsARequest DEF Fails, Ends

------------------------------------------------------------------------------
(* Uploads *)

\* A commit to one row of upload_session: an upload is not fresh again once it was not.
LEMMA SessionCommitted ==
    ASSUME IInv, OneAtATime, NEW w \in Workers, NEW u \in Inners, NEW s \in UploadSession,
           upload' = [upload EXCEPT ![u] = s], UNCHANGED <<node, blob, link, crashes>>,
           appended' = None, chunk' \in [UploadIds -> [Parts -> Contents \cup {None}]],
           req[w].orphans = {}, req[w].doomed = NoInner,
           s.status \in {"pending", "completed", "gone"},
           s.status = "gone" => Named(u) /\ ~Fresh(u),
           s.status = "pending" => Fresh(u),
           s.status = "completed" => /\ s.md5 \in Bytes /\ s.counted <= Capacity
                                     /\ s.begun \/ (Fresh(u) /\ blob[u] = s.md5),
           NEW r \in Request, req' = [req EXCEPT ![w] = r], AtWork(r)', requests' \in 0..MaxRequests
    PROVE  IInv'
  <1>1. req' \in [Workers -> Request] /\ \A v \in Workers : req'[v] = r
    BY TheOneRequest DEF IInv
  <1>2. /\ upload' \in [Inners -> UploadSession] /\ upload'[u] = s
        /\ \A v \in Inners \ {u} : upload'[v] = upload[v]
    BY DEF IInv, TypeOK
  <1>3. TypeOK'
    BY <1>1, <1>2 DEF IInv, TypeOK
  <1>4. \A v \in Inners : Fresh(v)' => Fresh(v)
    BY <1>2 DEF Fresh
  <1>5. RowsWhole'
    <2> SUFFICES ASSUME NEW n \in DOMAIN node PROVE Whole(node[n])'
      BY DEF RowsWhole
    <2>1. Whole(node[n])
      BY DEF IInv, RowsWhole
    <2> QED BY <2>1, <1>4 DEF Whole
  <1>6. UploadsTrue'
    BY <1>2 DEF IInv, UploadsTrue
  <1>7. LinkTrue'
    BY <1>4 DEF IInv, LinkTrue
  <1>8. BlobsAccounted'
    <2> SUFFICES ASSUME crashes = 0, NEW v \in Inners,
                        blob[v] # None, ~Named(v), upload'[v].status \notin {"pending", "completed"}
                 PROVE  FALSE
      BY DEF BlobsAccounted, Named
    <2>1. v # u /\ upload[v].status \notin {"pending", "completed"}
      BY <1>2
    <2>2. PICK x \in Workers : v \in req[x].orphans \cup {req[x].doomed}
      BY <2>1 DEF IInv, BlobsAccounted, Named
    <2>3. x = w
      BY DEF OneAtATime
    <2> QED BY <2>2, <2>3, FileTreeAssumption
  <1> QED BY <1>1, <1>3, <1>5, <1>6, <1>7, <1>8 DEF IInv

\* apply: a new session, and no bytes yet.
LEMMA ApplyKeeps ==
    ASSUME IInv, OneAtATime, NEW w \in Workers, Apply(w)
    PROVE  IInv'
  <1>1. PICK u \in Inners : /\ upload[u].status = "none"
                            /\ upload' = [upload EXCEPT ![u].status = "pending"]
    BY DEF Apply
  <1>2. PICK s \in UploadSession : s = [upload[u] EXCEPT !.status = "pending"]
    BY DEF IInv, TypeOK, UploadSession
  <1>3. s.status = "pending"
    BY <1>2 DEF IInv, TypeOK, UploadSession
  <1>4. /\ req[w] = Idle /\ req' = [req EXCEPT ![w] = Idle] /\ requests' \in 0..MaxRequests
        /\ appended' = None /\ UNCHANGED <<node, blob, chunk, link, crashes>>
    BY DEF Apply, IInv, TypeOK
  <1>5. AtWork(Idle)'
    BY DEF Idle, AtWork, Receiving, Finishing, Cloning, Trashing
  <1>6. chunk' \in [UploadIds -> [Parts -> Contents \cup {None}]]
    BY <1>4 DEF IInv, TypeOK
  <1>7. Idle.orphans = {} /\ Idle.doomed = NoInner
    BY DEF Idle
  <1>8. upload' = [upload EXCEPT ![u] = s] /\ Fresh(u)
    BY <1>1, <1>2 DEF Fresh
  <1> QED BY <1>3, <1>4, <1>5, <1>6, <1>7, <1>8, SessionCommitted, IdleIsARequest

\* A PUT whose declared size fits the quota goes on to write.
LEMMA ReceiveFullKeeps ==
    ASSUME IInv, OneAtATime, NEW w \in Workers, ReceiveFull(w)
    PROVE  IInv'
  <1>1. PICK u \in Inners, c \in Contents, declared \in 0..1 :
          /\ upload[u].status = "pending" /\ QuotaLeft(declared)
          /\ Arrives(w, [Idle EXCEPT !.op = "put", !.pc = "write", !.up = u, !.bytes = c])
          /\ upload' = [upload EXCEPT ![u].counted = UsedBytes(node) + declared]
    BY DEF ReceiveFull
  <1> DEFINE r == [Idle EXCEPT !.op = "put", !.pc = "write", !.up = u, !.bytes = c]
  <1>2. UsedBytes(node) \in Nat /\ UsedBytes(node) + declared <= Capacity
    BY <1>1, UsedIsNat DEF QuotaLeft, IInv
  <1>3. PICK s \in UploadSession : s = [upload[u] EXCEPT !.counted = UsedBytes(node) + declared]
    <2>1. upload[u] \in UploadSession
      BY DEF IInv, TypeOK
    <2>2. PICK x \in Nat : x = UsedBytes(node) + declared
      BY <1>2
    <2>3. [upload[u] EXCEPT !.counted = x] \in UploadSession
      BY <2>1 DEF UploadSession
    <2> QED BY <2>2, <2>3
  <1>4. s.status = "pending" /\ s.counted <= Capacity
    BY <1>1, <1>2, <1>3 DEF IInv, TypeOK, UploadSession
  <1>5. /\ req[w] = Idle /\ req' = [req EXCEPT ![w] = r] /\ requests' \in 0..MaxRequests
        /\ appended' = None /\ UNCHANGED <<node, blob, chunk, link, crashes>>
    <2>1. appended' = None /\ UNCHANGED <<node, blob, chunk, link, crashes>>
      BY DEF ReceiveFull
    <2>2. req[w] = Idle /\ req' = [req EXCEPT ![w] = r]
      BY <1>1 DEF Arrives
    <2>3. requests < MaxRequests /\ requests' = requests + 1
      BY <1>1 DEF Arrives
    <2>4. requests' \in 0..MaxRequests
      BY <2>3, FileStoreAssumption DEF IInv, TypeOK
    <2> QED BY <2>1, <2>2, <2>4
  <1>6. r \in Request
    BY IdleIsARequest DEF Request, Bytes
  <1>7. /\ r.op = "put" /\ r.pc = "write" /\ r.up = u /\ r.bytes = c
        /\ r.orphans = {} /\ r.doomed = NoInner
    BY DEF Idle
  <1> HIDE DEF r
  <1>8. upload' = [upload EXCEPT ![u] = s] /\ Fresh(u) /\ upload'[u] = s
    BY <1>1, <1>3 DEF Fresh, IInv, TypeOK
  <1>9. AtWork(r)'
    BY <1>4, <1>7, <1>8 DEF AtWork, Receiving, Finishing, Cloning, Trashing, Bytes
  <1>10. chunk' \in [UploadIds -> [Parts -> Contents \cup {None}]]
    BY <1>5 DEF IInv, TypeOK
  <1>11. req[w].orphans = {} /\ req[w].doomed = NoInner
    BY <1>5 DEF Idle
  <1> QED BY <1>4, <1>5, <1>6, <1>8, <1>9, <1>10, <1>11, SessionCommitted

\* A part: with the last one the request goes on to assemble them, if the quota allows.
LEMMA ReceivePartKeeps ==
    ASSUME IInv, OneAtATime, NEW w \in Workers, ReceivePart(w)
    PROVE  IInv'
  <1>1. PICK u \in Inners, k \in UploadIds, i \in Parts, c \in Contents :
          LET stored == [chunk[k] EXCEPT ![i] = c]
              next == [Idle EXCEPT !.op = "part", !.pc = "write", !.up = u, !.bytes = Assembled(stored)]
              complete == \A j \in Parts : stored[j] # None
          IN  /\ upload[u].status = "pending" /\ upload[u].id \in {None, k}
              /\ upload' = [upload EXCEPT ![u].id = k,
                                          ![u].counted = IF complete THEN UsedBytes(node) + 1 ELSE @]
              /\ chunk' = [chunk EXCEPT ![k] = stored]
              /\ Arrives(w, IF complete /\ QuotaLeft(1) THEN next ELSE Idle)
    BY Zenon DEF ReceivePart
  <1> DEFINE stored == [chunk[k] EXCEPT ![i] = c]
             complete == \A j \in Parts : stored[j] # None
  <1>2. UsedBytes(node) \in Nat
    BY UsedIsNat DEF IInv
  <1>3. PICK s \in UploadSession :
           s = [upload[u] EXCEPT !.id = k,
                                 !.counted = IF complete THEN UsedBytes(node) + 1 ELSE @]
    <2>1. upload[u] \in UploadSession
      BY DEF IInv, TypeOK
    <2> HIDE DEF complete
    <2>2. PICK x \in Nat : x = IF complete THEN UsedBytes(node) + 1 ELSE upload[u].counted
      BY <1>2, <2>1 DEF UploadSession
    <2>3. [upload[u] EXCEPT !.id = k, !.counted = x] \in UploadSession
      BY <2>1 DEF UploadSession
    <2> QED BY <2>2, <2>3
  <1>4. s.status = "pending" /\ (complete => s.counted = UsedBytes(node) + 1)
    <2>1. upload[u].status = "pending" /\ upload[u] \in UploadSession
      BY <1>1 DEF IInv, TypeOK
    <2> HIDE DEF complete
    <2> QED BY <1>3, <2>1 DEF UploadSession
  <1>5. stored \in [Parts -> Contents \cup {None}]
    BY DEF IInv, TypeOK
  <1>6. chunk' \in [UploadIds -> [Parts -> Contents \cup {None}]]
    BY <1>1, <1>5 DEF IInv, TypeOK
  <1>7. /\ req[w] = Idle /\ requests' \in 0..MaxRequests
        /\ appended' = None /\ UNCHANGED <<node, blob, link, crashes>>
    <2>1. appended' = None /\ UNCHANGED <<node, blob, link, crashes>>
      BY DEF ReceivePart
    <2>2. req[w] = Idle /\ requests < MaxRequests /\ requests' = requests + 1
      BY <1>1 DEF Arrives
    <2>3. requests' \in 0..MaxRequests
      BY <2>2, FileStoreAssumption DEF IInv, TypeOK
    <2> QED BY <2>1, <2>2, <2>3
  <1>8. upload' = [upload EXCEPT ![u] = s] /\ Fresh(u) /\ upload'[u] = s
    BY <1>1, <1>3 DEF Fresh, IInv, TypeOK
  <1>11. req[w].orphans = {} /\ req[w].doomed = NoInner
    BY <1>7 DEF Idle
  <1>12. CASE (\A j \in Parts : stored[j] # None) /\ QuotaLeft(1)
    <2>1. PICK b \in Bytes : b = Assembled(stored)
      BY <1>5, <1>12 DEF Assembled, Bytes, Parts
    <2> DEFINE r == [Idle EXCEPT !.op = "part", !.pc = "write", !.up = u, !.bytes = b]
    <2>2. req' = [req EXCEPT ![w] = r]
      BY <1>1, <1>12, <2>1 DEF Arrives
    <2>3. r \in Request
      BY IdleIsARequest DEF Request
    <2>4. /\ r.op = "part" /\ r.pc = "write" /\ r.up = u /\ r.bytes = b
          /\ r.orphans = {} /\ r.doomed = NoInner
      BY DEF Idle
    <2> HIDE DEF r
    <2>5. s.counted <= Capacity
      BY <1>4, <1>12 DEF QuotaLeft
    <2>6. AtWork(r)'
      BY <1>4, <1>8, <2>4, <2>5 DEF AtWork, Receiving, Finishing, Cloning, Trashing
    <2> QED BY <1>4, <1>6, <1>7, <1>8, <1>11, <2>2, <2>3, <2>6, SessionCommitted
  <1>13. CASE ~((\A j \in Parts : stored[j] # None) /\ QuotaLeft(1))
    <2>1. req' = [req EXCEPT ![w] = Idle]
      BY <1>1, <1>13 DEF Arrives
    <2>2. AtWork(Idle)'
      BY DEF Idle, AtWork, Receiving, Finishing, Cloning, Trashing
    <2> QED BY <1>4, <1>6, <1>7, <1>8, <1>11, <2>1, <2>2, IdleIsARequest, SessionCommitted
  <1> QED BY <1>12, <1>13

\* write_stream: the blob written is nobody's yet.
LEMMA WriteStreamKeeps ==
    ASSUME IInv, OneAtATime, NEW w \in Workers, WriteStream(w)
    PROVE  IInv'
  <1>1. PICK r \in Request : r = req[w]
    BY DEF IInv, TypeOK
  <1>2. AtWork(r) /\ r.pc = "write"
    BY <1>1 DEF IInv, WriteStream
  <1>3. /\ r.op \in {"put", "part"} /\ r.up \in Inners /\ r.bytes \in Bytes
        /\ upload[r.up].status = "pending" /\ upload[r.up].counted <= Capacity
        /\ r.orphans = {} /\ r.doomed = NoInner
    BY <1>2 DEF AtWork, Receiving, Trashing
  <1> DEFINE next == [r EXCEPT !.pc = "complete"]
  <1>4. /\ blob' = [blob EXCEPT ![r.up] = r.bytes] /\ req' = [req EXCEPT ![w] = next]
        /\ appended' = None /\ UNCHANGED <<node, upload, link, crashes, requests>>
    BY <1>1 DEF WriteStream, GoesOn
  <1>5. chunk' \in [UploadIds -> [Parts -> Contents \cup {None}]]
    <2>1. [i \in Parts |-> None] \in [Parts -> Contents \cup {None}]
      OBVIOUS
    <2>2. chunk' = chunk \/ chunk' = [chunk EXCEPT ![upload[r.up].id] = [i \in Parts |-> None]]
      BY <1>1 DEF WriteStream
    <2> QED BY <2>1, <2>2 DEF IInv, TypeOK
  <1>6. next \in Request
    BY DEF Request
  <1>7. /\ next.orphans = {} /\ next.doomed = NoInner /\ next.pc = "complete" /\ next.op = r.op
        /\ next.up = r.up /\ next.bytes = r.bytes
    BY <1>3 DEF Request
  <1> HIDE DEF next
  <1>8. req' \in [Workers -> Request] /\ \A v \in Workers : req'[v] = next
    BY <1>4, <1>6, TheOneRequest DEF IInv
  <1>9. /\ blob'[r.up] = r.bytes /\ blob' \in [Inners -> Bytes \cup {None}]
        /\ \A u \in Inners \ {r.up} : blob'[u] = blob[u]
    BY <1>3, <1>4 DEF IInv, TypeOK
  <1>10. TypeOK'
    BY <1>4, <1>5, <1>8, <1>9 DEF IInv, TypeOK
  <1>11. Fresh(r.up)
    BY <1>3 DEF Fresh
  <1>12. RowsWhole'
    <2> SUFFICES ASSUME NEW n \in DOMAIN node PROVE Whole(node[n])'
      BY <1>4 DEF RowsWhole
    <2>1. Whole(node[n]) /\ (~node[n].folder => node[n].inner # r.up)
      BY <1>11 DEF IInv, RowsWhole, Whole
    <2> QED BY <2>1, <1>4, <1>9 DEF Whole, Fresh
  <1>13. UploadsTrue'
    BY <1>3, <1>4, <1>9 DEF IInv, UploadsTrue
  <1>14. LinkTrue'
    BY <1>4, <1>9, <1>11 DEF IInv, LinkTrue, Fresh
  <1>15. BlobsAccounted'
    <2> SUFFICES ASSUME crashes = 0, NEW u \in Inners,
                        blob'[u] # None, ~Named(u), upload[u].status \notin {"pending", "completed"}
                 PROVE  FALSE
      BY <1>4 DEF BlobsAccounted, Named
    <2>1. u # r.up
      BY <1>3
    <2>2. PICK v \in Workers : u \in req[v].orphans \cup {req[v].doomed}
      BY <2>1, <1>9 DEF IInv, BlobsAccounted, Named
    <2>3. req[v] = r
      BY <1>1 DEF OneAtATime
    <2> QED BY <2>2, <2>3, <1>3, FileTreeAssumption
  <1>16. AtWork(next)'
    BY <1>3, <1>4, <1>7, <1>9 DEF AtWork, Receiving, Finishing, Cloning, Trashing
  <1> QED BY <1>8, <1>10, <1>12, <1>13, <1>14, <1>15, <1>16 DEF IInv

\* The commit after it says what was written.
LEMMA CompleteKeeps ==
    ASSUME IInv, OneAtATime, NEW w \in Workers, Complete(w)
    PROVE  IInv'
  <1> DEFINE r == req[w]
  <1>1. r \in Request /\ AtWork(r) /\ r.pc = "complete"
    BY DEF IInv, TypeOK, Complete
  <1>2. PICK u \in Inners, b \in Bytes :
           /\ r.up = u /\ r.bytes = b /\ upload[u].status = "pending" /\ upload[u].counted <= Capacity
           /\ blob[u] = b /\ r.orphans = {} /\ r.doomed = NoInner
    BY <1>1 DEF AtWork, Receiving, Trashing
  <1>3. /\ appended' = None /\ UNCHANGED <<node, blob, chunk, link, crashes>>
        /\ Ends(w)
    BY DEF Complete
  <1>4. CASE UNCHANGED upload
    <2>1. Unchanged(w)
      BY <1>3, <1>4 DEF Unchanged, disk
    <2> QED BY <1>2, <1>3, <2>1, RequestGoesOn, IdleIsARequest, FileTreeAssumption DEF Ends
  <1>5. CASE upload' = [upload EXCEPT ![u].status = "completed", ![u].md5 = b]
    <2>1. PICK s \in UploadSession : s = [upload[u] EXCEPT !.status = "completed", !.md5 = b]
      BY DEF IInv, TypeOK, UploadSession
    <2>2. s.status = "completed" /\ s.md5 = b /\ s.counted = upload[u].counted
      BY <2>1 DEF IInv, TypeOK, UploadSession
    <2>3. upload' = [upload EXCEPT ![u] = s] /\ Fresh(u)
      BY <1>2, <1>5, <2>1 DEF Fresh
    <2>4. AtWork(Idle)'
      BY DEF Idle, AtWork, Receiving, Finishing, Cloning, Trashing
    <2>5. req' = [req EXCEPT ![w] = Idle] /\ requests' \in 0..MaxRequests
      BY <1>3 DEF Ends, GoesOn, IInv, TypeOK
    <2>6. chunk' \in [UploadIds -> [Parts -> Contents \cup {None}]]
      BY <1>3 DEF IInv, TypeOK
    <2> QED BY <1>2, <1>3, <2>2, <2>3, <2>4, <2>5, <2>6, IdleIsARequest, SessionCommitted
  <1> QED BY <1>2, <1>4, <1>5 DEF Complete

\* finish's checks, before the tree is touched.
LEMMA FinishKeeps ==
    ASSUME IInv, OneAtATime, NEW w \in Workers, Finish(w)
    PROVE  IInv'
  <1>1. PICK u \in Inners, path \in Paths :
          /\ Verified(u) /\ (Repeats \/ ~upload[u].begun)
          /\ Arrives(w, [Idle EXCEPT !.op = "finish", !.pc = "ensure", !.up = u, !.todo = path])
          /\ upload' = [upload EXCEPT ![u].begun = TRUE]
    BY DEF Finish
  <1> DEFINE r == [Idle EXCEPT !.op = "finish", !.pc = "ensure", !.up = u, !.todo = path]
  <1>2. /\ upload[u].status = "completed" /\ upload[u].md5 \in Contents /\ ~upload[u].begun
        /\ blob[u] = upload[u].md5 /\ upload[u].counted <= Capacity
    BY <1>1 DEF Verified, OneAtATime, IInv, UploadsTrue
  <1>3. PICK s \in UploadSession : s = [upload[u] EXCEPT !.begun = TRUE]
    BY DEF IInv, TypeOK, UploadSession
  <1>4. s.status = "completed" /\ s.begun /\ s.md5 = upload[u].md5
        /\ s.counted = upload[u].counted
    BY <1>2, <1>3 DEF IInv, TypeOK, UploadSession
  <1>5. appended' = None /\ UNCHANGED <<node, blob, chunk, link, crashes>>
    BY DEF Finish
  <1>6. req[w] = Idle /\ req' = [req EXCEPT ![w] = r] /\ requests < MaxRequests /\ requests' = requests + 1
    BY <1>1 DEF Arrives
  <1>7. requests' \in 0..MaxRequests
    BY <1>6, FileStoreAssumption DEF IInv, TypeOK
  <1>8. r \in Request
    BY IdleIsARequest, FileStoreAssumption DEF Request
  <1>9. /\ r.op = "finish" /\ r.pc = "ensure" /\ r.up = u /\ r.orphans = {} /\ r.doomed = NoInner
    BY DEF Idle
  <1> HIDE DEF r
  <1>10. upload' = [upload EXCEPT ![u] = s] /\ upload'[u] = s
    BY <1>1, <1>3 DEF IInv, TypeOK
  <1>11. AtWork(r)'
    BY <1>2, <1>4, <1>5, <1>9, <1>10 DEF AtWork, Receiving, Finishing, Cloning, Trashing
  <1>12. chunk' \in [UploadIds -> [Parts -> Contents \cup {None}]] /\ s.md5 \in Bytes
    BY <1>2, <1>4, <1>5 DEF IInv, TypeOK, Bytes
  <1>13. req[w].orphans = {} /\ req[w].doomed = NoInner
    BY <1>6 DEF Idle
  <1> QED BY <1>2, <1>4, <1>5, <1>6, <1>7, <1>8, <1>10, <1>11, <1>12, <1>13, SessionCommitted

\* finish where there is nothing of that name: a file of the bytes that were verified.
LEMMA FinishNewKeeps ==
    ASSUME IInv, OneAtATime, NEW w \in Workers, FinishNew(w)
    PROVE  IInv'
  <1> DEFINE r == req[w]
             row == FileRow(r.parent, Leaf(r), r.up, upload[r.up].md5)
             next == [r EXCEPT !.pc = "trash"]
  <1>1. /\ r \in Request /\ AtWork(r) /\ r.op = "finish" /\ r.pc = "ensure"
        /\ Len(r.todo) = 1 /\ r.todo \in Seq(Names)
    BY DEF IInv, TypeOK, FinishNew, AtLeaf, Request
  <1>2. /\ r.up \in Inners /\ upload[r.up].md5 \in Contents /\ blob[r.up] = upload[r.up].md5
        /\ upload[r.up].status = "completed" /\ upload[r.up].begun
        /\ r.orphans = {} /\ r.doomed = NoInner
    BY <1>1 DEF AtWork, Finishing, Trashing
  <1>3. Whole(row)
    <2>1. Len(r.todo) >= 1
      BY <1>1
    <2>2. Leaf(r) \in Seq(Bases \cup Nat) /\ r.parent \in Ids \cup {Root}
      BY <1>1, <2>1, NamesAreTyped DEF Request
    <2>3. ~Fresh(r.up)
      BY <1>2 DEF Fresh
    <2> QED BY <1>2, <2>2, <2>3 DEF Whole, FileRow, FileNode
  <1>4. Inserts(w, row, "create", next)
    BY DEF FinishNew
  <1>5. row.inner = r.up
    BY DEF FileRow
  <1>6. next \in Request
    BY <1>1 DEF Request
  <1>7. /\ next.pc = "trash" /\ next.op = "finish" /\ next.up = r.up
        /\ next.orphans = {} /\ next.doomed = NoInner
    BY <1>1, <1>2 DEF Request
  <1>8. Finishing([next EXCEPT !.pc = "ensure"])
    <2>1. [next EXCEPT !.pc = "ensure"] = r
      BY <1>1 DEF Request
    <2> QED BY <1>1, <2>1 DEF AtWork
  <1> HIDE DEF next, row
  <1> QED BY <1>1, <1>3, <1>4, <1>5, <1>6, <1>7, <1>8, RowInserted

\* finish where there is a file: the blob it had is looked at next.
LEMMA FinishExistingKeeps ==
    ASSUME IInv, OneAtATime, NEW w \in Workers, FinishExisting(w)
    PROVE  IInv'
  <1>1. PICK r \in Request : r = req[w]
    BY DEF IInv, TypeOK
  <1>2. AtWork(r) /\ r.op = "finish" /\ r.pc = "ensure"
    BY <1>1 DEF IInv, FinishExisting, AtLeaf
  <1>3. PICK n \in Found(r) :
          IF node[n].folder THEN Fails(w)
          ELSE /\ node' = [node EXCEPT ![n].inner = r.up, ![n].hash = upload[r.up].md5]
               /\ appended' = Change("update", n)
               /\ GoesOn(w, [r EXCEPT !.pc = "trash", !.orphans = {node[n].inner}])
               /\ UNCHANGED <<disk, link, crashes>>
    BY <1>1 DEF FinishExisting
  <1>4. CASE node[n].folder
    BY <1>1, <1>2, <1>3, <1>4, FailedRequest
  <1>5. CASE ~node[n].folder
    <2>1. n \in DOMAIN node /\ n \in Ids /\ Whole(node[n]) /\ node[n] \in FileNode
      BY <1>3 DEF Found, FindChild, IInv, TypeOK, RowsWhole
    <2>2. PICK old \in Inners : old = node[n].inner /\ ~Fresh(old)
      BY <1>5, <2>1 DEF Whole
    <2>3. PICK md5 \in Contents : md5 = upload[r.up].md5
      BY <1>2 DEF AtWork, Finishing
    <2>4. /\ r.up \in Inners /\ blob[r.up] = md5 /\ ~Fresh(r.up)
          /\ upload[r.up].status = "completed" /\ upload[r.up].begun
          /\ r.orphans = {} /\ r.doomed = NoInner
      BY <1>2, <2>3 DEF AtWork, Finishing, Trashing, Fresh
    <2> DEFINE next == [r EXCEPT !.pc = "trash", !.orphans = {old}]
    <2>5. /\ node' = [node EXCEPT ![n].inner = r.up, ![n].hash = md5]
          /\ appended' = Change("update", n) /\ req' = [req EXCEPT ![w] = next]
          /\ UNCHANGED <<upload, blob, chunk, link, crashes, requests>>
      BY <1>3, <1>5, <2>2, <2>3 DEF GoesOn, disk
    <2>6. next \in Request
      BY DEF Request
    <2>7. /\ next.pc = "trash" /\ next.op = "finish" /\ next.up = r.up
          /\ next.orphans = {old} /\ next.doomed = NoInner
      BY <1>2, <2>4 DEF Request
    <2> HIDE DEF next
    <2>8. req' \in [Workers -> Request] /\ \A v \in Workers : req'[v] = next
      BY <2>5, <2>6, TheOneRequest DEF IInv
    <2>9. /\ DOMAIN node' = DOMAIN node
          /\ \A m \in DOMAIN node \ {n} : node'[m] = node[m]
          /\ node'[n].inner = r.up /\ node'[n].hash = md5
          /\ node'[n].folder = node[n].folder /\ node'[n] \in FileNode
      BY <2>1, <2>4, <2>5 DEF FileNode
    <2>10. appended' \in ChangeRow
      BY <2>1, <2>5 DEF ChangeRow, ChangeOps, Change
    <2>11. TypeOK'
      BY <2>5, <2>8, <2>9, <2>10 DEF IInv, TypeOK
    <2>12. \A u : Fresh(u)' <=> Fresh(u)
      BY <2>5 DEF Fresh
    <2>13. RowsWhole'
      <3>1. ASSUME NEW m \in DOMAIN node, m # n PROVE Whole(node[m])'
        BY <3>1, <2>5, <2>9, <2>12 DEF IInv, RowsWhole, Whole
      <3>2. Whole(node[n])'
        BY <1>5, <2>4, <2>5, <2>9, <2>12 DEF Whole
      <3> QED BY <3>1, <3>2, <2>9 DEF RowsWhole
    <2>14. UploadsTrue' /\ LinkTrue'
      BY <2>5, <2>12 DEF IInv, UploadsTrue, LinkTrue
    <2>15. Named(r.up)'
      BY <2>1, <2>9 DEF Named, BlobReferenced
    <2>16. ASSUME NEW u, u # old, Named(u) PROVE Named(u)'
      BY <2>2, <2>9, <2>16 DEF Named, BlobReferenced
    <2>17. BlobsAccounted'
      <3> SUFFICES ASSUME crashes = 0, NEW u \in Inners, u # old,
                          blob[u] # None, ~Named(u)', upload[u].status \notin {"pending", "completed"}
                   PROVE  FALSE
        BY <2>5, <2>7, <2>8 DEF BlobsAccounted, Named
      <3>1. PICK v \in Workers : u \in req[v].orphans \cup {req[v].doomed}
        BY <2>16 DEF IInv, BlobsAccounted, Named
      <3>2. req[v] = r
        BY <1>1 DEF OneAtATime
      <3> QED BY <3>1, <3>2, <2>4, FileTreeAssumption
    <2>18. AtWork(next)'
      <3>1. Receiving(next)' /\ Cloning(next)'
        BY <2>7 DEF Receiving, Cloning
      <3>2. Finishing(next)'
        BY <2>3, <2>4, <2>5, <2>7, <2>15 DEF Finishing
      <3>3. Trashing(next)'
        BY <2>2, <2>7, <2>12 DEF Trashing
      <3> QED BY <3>1, <3>2, <3>3 DEF AtWork
    <2> QED BY <2>8, <2>11, <2>13, <2>14, <2>17, <2>18 DEF IInv
  <1> QED BY <1>4, <1>5

\* A finish ends: its upload is gone, and the file it made names the blob.
LEMMA FinishEndsKeeps ==
    ASSUME IInv, OneAtATime, NEW w \in Workers, FinishEnds(w)
    PROVE  IInv'
  <1>1. PICK r \in Request : r = req[w]
    BY DEF IInv, TypeOK
  <1>2. AtWork(r) /\ r.op = "finish" /\ r.pc = "trash" /\ r.orphans = {}
    BY <1>1 DEF IInv, FinishEnds
  <1>3. /\ r.up \in Inners /\ Named(r.up) /\ ~Fresh(r.up) /\ r.doomed = NoInner
    BY <1>2 DEF AtWork, Finishing, Trashing, Fresh
  <1> DEFINE s == [NoSession EXCEPT !.status = "gone"]
  <1>4. s \in UploadSession /\ s.status = "gone"
    <2>1. NoSession \in UploadSession
      BY FileStoreAssumption DEF NoSession, UploadSession, Bytes
    <2> QED BY <2>1 DEF UploadSession
  <1>5. /\ upload' = [upload EXCEPT ![r.up] = s] /\ req' = [req EXCEPT ![w] = Idle]
        /\ appended' = None /\ UNCHANGED <<node, blob, chunk, link, crashes, requests>>
    BY <1>1 DEF FinishEnds, Ends, GoesOn
  <1> HIDE DEF s
  <1>6. AtWork(Idle)'
    BY DEF Idle, AtWork, Receiving, Finishing, Cloning, Trashing
  <1>7. requests' \in 0..MaxRequests /\ chunk' \in [UploadIds -> [Parts -> Contents \cup {None}]]
    BY <1>5 DEF IInv, TypeOK
  <1> QED BY <1>1, <1>2, <1>3, <1>4, <1>5, <1>6, <1>7, IdleIsARequest, SessionCommitted

------------------------------------------------------------------------------
(* Every step *)

\* download_v3 hands out the name of a file's blob, which is written no more.
LEMMA SignedUrlKeeps ==
    ASSUME IInv, SignedUrl
    PROVE  IInv'
  <1>1. PICK n \in Files(node) : link' = [inner |-> node[n].inner, hash |-> node[n].hash]
    BY DEF SignedUrl
  <1>2. /\ appended' = None /\ UNCHANGED <<node, upload, blob, chunk, req, requests, crashes>>
    BY DEF SignedUrl, disk
  <1>3. Whole(node[n]) /\ ~node[n].folder
    BY DEF Files, IInv, RowsWhole
  <1>4. TypeOK' /\ LinkTrue'
    BY <1>1, <1>2, <1>3 DEF IInv, TypeOK, Link, LinkTrue, Whole, Fresh
  <1>5. RowsWhole' /\ UploadsTrue' /\ BlobsAccounted'
    BY <1>2 DEF IInv, RowsWhole, UploadsTrue, BlobsAccounted, Whole, Fresh
  <1>6. \A w \in Workers : AtWork(req[w])'
    BY <1>2 DEF IInv, AtWork, Receiving, Finishing, Cloning, Trashing, Whole, Fresh, Named
  <1> QED BY <1>4, <1>5, <1>6 DEF IInv

\* A server that dies loses its requests, and may leave a blob nobody refers to.
LEMMA CrashKeeps ==
    ASSUME IInv, Crash
    PROVE  IInv'
  <1>1. /\ crashes' = crashes + 1 /\ crashes' \in 0..MaxCrashes /\ crashes' # 0
        /\ req' = [w \in Workers |-> Idle]
        /\ appended' = None /\ UNCHANGED <<node, upload, blob, chunk, link, requests>>
    BY FileStoreAssumption DEF Crash, disk, IInv, TypeOK
  <1>2. req' \in [Workers -> Request] /\ \A w \in Workers : req'[w] = Idle
    BY <1>1, IdleIsARequest
  <1>3. TypeOK'
    BY <1>1, <1>2 DEF IInv, TypeOK
  <1>4. RowsWhole' /\ UploadsTrue' /\ LinkTrue' /\ BlobsAccounted'
    BY <1>1 DEF IInv, RowsWhole, UploadsTrue, LinkTrue, BlobsAccounted, Whole, Fresh
  <1>5. AtWork(Idle)'
    BY DEF Idle, AtWork, Receiving, Finishing, Cloning, Trashing
  <1> QED BY <1>2, <1>3, <1>4, <1>5 DEF IInv

\* The empty server.
LEMMA StartsSound == Init => IInv
  <1> SUFFICES ASSUME Init PROVE IInv
    OBVIOUS
  <1>1. TypeOK
    <2>1. NoSession \in UploadSession /\ NoLink \in Link
      BY DEF NoSession, UploadSession, NoLink, Link
    <2> QED BY <2>1, IdleIsARequest, FileStoreAssumption DEF Init, TypeOK
  <1>2. RowsWhole /\ LinkTrue /\ BlobsAccounted
    BY DEF Init, RowsWhole, LinkTrue, NoLink, BlobsAccounted
  <1>3. UploadsTrue
    BY DEF Init, UploadsTrue, NoSession
  <1>4. \A w \in Workers : AtWork(req[w])
    BY IdleIsARequest DEF Init
  <1> QED BY <1>1, <1>2, <1>3, <1>4 DEF IInv

\* Every step keeps the invariant.
LEMMA StepsKeep ==
    ASSUME OneAtATime, IInv, [Next]_vars
    PROVE  IInv'
  <1>1. ASSUME NEW w \in Workers, Step(w) PROVE IInv'
    BY <1>1, EnsureFolderKeeps, MakeFolderKeeps, MoveNodeKeeps, CopyNodeKeeps, CloneReadKeeps,
       CloneCommitKeeps, CheckOrphanKeeps, TrashBlobKeeps, DeleteEndsKeeps, WriteStreamKeeps,
       CompleteKeeps, FinishNewKeeps, FinishExistingKeeps, FinishEndsKeeps DEF Step
  <1>2. ASSUME NEW w \in Workers, NewRequest(w) PROVE IInv'
    BY <1>2, TreeRequestsBegin, DeleteNodeKeeps, ApplyKeeps, ReceiveFullKeeps, ReceivePartKeeps,
       FinishKeeps DEF NewRequest
  <1>3. CASE UNCHANGED vars
    <2>1. UNCHANGED <<node, appended, upload, blob, chunk, link, req, requests, crashes>>
      BY <1>3 DEF vars
    <2>2. TypeOK' /\ RowsWhole' /\ UploadsTrue' /\ LinkTrue' /\ BlobsAccounted'
      BY <2>1 DEF IInv, TypeOK, RowsWhole, UploadsTrue, LinkTrue, BlobsAccounted, Whole, Fresh
    <2>3. \A w \in Workers : AtWork(req[w])'
      BY <2>1 DEF IInv, AtWork, Receiving, Finishing, Cloning, Trashing, Whole, Fresh, Named
    <2> QED BY <2>2, <2>3 DEF IInv
  <1> QED BY <1>1, <1>2, <1>3, SignedUrlKeeps, CrashKeeps DEF Next

\* With requests one after the other the server keeps IInv, for any names, contents,
\* uploads and limits, and wherever it dies.
THEOREM StoreInvariant == ASSUME OneAtATime PROVE Spec => []IInv
  <1>1. Init => IInv
    BY StartsSound
  <1>2. IInv /\ [Next]_vars => IInv'
    BY StepsKeep
  <1> QED BY <1>1, <1>2, PTL DEF Spec

\* Every table and every request keeps its type; ids, counters and names included.
THEOREM StoreTypeCorrect == ASSUME OneAtATime PROVE Spec => []TypeOK
  <1>1. IInv => TypeOK
    BY DEF IInv
  <1> QED BY <1>1, StoreInvariant, PTL

\* The blob of every file is there and is the content the file's md5 says, through copies
\* that share it, uploads that replace it, deletes that trash it and deaths of the server.
THEOREM BlobsAreThere == ASSUME OneAtATime PROVE Spec => []NodesHaveBlobs
  <1>1. IInv => NodesHaveBlobs
    BY DEF IInv, RowsWhole, Whole, NodesHaveBlobs, Files
  <1> QED BY <1>1, StoreInvariant, PTL

\* While the server does not die no blob is left that nothing refers to.
THEOREM NoBlobIsLeft == ASSUME OneAtATime PROVE Spec => []BlobsAccounted
  <1>1. IInv => BlobsAccounted
    BY DEF IInv
  <1> QED BY <1>1, StoreInvariant, PTL

\* A link that was handed out never leads to other bytes than it was handed out for.
THEOREM LinksAreTrue == ASSUME OneAtATime PROVE Spec => []LinksKeepTheirContent
  <1>1. IInv => LinksKeepTheirContent
    BY DEF IInv, LinkTrue, LinksKeepTheirContent
  <1> QED BY <1>1, StoreInvariant, PTL
==============================================================================
