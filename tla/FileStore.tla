----------------------------- MODULE FileStore ------------------------------
(* The file server: requests that change the tree, uploads in one piece or   *)
(* in parts, the blobs they leave on the disk and the links that hand them   *)
(* out (routers/files_device.py, routers/oss.py, files/upload_service.py,    *)
(* files/blob_store.py, files/tree_service.py).                              *)
(*                                                                           *)
(* A request is a thread of the server.  Each step of one is a commit with   *)
(* the reads that lead to it, or a change of the disk; between two steps the *)
(* other threads go on, or the server dies.  The sync lock lets one device   *)
(* change the tree at a time: one worker is a server whose lock holds.       *)
(* Requests the lock turns away (_guard_sync) change nothing and are not     *)
(* here; the lock itself is SyncLock.                                        *)
EXTENDS FileTree

CONSTANTS
    Workers,        \* threads of the server's pool
    UploadIds,      \* the uploadId of an upload in parts, chosen by the client
    Mixed,          \* what is assembled from parts of different contents
    Paths,          \* destination paths of requests
    None,           \* nothing
    Capacity,       \* total_capacity_bytes; every file is of size one
    Repeats,        \* whether finish is called again for an upload it was called for
    MaxRequests, MaxCrashes    \* bounds

Parts == 1..2       \* totalChunks

\* Rows of change_log that requests append.
ChangeOps == {"create", "update", "delete", "move", "copy"}
ChangeRow == [op : ChangeOps, node : Ids]

ASSUME FileStoreAssumption ==
    /\ Mixed \notin Contents \cup {NoHash}
    /\ None \notin Inners \cup UploadIds \cup Contents \cup {Mixed} \cup ChangeOps \cup ChangeRow
    /\ Capacity \in Nat /\ Repeats \in BOOLEAN /\ MaxRequests \in Nat /\ MaxCrashes \in Nat
    /\ \A path \in Paths : path \in Seq(Names) /\ path # << >>

VARIABLES
    node,       \* the file_node table
    appended,   \* the change rows the last step committed: one, or None
    upload,     \* the upload_session table, by inner_name
    blob,       \* the blob directory
    chunk,      \* the chunks directory, by uploadId and part
    link,       \* a signed download link
    req,        \* per worker: its request
    requests, crashes

vars == <<node, appended, upload, blob, chunk, link, req, requests, crashes>>

Bytes == Contents \cup {Mixed}

\* status "none": not applied for yet, "gone": finished and deleted; begun: finish has
\* been called.  Kept for OnlyUncountedOverruns: counted, the size the quota check took
\* the tree to come to when the bytes arrived.
UploadSession == [status : {"none", "pending", "completed", "gone"},
                  id : UploadIds \cup {None}, md5 : Bytes \cup {NoHash},
                  begun : BOOLEAN, counted : Nat]
NoSession == [status |-> "none", id |-> None, md5 |-> NoHash, begun |-> FALSE, counted |-> 0]

Copying == [src : Ids, parent : Ids \cup {Root}, name : Seq(Bases \cup Nat), root : BOOLEAN]

\* op and pc: what the request is and where it stands; then its arguments and locals.
Request == [op : {"none", "create", "move", "copy", "delete", "finish", "put", "part"},
            pc : {"idle", "ensure", "clone", "insert", "trash", "doomed", "write", "complete"},
            id : Ids \cup {Root}, todo : Seq(Names), parent : Ids \cup {Root}, auto : BOOLEAN,
            up : Inners \cup {NoInner}, bytes : Bytes \cup {None},
            pairs : SUBSET Copying, pair : Copying \cup {None}, row : FileNode \cup {None},
            orphans : SUBSET Inners, doomed : Inners \cup {NoInner}]
Idle == [op |-> "none", pc |-> "idle", id |-> Root, todo |-> << >>, parent |-> Root,
         auto |-> FALSE, up |-> NoInner, bytes |-> None, pairs |-> {}, pair |-> None,
         row |-> None, orphans |-> {}, doomed |-> NoInner]

NoLink == [inner |-> NoInner, hash |-> NoHash]
Link   == [inner : Inners \cup {NoInner}, hash : Contents \cup {NoHash}]
Change(op, n) == [op |-> op, node |-> n]

Init ==
    /\ node = << >> /\ appended = None
    /\ upload = [u \in Inners |-> NoSession]
    /\ blob = [u \in Inners |-> None]
    /\ chunk = [k \in UploadIds |-> [i \in Parts |-> None]]
    /\ link = NoLink
    /\ req = [w \in Workers |-> Idle]
    /\ requests = 0 /\ crashes = 0

------------------------------------------------------------------------------
(* Requests begin, go on and end *)

disk == <<upload, blob, chunk>>

Arrives(w, r) ==
    /\ req[w] = Idle /\ requests < MaxRequests
    /\ requests' = requests + 1
    /\ req' = [req EXCEPT ![w] = r]
GoesOn(w, r) == req' = [req EXCEPT ![w] = r] /\ UNCHANGED requests
Ends(w) == GoesOn(w, Idle)

Unchanged(w) == UNCHANGED <<node, disk, link, crashes>> /\ appended' = None
Fails(w) == Ends(w) /\ Unchanged(w)

\* A row is inserted and committed with its change row, or the unique constraint raises.
Inserts(w, row, op, next) ==
    IF Clashes(node, row.parent, row.name, {}) THEN Fails(w)
    ELSE /\ Room(node)
         /\ node' = Inserted(node, row)
         /\ appended' = IF op = None THEN None ELSE Change(op, NewId(node))
         /\ GoesOn(w, next)
         /\ UNCHANGED <<disk, link, crashes>>

------------------------------------------------------------------------------
(* The tree *)

CreateFolder(w) ==
    /\ \E path \in Paths, auto \in BOOLEAN :
          Arrives(w, [Idle EXCEPT !.op = "create", !.pc = "ensure", !.todo = path, !.auto = auto])
    /\ Unchanged(w)

MoveOrCopy(w, op) ==
    /\ \E n \in DOMAIN node, path \in Paths, auto \in BOOLEAN :
          Arrives(w, [Idle EXCEPT !.op = op, !.pc = "ensure", !.id = n, !.todo = path, !.auto = auto])
    /\ Unchanged(w)

\* create_folder's loop and ensure_folder: the folders on the way are reused or made,
\* each in a commit of its own and without a change row.
EnsureFolder(w) ==
    LET r == req[w]
        found == FindChild(node, r.parent, Head(r.todo))
        to(n) == [r EXCEPT !.parent = n, !.todo = Tail(r.todo)]
    IN  /\ r.pc = "ensure" /\ Len(r.todo) > 1
        /\ \/ /\ found = {}
              /\ Inserts(w, FolderRow(r.parent, Head(r.todo)), None, to(NewId(node)))
           \/ \E n \in found : node[n].folder /\ GoesOn(w, to(n)) /\ Unchanged(w)
           \/ (\E n \in found : ~node[n].folder) /\ Fails(w)

Leaf(r) == Head(r.todo)
AtLeaf(w, op) == req[w].pc = "ensure" /\ req[w].op = op /\ Len(req[w].todo) = 1
Found(r) == FindChild(node, r.parent, Leaf(r))

\* _resolve_target_name
TargetNames(r) == IF r.auto THEN Autorenamed(node, r.parent, Leaf(r)) ELSE {Leaf(r)}

MakeFolder(w) ==
    LET r == req[w] IN
    /\ AtLeaf(w, "create")
    /\ IF Found(r) # {} /\ ~r.auto
       THEN Fails(w)      \* the folder that is there, or NameConflict with a file
       ELSE \E name \in TargetNames(r) : Inserts(w, FolderRow(r.parent, name), "create", Idle)

IntoItself(r) == node[r.id].folder /\ IsDescendant(node, r.id, r.parent)

Moved(w, r, name) ==
    IF Clashes(node, r.parent, name, {r.id}) THEN Fails(w)
    ELSE /\ node' = [node EXCEPT ![r.id].parent = r.parent, ![r.id].name = name]
         /\ appended' = Change("move", r.id)
         /\ Ends(w)
         /\ UNCHANGED <<disk, link, crashes>>

MoveNode(w) ==
    LET r == req[w]
        other == Found(r) \ {r.id} # {}
    IN  /\ AtLeaf(w, "move")
        /\ IF r.id \notin DOMAIN node \/ IntoItself(r) \/ (other /\ ~r.auto)
           THEN Fails(w)
           ELSE \E name \in IF other THEN TargetNames(r) ELSE {Leaf(r)} : Moved(w, r, name)

CopyNode(w) ==
    LET r == req[w]
        top(name) == [src |-> r.id, parent |-> r.parent, name |-> name, root |-> TRUE]
    IN  /\ AtLeaf(w, "copy")
        /\ IF r.id \notin DOMAIN node \/ IntoItself(r) \/ (Found(r) # {} /\ ~r.auto)
           THEN Fails(w)
           ELSE /\ \E name \in TargetNames(r) :
                      GoesOn(w, [r EXCEPT !.pc = "clone", !.pairs = {top(name)}])
                /\ Unchanged(w)

\* duplicate reads a source row, and then commits its clone.
CloneRead(w) ==
    LET r == req[w] IN
    /\ r.pc = "clone"
    /\ \E p \in r.pairs :
          IF p.src \notin DOMAIN node THEN Fails(w)
          ELSE /\ GoesOn(w, [r EXCEPT !.pc = "insert", !.pair = p, !.pairs = @ \ {p},
                                      !.row = [node[p.src] EXCEPT !.parent = p.parent, !.name = p.name]])
               /\ Unchanged(w)

\* Only the root is recorded; the children are listed once the clone is committed.
CloneCommit(w) ==
    LET r == req[w]
        below == {[src |-> n, parent |-> NewId(node), name |-> node[n].name, root |-> FALSE] :
                    n \in Children(node, r.pair.src)}
        left == r.pairs \cup below
    IN  /\ r.pc = "insert"
        /\ Inserts(w, r.row, IF r.pair.root THEN "copy" ELSE None,
                   IF left = {} THEN Idle
                   ELSE [r EXCEPT !.pc = "clone", !.pairs = left, !.pair = None, !.row = None])

\* Mutant: each child deleted is its own last change, the node's own is the first.
DeleteNode_AnyRow(w) ==
    /\ \E n \in DOMAIN node :
          LET doomed == Subtree(node, n) IN
          /\ Arrives(w, [Idle EXCEPT !.op = "delete", !.pc = "trash",
                                     !.orphans = {node[m].inner : m \in doomed \cap Files(node)}])
          /\ node' = Without(node, doomed)
          /\ \E m \in doomed : appended' = Change("delete", m)
    /\ UNCHANGED <<disk, link, crashes>>

\* The node and its subtree go in one commit; their blobs are looked at afterwards.
DeleteNode(w) ==
    /\ \E n \in DOMAIN node :
          LET doomed == Subtree(node, n) IN
          /\ Arrives(w, [Idle EXCEPT !.op = "delete", !.pc = "trash",
                                     !.orphans = {node[m].inner : m \in doomed \cap Files(node)}])
          /\ node' = Without(node, doomed)
          /\ appended' = Change("delete", n)
    /\ UNCHANGED <<disk, link, crashes>>

\* Mutant: blob_referenced is not asked.
CheckOrphan_Trashed(w) ==
    LET r == req[w] IN
    /\ r.pc = "trash"
    /\ \E u \in r.orphans :
          GoesOn(w, [r EXCEPT !.orphans = @ \ {u}, !.pc = "doomed", !.doomed = u])
    /\ Unchanged(w)

\* blob_referenced, and then trash: after delete_node, and after a file was replaced.
CheckOrphan(w) ==
    LET r == req[w] IN
    /\ r.pc = "trash"
    /\ \E u \in r.orphans :
          IF BlobReferenced(node, u)
          THEN GoesOn(w, [r EXCEPT !.orphans = @ \ {u}])
          ELSE GoesOn(w, [r EXCEPT !.orphans = @ \ {u}, !.pc = "doomed", !.doomed = u])
    /\ Unchanged(w)

TrashBlob(w) ==
    LET r == req[w] IN
    /\ r.pc = "doomed"
    /\ blob' = [blob EXCEPT ![r.doomed] = None]
    /\ GoesOn(w, [r EXCEPT !.pc = "trash", !.doomed = NoInner])
    /\ appended' = None /\ UNCHANGED <<node, upload, chunk, link, crashes>>

DeleteEnds(w) ==
    /\ req[w].op = "delete" /\ req[w].pc = "trash" /\ req[w].orphans = {}
    /\ Fails(w)

------------------------------------------------------------------------------
(* Uploads *)

\* Not counted as a request: the inner names bound it.
Apply(w) ==
    /\ req[w] = Idle /\ UNCHANGED <<req, requests>>
    /\ \E u \in Inners : /\ upload[u].status = "none"
                         /\ upload' = [upload EXCEPT ![u].status = "pending"]
    /\ appended' = None /\ UNCHANGED <<node, blob, chunk, link, crashes>>

\* Mutant: what is coming in is not counted.
QuotaLeft_StoredOnly(incoming) == UsedBytes(node) <= Capacity

QuotaLeft(incoming) == UsedBytes(node) + incoming <= Capacity

\* Mutant: an upload that has arrived may be sent again.
ReceiveFull_AnyStatus(w) ==
    /\ \E u \in Inners, c \in Contents, declared \in 0..1 :
          /\ upload[u].status # "none" /\ QuotaLeft(declared)
          /\ Arrives(w, [Idle EXCEPT !.op = "put", !.pc = "write", !.up = u, !.bytes = c])
          /\ upload' = [upload EXCEPT ![u].counted = UsedBytes(node) + declared]
    /\ appended' = None /\ UNCHANGED <<node, blob, chunk, link, crashes>>

\* receive_full up to the write.  The quota check counts expected_size, which only it reads
\* (so it is chosen here): 0 if the client declared none or too little, for nothing compares
\* it with what is sent.  A session whose expires_at has passed is turned away, which
\* changes nothing: it stays pending.
ReceiveFull(w) ==
    /\ \E u \in Inners, c \in Contents, declared \in 0..1 :
          /\ upload[u].status = "pending" /\ QuotaLeft(declared)
          /\ Arrives(w, [Idle EXCEPT !.op = "put", !.pc = "write", !.up = u, !.bytes = c])
          /\ upload' = [upload EXCEPT ![u].counted = UsedBytes(node) + declared]
    /\ appended' = None /\ UNCHANGED <<node, blob, chunk, link, crashes>>

Assembled(parts) == IF parts[1] = parts[2] THEN parts[1] ELSE Mixed

\* receive_part: the first part fixes the uploadId, whose chunk files this upload shares
\* with any other of that id; the last one to arrive goes on to assemble them, if there is
\* room for the parts themselves.
ReceivePart(w) ==
    /\ \E u \in Inners, k \in UploadIds, i \in Parts, c \in Contents :
          LET stored == [chunk[k] EXCEPT ![i] = c]
              next == [Idle EXCEPT !.op = "part", !.pc = "write", !.up = u, !.bytes = Assembled(stored)]
              complete == \A j \in Parts : stored[j] # None
          IN  /\ upload[u].status = "pending" /\ upload[u].id \in {None, k}
              /\ upload' = [upload EXCEPT ![u].id = k,
                                          ![u].counted = IF complete THEN UsedBytes(node) + 1 ELSE @]
              /\ chunk' = [chunk EXCEPT ![k] = stored]
              /\ Arrives(w, IF complete /\ QuotaLeft(1) THEN next ELSE Idle)
    /\ appended' = None /\ UNCHANGED <<node, blob, link, crashes>>

\* write_stream replaces the blob whole; receive_part then removes the chunk files.
WriteStream(w) ==
    LET r == req[w] IN
    /\ r.pc = "write"
    /\ blob' = [blob EXCEPT ![r.up] = r.bytes]
    /\ chunk' = IF r.op = "put" THEN chunk
                ELSE [chunk EXCEPT ![upload[r.up].id] = [i \in Parts |-> None]]
    /\ GoesOn(w, [r EXCEPT !.pc = "complete"])
    /\ appended' = None /\ UNCHANGED <<node, upload, link, crashes>>

Complete(w) ==
    LET r == req[w] IN
    /\ r.pc = "complete"
    /\ IF upload[r.up].status = "gone" \/ (r.op = "put" /\ ~QuotaLeft(0)) THEN UNCHANGED upload
       ELSE upload' = [upload EXCEPT ![r.up].status = "completed", ![r.up].md5 = r.bytes]
    /\ Ends(w)
    /\ appended' = None /\ UNCHANGED <<node, blob, chunk, link, crashes>>

\* Mutant: md5 is not compared with the client's content_hash.
Verified_Trusted(u) == upload[u].status = "completed"

\* finish's checks: the bytes that arrived must be what the client says they are.
Verified(u) == upload[u].status = "completed" /\ upload[u].md5 \in Contents
Finish(w) ==
    /\ \E u \in Inners, path \in Paths :
          /\ Verified(u) /\ (Repeats \/ ~upload[u].begun)
          /\ Arrives(w, [Idle EXCEPT !.op = "finish", !.pc = "ensure", !.up = u, !.todo = path])
          /\ upload' = [upload EXCEPT ![u].begun = TRUE]
    /\ appended' = None /\ UNCHANGED <<node, blob, chunk, link, crashes>>

FinishNew(w) ==
    LET r == req[w] IN
    /\ AtLeaf(w, "finish") /\ Found(r) = {}
    /\ Inserts(w, FileRow(r.parent, Leaf(r), r.up, upload[r.up].md5), "create",
               [r EXCEPT !.pc = "trash"])

\* Mutant: the blob that was replaced is forgotten.
FinishExisting_KeepsOld(w) ==
    LET r == req[w] IN
    /\ AtLeaf(w, "finish")
    /\ \E n \in Found(r) :
          IF node[n].folder THEN Fails(w)
          ELSE /\ node' = [node EXCEPT ![n].inner = r.up, ![n].hash = upload[r.up].md5]
               /\ appended' = Change("update", n)
               /\ GoesOn(w, [r EXCEPT !.pc = "trash"])
               /\ UNCHANGED <<disk, link, crashes>>

FinishExisting(w) ==
    LET r == req[w] IN
    /\ AtLeaf(w, "finish")
    /\ \E n \in Found(r) :
          IF node[n].folder THEN Fails(w)
          ELSE /\ node' = [node EXCEPT ![n].inner = r.up, ![n].hash = upload[r.up].md5]
               /\ appended' = Change("update", n)
               /\ GoesOn(w, [r EXCEPT !.pc = "trash", !.orphans = {node[n].inner}])
               /\ UNCHANGED <<disk, link, crashes>>

\* Mutant: the session row stays.
FinishEnds_RowStays(w) ==
    LET r == req[w] IN
    /\ r.op = "finish" /\ r.pc = "trash" /\ r.orphans = {}
    /\ upload' = [upload EXCEPT ![r.up].begun = FALSE]
    /\ Ends(w)
    /\ appended' = None /\ UNCHANGED <<node, blob, chunk, link, crashes>>

FinishEnds(w) ==
    LET r == req[w] IN
    /\ r.op = "finish" /\ r.pc = "trash" /\ r.orphans = {}
    /\ upload' = [upload EXCEPT ![r.up] = [NoSession EXCEPT !.status = "gone"]]
    /\ Ends(w)
    /\ appended' = None /\ UNCHANGED <<node, blob, chunk, link, crashes>>

------------------------------------------------------------------------------
(* Downloads, and the death of the server *)

\* download_v3 signs the inner_name and answers with the hash the client will record.
SignedUrl ==
    /\ \E n \in Files(node) : link' = [inner |-> node[n].inner, hash |-> node[n].hash]
    /\ appended' = None /\ UNCHANGED <<node, disk, req, requests, crashes>>

\* Requests are all that is lost; a server that dies without one is as it was.
Crash ==
    /\ \E w \in Workers : req[w] # Idle
    /\ crashes < MaxCrashes /\ crashes' = crashes + 1
    /\ req' = [w \in Workers |-> Idle]
    /\ appended' = None /\ UNCHANGED <<node, disk, link, requests>>

Step(w) ==
    \/ EnsureFolder(w) \/ MakeFolder(w) \/ MoveNode(w)
    \/ CopyNode(w) \/ CloneRead(w) \/ CloneCommit(w)
    \/ CheckOrphan(w) \/ TrashBlob(w) \/ DeleteEnds(w)
    \/ WriteStream(w) \/ Complete(w) \/ FinishNew(w) \/ FinishExisting(w) \/ FinishEnds(w)

NewRequest(w) ==
    \/ CreateFolder(w) \/ MoveOrCopy(w, "move") \/ MoveOrCopy(w, "copy") \/ DeleteNode(w)
    \/ Apply(w) \/ ReceiveFull(w) \/ ReceivePart(w) \/ Finish(w)

Next ==
    \/ \E w \in Workers : Step(w) \/ NewRequest(w)
    \/ SignedUrl \/ Crash

Spec == Init /\ [][Next]_vars

------------------------------------------------------------------------------
(* Properties *)

TypeOK ==
    /\ DOMAIN node \subseteq Ids /\ \A n \in DOMAIN node : node[n] \in FileNode
    /\ appended \in ChangeRow \cup {None}
    /\ upload \in [Inners -> UploadSession]
    /\ blob \in [Inners -> Bytes \cup {None}]
    /\ chunk \in [UploadIds -> [Parts -> Contents \cup {None}]]
    /\ link \in Link
    /\ req \in [Workers -> Request]
    /\ requests \in 0..MaxRequests /\ crashes \in 0..MaxCrashes

\* The rows are a tree whose inner nodes are folders, and each node is the one that
\* its own path resolves to, whatever moves, copies, renames and crashes came before.
TreeSound ==
    /\ \A n \in DOMAIN node : node[n].parent = Root \/ node[node[n].parent].folder
    /\ Subtree(node, Root) = DOMAIN node \cup {Root}
    /\ \A n \in DOMAIN node : FindChild(node, node[n].parent, node[n].name) = {n}

\* The blob of every file is on the disk and is one whole content, the one its md5 says,
\* though copies share blobs, uploads replace them and deletes trash them.
NodesHaveBlobs ==
    \A n \in Files(node) : node[n].hash \in Contents /\ blob[node[n].inner] = node[n].hash

\* No blob is left behind: unless the server died, each is some file's, waits for its
\* upload to be finished, or is about to be looked at by the request that orphaned it.
BlobsAccounted ==
    crashes = 0 =>
        \A u \in Inners :
            \/ blob[u] = None \/ BlobReferenced(node, u)
            \/ upload[u].status \in {"pending", "completed"}
            \/ \E w \in Workers : u \in req[w].orphans \cup {req[w].doomed}

\* A signed link gives the bytes whose hash the client was told, or an error, but never
\* other bytes, however late it is used.
LinksKeepTheirContent ==
    link.inner # NoInner => blob[link.inner] \in {link.hash, None}

\* The change row a step commits names a node over everything the step changed; a step
\* without one only adds folders on the way to a path, or the rest of a folder's copy.
ChangesAnnounced ==
    [][LET changed == {n \in DOMAIN node \cup DOMAIN node' :
                          n \notin DOMAIN node \cap DOMAIN node' \/ node[n] # node'[n]}
       IN  IF appended' # None
           THEN changed \subseteq Subtree(node, appended'.node) \cup Subtree(node', appended'.node)
           ELSE /\ changed \cap DOMAIN node = {}
                /\ \A n \in changed : node'[n].folder \/ (\E w \in Workers : req[w].op = "copy")]_vars

\* The tree outgrows the quota only by what no check has counted: by a copy, or by an upload
\* whose check took the tree to come to less than it now does, since more was sent than
\* was declared or other files have been stored after it arrived.
OnlyUncountedOverruns ==
    [][UsedBytes(node') > UsedBytes(node) /\ UsedBytes(node') > Capacity =>
        \E w \in Workers :
            \/ req[w].op = "copy"
            \/ req[w].op = "finish" /\ upload[req[w].up].counted < UsedBytes(node')]_vars

\* Seen through the bytes alone, the server is a vault: an upload that has been verified
\* can be filed until its finish ends.
ToBeFiled(u) ==
    /\ Verified(u)
    /\ ~upload[u].begun
         \/ \E w \in Workers : req[w].op = "finish" /\ req[w].pc = "ensure" /\ req[w].up = u
Kept == INSTANCE Vault WITH
            Tickets <- Inners,
            file    <- [n \in Files(node) |-> blob[node[n].inner]],
            inbox   <- [u \in {v \in Inners : ToBeFiled(v)} |-> upload[u].md5]
ImplementsVault == Kept!Spec
==============================================================================
