-------------------------- MODULE SyncEngineProofs --------------------------
(* What the three-way diff never does, for any contents, and what a sync     *)
(* pass keeps: for any paths, contents, policy, edits between passes and     *)
(* failures within them.                                                     *)
EXTENDS SyncEngine, FiniteSetTheorems, TLAPS

------------------------------------------------------------------------------
(* The diff *)

\* There is something to classify: the path is in at least one of the three.
Present(loc, rem, base) == loc # Absent \/ rem # Absent \/ base # NoRow

\* Every path gets one of the engine's actions (diff.py _classify_one).
THEOREM ClassifyTotal ==
    ASSUME NEW loc \in Node, NEW rem \in Node, NEW base \in Row, Present(loc, rem, base)
    PROVE  Classify(loc, rem, base) \in Actions \ {"NONE"}
<1>1. CASE Folder \in {loc, rem}
  BY <1>1, ContentsAssumption DEF Classify, ClassifyFolder, Actions
<1>2. CASE Folder \notin {loc, rem} /\ base = NoRow
  BY <1>2 DEF Classify, ClassifyNew, Present, Actions
<1>3. CASE Folder \notin {loc, rem} /\ base # NoRow
  <2>1. CASE Absent \in {loc, rem}
    BY <1>3, <2>1 DEF Classify, ClassifyGone, Actions
  <2>2. CASE Absent \notin {loc, rem}
    BY <1>3, <2>2 DEF Classify, ClassifyBoth, Actions
  <2>3. QED BY <2>1, <2>2
<1>4. QED BY <1>1, <1>2, <1>3

\* A local file is replaced or deleted only when it still has the hash of the
\* last sync (diff.py "A local edit wins over a remote delete").
THEOREM LocalEditsWin ==
    ASSUME NEW loc \in Contents, NEW rem \in Node, NEW base \in Row,
           Classify(loc, rem, base) \in {"DOWNLOAD", "DELETE_LOCAL"}
    PROVE  base # NoRow /\ loc = base.local
<1>1. loc # Absent /\ loc # Folder
  BY ContentsAssumption
<1>2. rem # Folder
  BY <1>1, ContentsAssumption DEF Classify, ClassifyFolder
<1>3. base # NoRow
  BY <1>1, <1>2 DEF Classify, ClassifyNew
<1>4. CASE rem = Absent
  BY <1>1, <1>2, <1>3, <1>4 DEF Classify, ClassifyGone, LocalChanged
<1>5. CASE rem # Absent
  BY <1>1, <1>2, <1>3, <1>5 DEF Classify, ClassifyBoth, LocalChanged
<1>6. QED BY <1>3, <1>4, <1>5

\* A remote file is replaced or deleted only when it still has the hash of the
\* last sync (diff.py "Remote edit wins over a local delete").
THEOREM RemoteEditsWin ==
    ASSUME NEW loc \in Node, NEW rem \in Contents, NEW base \in Row,
           Classify(loc, rem, base) \in {"UPLOAD", "DELETE_REMOTE"}
    PROVE  base # NoRow /\ rem = base.server
<1>1. rem # Absent /\ rem # Folder
  BY ContentsAssumption
<1>2. loc # Folder
  BY <1>1, ContentsAssumption DEF Classify, ClassifyFolder
<1>3. base # NoRow
  BY <1>1, <1>2 DEF Classify, ClassifyNew
<1>4. CASE loc = Absent
  BY <1>1, <1>2, <1>3, <1>4 DEF Classify, ClassifyGone, RemoteChanged
<1>5. CASE loc # Absent
  BY <1>1, <1>2, <1>3, <1>5 DEF Classify, ClassifyBoth, RemoteChanged
<1>6. QED BY <1>3, <1>4, <1>5

\* Two files are recorded as agreed only when they agree, if the row they are
\* compared with was itself of one content (diff.py RECORD, "sides already agree").
THEOREM RecordAgrees ==
    ASSUME NEW loc \in Contents, NEW rem \in Contents, NEW base \in Row,
           base.server = base.local,
           Classify(loc, rem, base) = "RECORD"
    PROVE  loc = rem
<1>1. Folder \notin {loc, rem} /\ Absent \notin {loc, rem}
  BY ContentsAssumption
<1>2. CASE base = NoRow
  BY <1>1, <1>2 DEF Classify, ClassifyNew
<1>3. CASE base # NoRow
  BY <1>1, <1>3 DEF Classify, ClassifyBoth, LocalChanged, RemoteChanged
<1>4. QED BY <1>2, <1>3

\* A conflict is declared only between two versions that differ from each other
\* and from what was last synced (diff.py CONFLICT).
THEOREM ConflictIsReal ==
    ASSUME NEW loc \in Node, NEW rem \in Node, NEW base \in Row,
           Classify(loc, rem, base) = "CONFLICT"
    PROVE  /\ loc \in Contents /\ rem \in Contents /\ loc # rem
           /\ base = NoRow \/ (loc # base.local /\ rem # base.server)
<1>1. Folder \notin {loc, rem}
  BY ContentsAssumption DEF Classify, ClassifyFolder
<1>2. CASE base = NoRow
  BY <1>1, <1>2 DEF Classify, ClassifyNew, Node
<1>3. CASE base # NoRow
  <2>1. Absent \notin {loc, rem}
    BY <1>1, <1>3 DEF Classify, ClassifyGone
  <2>2. QED
    BY <1>1, <1>3, <2>1 DEF Classify, ClassifyBoth, LocalChanged, RemoteChanged, Node
<1>4. QED BY <1>2, <1>3
------------------------------------------------------------------------------
(* The passes *)

\* People keep to one kind of thing at each path: no folder takes a file's place.
KindsApart ==
    /\ FilePaths \cap FolderPaths = {}
    /\ \A p \in Paths : Ancestors[p] \subseteq FolderPaths /\ CopiesOf[p] \cap FolderPaths = {}

\* Nobody edits either side during a pass, and the scan sees every name there is.
Undisturbed == Racing = {} /\ Ignored = {} /\ KindsApart

Kind(p) == IF p \in FolderPaths THEN {Absent, Folder} ELSE Contents \cup {Absent}

Kinds == \A p \in Paths : local[p] \in Kind(p) /\ remote[p] \in Kind(p) /\ known[p].local \in Kind(p)

\* A row has one content, the one both sides had.
RowsAgree == \A p \in Paths : known[p].server = known[p].local

\* The server's version of p, if there is one, is in its row.
Kept(p) == remote[p] \in Contents => Synced(p, remote[p])

\* c is the local version, new since the last sync; what it replaces is kept, or loses.
Uploadable(p, c) ==
    /\ c \in Contents /\ c = local[p] /\ c # known[p].local
    /\ Kept(p) \/ Policy \in {"local-wins", "newest-wins"}

Downloadable(p, c) ==
    /\ c \in Contents /\ c = remote[p] /\ c # known[p].server
    /\ \/ local[p] \in Contents => Synced(p, local[p])
       \/ Policy \in {"remote-wins", "newest-wins"}

\* What an item of the plan relies on until its turn comes; one that has been done leaves
\* the server's version in its row.
Due(p) ==
    /\ plan[p] = "UPLOAD"        => Uploadable(p, local[p])
    /\ plan[p] = "DOWNLOAD"      => Downloadable(p, remote[p])
    /\ plan[p] = "CONFLICT"      => /\ local[p] \in Contents /\ remote[p] \in Contents
                                    /\ local[p] # known[p].local /\ remote[p] # known[p].server
    /\ plan[p] = "RECORD"        => /\ local[p] # Absent /\ local[p] = remote[p] /\ listed[p] = remote[p]
                                    /\ p \in folders <=> local[p] = Folder
    /\ plan[p] = "MKDIR_LOCAL"   => remote[p] = Folder
    /\ plan[p] = "MKDIR_REMOTE"  => local[p] = Folder
    /\ plan[p] = "DELETE_LOCAL"  => remote[p] \notin Contents /\ (local[p] \in Contents => Synced(p, local[p]))
    /\ plan[p] = "DELETE_REMOTE" => Kept(p)
    /\ plan[p] = "FORGET"        => remote[p] \notin Contents
    /\ plan[p] = "NONE"          => item.path = p \/ Kept(p)

\* The same for the item that is going on, step by step.
UnderWay ==
    LET p == item.path IN
    item # NoItem =>
    /\ plan[p] = "NONE"
    /\ item.step = "put"     => Uploadable(p, item.buf)
    /\ item.step = "replace" => Downloadable(p, item.buf)
    /\ item.step = "record"  => item.buf \in Contents /\ item.buf = local[p] /\ item.buf = remote[p]
    /\ item.step = "emit"    => Kept(p)
    /\ item.step = "folder"  => local[p] = Folder /\ remote[p] = Folder
    /\ item.step \in {"deleted", "forget"} => remote[p] \notin Contents

\* Once a node has been deleted only deletions are left, and none is of what went with it.
DeletesLast ==
    /\ gone # {} => \A p \in Paths : plan[p] \in Deletes \cup {"NONE"}
    /\ \A p \in gone : plan[p] = "NONE"

PassTrue == pc = "run" => (\A p \in Paths : Due(p)) /\ UnderWay /\ DeletesLast

IInv == TypeOK /\ Kinds /\ RowsAgree /\ NeverFailsByItself /\ PassTrue

------------------------------------------------------------------------------
(* What a plan relies on is so when it is made *)

\* Every path gets an action or nothing, whatever is there and whatever was.
LEMMA PlansAreActions ==
    ASSUME NEW loc \in Node, NEW rem \in Node, NEW base \in Row
    PROVE  Classify(loc, rem, base) \in Actions
<1>1. CASE Present(loc, rem, base)
  BY <1>1, ClassifyTotal
<1>2. CASE ~Present(loc, rem, base)
  BY <1>2, ContentsAssumption DEF Present, Classify, ClassifyNew, Actions
<1>3. QED BY <1>1, <1>2

\* Two states of a file and a row of one content.
LEMMA FilePlans ==
    ASSUME NEW loc \in Contents \cup {Absent}, NEW rem \in Contents \cup {Absent},
           NEW base \in Row, base.server = base.local, NEW a, a = Classify(loc, rem, base)
    PROVE  /\ a = "UPLOAD" => loc \in Contents /\ loc # base.local /\ rem \in {Absent, base.server}
           /\ a = "DOWNLOAD" => rem \in Contents /\ rem # base.server /\ loc \in {Absent, base.local}
           /\ a = "CONFLICT" => /\ loc \in Contents /\ rem \in Contents
                                /\ loc # base.local /\ rem # base.server
           /\ a = "RECORD" => loc # Absent /\ loc = rem
           /\ a = "DELETE_LOCAL" => rem = Absent /\ loc = base.local
           /\ a = "DELETE_REMOTE" => rem = base.server
           /\ a \in {"FORGET", "NONE"} => rem = Absent
           /\ a \notin {"MKDIR_LOCAL", "MKDIR_REMOTE"}
<1>1. Folder \notin {loc, rem} /\ Absent \notin Contents
  BY ContentsAssumption
<1>2. CASE base = NoRow
  BY <1>1, <1>2 DEF Classify, ClassifyNew, NoRow
<1>3. CASE base # NoRow /\ Absent \in {loc, rem}
  BY <1>1, <1>3 DEF Classify, ClassifyGone, LocalChanged, RemoteChanged
<1>4. CASE base # NoRow /\ Absent \notin {loc, rem}
  BY <1>1, <1>4 DEF Classify, ClassifyBoth, LocalChanged, RemoteChanged
<1>5. QED BY <1>2, <1>3, <1>4

\* Two states of a folder.
LEMMA FolderPlans ==
    ASSUME NEW loc \in {Absent, Folder}, NEW rem \in {Absent, Folder}, NEW base \in Row,
           NEW a, a = Classify(loc, rem, base)
    PROVE  /\ a \notin {"UPLOAD", "DOWNLOAD", "CONFLICT"}
           /\ a = "RECORD" => loc = Folder /\ rem = Folder
           /\ a = "MKDIR_LOCAL" => rem = Folder
           /\ a = "MKDIR_REMOTE" => loc = Folder
<1>1. CASE Folder \in {loc, rem}
  BY <1>1, ContentsAssumption DEF Classify, ClassifyFolder
<1>2. CASE Folder \notin {loc, rem} /\ base = NoRow
  BY <1>2, ContentsAssumption DEF Classify, ClassifyNew
<1>3. CASE Folder \notin {loc, rem} /\ base # NoRow
  BY <1>3, ContentsAssumption DEF Classify, ClassifyGone
<1>4. QED BY <1>1, <1>2, <1>3

------------------------------------------------------------------------------
(* Kinds and types *)

\* What is put at p is there, and around it at most folders are made.
LEMMA PlacedThere ==
    ASSUME Undisturbed, NEW side, NEW p \in Paths, NEW node
    PROVE  /\ Placed(side, p, node)[p] = node
           /\ \A q \in Paths \ {p} : \/ Placed(side, p, node)[q] = side[q]
                                     \/ Placed(side, p, node)[q] = Folder /\ q \in FolderPaths
  BY DEF Undisturbed, KindsApart, Placed

\* The two sides stay file trees of the kinds there are.
LEMMA KindIsNode == \A p : Kind(p) \subseteq Node /\ Absent \in Kind(p)
  BY DEF Kind, Node

\* A node of p's kind may be put at p.
LEMMA PlacedKinds ==
    ASSUME Undisturbed, NEW side \in [Paths -> Node], \A q \in Paths : side[q] \in Kind(q),
           NEW p \in Paths, NEW node \in Kind(p)
    PROVE  /\ Placed(side, p, node) \in [Paths -> Node]
           /\ \A q \in Paths : Placed(side, p, node)[q] \in Kind(q)
<1>1. \A q \in Paths : Placed(side, p, node)[q] \in Kind(q)
  BY PlacedThere DEF Kind
<1>2. QED BY <1>1, KindIsNode DEF Placed, Node

\* Nothing is of every kind.
LEMMA RemovedKinds ==
    ASSUME NEW side \in [Paths -> Node], \A q \in Paths : side[q] \in Kind(q), NEW p \in Paths
    PROVE  /\ Removed(side, p) \in [Paths -> Node]
           /\ \A q \in Paths : Removed(side, p)[q] \in Kind(q)
  BY KindIsNode DEF Removed, Node

\* People's edits keep to the kinds.
LEMMA EditedKinds ==
    ASSUME Undisturbed, NEW side \in [Paths -> Node], \A q \in Paths : side[q] \in Kind(q),
           NEW next, Edited(side, next)
    PROVE  next \in [Paths -> Node] /\ \A q \in Paths : next[q] \in Kind(q)
<1>1. ASSUME NEW p \in FilePaths, NEW c \in Contents, next = Placed(side, p, c)
      PROVE  next \in [Paths -> Node] /\ \A q \in Paths : next[q] \in Kind(q)
  <2>1. p \in Paths /\ c \in Kind(p)
    BY SyncEngineAssumption DEF Undisturbed, KindsApart, Kind
  <2>2. QED BY <1>1, <2>1, PlacedKinds
<1>2. ASSUME NEW p \in FolderPaths, next = Placed(side, p, Folder)
      PROVE  next \in [Paths -> Node] /\ \A q \in Paths : next[q] \in Kind(q)
  <2>1. p \in Paths /\ Folder \in Kind(p)
    BY SyncEngineAssumption DEF Kind
  <2>2. QED BY <1>2, <2>1, PlacedKinds
<1>3. ASSUME NEW p \in Paths, next = Removed(side, p)
      PROVE  next \in [Paths -> Node] /\ \A q \in Paths : next[q] \in Kind(q)
  BY <1>3, RemovedKinds
<1>4. QED BY <1>1, <1>2, <1>3 DEF Edited

\* A client that has synced everything, or a fresh one.
LEMMA StartsInOrder ==
    ASSUME Undisturbed, Init
    PROVE  IInv
<1>1. \A p \in Paths : local[p] \in Kind(p) /\ remote[p] \in Kind(p)
  <2>1. \A p \in Paths : Usual(local) /\ Usual(remote)
    BY DEF Init
  <2>2. QED BY <2>1 DEF Usual, Kind, Undisturbed, KindsApart
<1>2. TypeOK
  BY DEF Init, TypeOK, Row, NoRow, Node, NoItem, Actions, Steps
<1>3. Kinds /\ RowsAgree
  BY <1>1, KindIsNode DEF Init, Kinds, RowsAgree, NoRow, Kind
<1>4. QED BY <1>2, <1>3 DEF Init, IInv, NeverFailsByItself, PassTrue

\* People edit between passes only, when nothing is planned.
LEMMA EditsKeep ==
    ASSUME Undisturbed, IInv, LocalEdit \/ RemoteEdit
    PROVE  IInv'
<1>1. pc # "run" /\ edits' \in Nat
  BY DEF LocalEdit, RemoteEdit, MayEdit, Undisturbed, IInv, TypeOK
<1>2. /\ local' \in [Paths -> Node] /\ \A q \in Paths : local'[q] \in Kind(q)
      /\ remote' \in [Paths -> Node] /\ \A q \in Paths : remote'[q] \in Kind(q)
  BY EditedKinds DEF LocalEdit, RemoteEdit, IInv, TypeOK, Kinds
<1>3. UNCHANGED <<known, pc, plan, listed, folders, gone, item, unannounced, faults>>
  BY <1>1 DEF LocalEdit, RemoteEdit, passVars
<1>4. QED BY <1>1, <1>2, <1>3 DEF IInv, TypeOK, Kinds, RowsAgree, NeverFailsByItself, PassTrue

\* A pass that ends, early or not, leaves the rows as they are.
LEMMA PassEndKeeps ==
    ASSUME IInv, PassDone \/ PassFails
    PROVE  IInv'
<1>1. EndPass("idle") /\ UNCHANGED <<local, remote, known, unannounced, edits>> /\ faults' \in Nat
  BY DEF PassDone, PassFails, sides, SameCounts, IInv, TypeOK
<1>2. TypeOK'
  BY <1>1 DEF IInv, TypeOK, EndPass, NoItem, Actions, Steps, Node
<1>3. QED BY <1>1, <1>2 DEF IInv, Kinds, RowsAgree, NeverFailsByItself, PassTrue, EndPass

\* What a plan relies on is so when it is made.
LEMMA StartPassKeeps ==
    ASSUME Undisturbed, IInv, StartPass
    PROVE  IInv'
<1>1. /\ pc' = "run" /\ listed' = remote /\ gone' = {} /\ item' = NoItem
      /\ UNCHANGED <<local, remote, known, unannounced, edits, faults>>
  BY DEF StartPass, sides
<1>2. \A p \in Paths : Scan(p) = local[p]
  BY DEF Undisturbed, Scan
<1>3. /\ folders' = {p \in Paths : local[p] = Folder}
      /\ plan' = [p \in Paths |-> Classify(local[p], remote[p], known[p])]
  BY <1>2 DEF StartPass
<1>4. \A p \in Paths : plan'[p] \in Actions
  BY <1>3, PlansAreActions DEF IInv, TypeOK
<1>5. TypeOK'
  BY <1>1, <1>3, <1>4 DEF IInv, TypeOK, NoItem, Steps, Node
<1>6. ASSUME NEW p \in Paths PROVE Due(p)'
  <2> DEFINE a == Classify(local[p], remote[p], known[p])
  <2>1. plan'[p] = a /\ known[p] \in Row /\ known[p].server = known[p].local
    BY <1>3 DEF IInv, TypeOK, RowsAgree
  <2>2. known[p] = [server |-> known[p].server, local |-> known[p].local]
    BY <2>1 DEF Row
  <2>3. CASE p \in FolderPaths
    <3>1. local[p] \in {Absent, Folder} /\ remote[p] \in {Absent, Folder}
      BY <2>3 DEF IInv, Kinds, Kind
    <3> HIDE DEF a
    <3>2. /\ a \notin {"UPLOAD", "DOWNLOAD", "CONFLICT"}
          /\ a = "RECORD" => local[p] = Folder /\ remote[p] = Folder
          /\ a = "MKDIR_LOCAL" => remote[p] = Folder
          /\ a = "MKDIR_REMOTE" => local[p] = Folder
      BY <2>1, <3>1, FolderPlans DEF a
    <3>3. local[p] \notin Contents /\ remote[p] \notin Contents
      BY <3>1, ContentsAssumption
    <3>4. QED BY <1>1, <1>3, <2>1, <3>2, <3>3, ContentsAssumption DEF Due, Kept
  <2>4. CASE p \notin FolderPaths
    <3>1. /\ local[p] \in Contents \cup {Absent} /\ remote[p] \in Contents \cup {Absent}
          /\ local[p] # Folder
      BY <2>4, ContentsAssumption DEF IInv, Kinds, Kind
    <3> HIDE DEF a
    <3>2. /\ a = "UPLOAD" => /\ local[p] \in Contents /\ local[p] # known[p].local
                             /\ remote[p] \in {Absent, known[p].server}
          /\ a = "DOWNLOAD" => /\ remote[p] \in Contents /\ remote[p] # known[p].server
                               /\ local[p] \in {Absent, known[p].local}
          /\ a = "CONFLICT" => /\ local[p] \in Contents /\ remote[p] \in Contents
                               /\ local[p] # known[p].local /\ remote[p] # known[p].server
          /\ a = "RECORD" => local[p] # Absent /\ local[p] = remote[p]
          /\ a = "DELETE_LOCAL" => remote[p] = Absent /\ local[p] = known[p].local
          /\ a = "DELETE_REMOTE" => remote[p] = known[p].server
          /\ a \in {"FORGET", "NONE"} => remote[p] = Absent
          /\ a \notin {"MKDIR_LOCAL", "MKDIR_REMOTE"}
      BY <2>1, <3>1, FilePlans DEF a
    <3>3. /\ remote[p] \in {Absent, known[p].server} => Kept(p)
          /\ local[p] \in {Absent, known[p].local} => (local[p] \in Contents => Synced(p, local[p]))
      BY <2>1, <2>2, ContentsAssumption DEF Kept, Synced
    <3>4. Absent \notin Contents
      BY ContentsAssumption
    <3>5. QED
      BY <1>1, <1>3, <2>1, <3>1, <3>2, <3>3, <3>4 DEF Due, Kept, Synced, Uploadable, Downloadable
  <2>5. QED BY <2>3, <2>4
<1>7. UnderWay' /\ DeletesLast'
  BY <1>1 DEF UnderWay, DeletesLast
<1>8. QED BY <1>1, <1>5, <1>6, <1>7 DEF IInv, Kinds, RowsAgree, NeverFailsByItself, PassTrue

------------------------------------------------------------------------------
(* An item leaves what the other items rely on *)

\* A path that at most becomes a folder still has what its item relies on: the kinds are apart.
LEMMA DueStays ==
    ASSUME IInv, Kinds', NEW q \in Paths, Due(q), plan'[q] = plan[q], listed'[q] = listed[q],
           folders' = folders, known'[q] = known[q], item.path # q,
           local'[q] \in {local[q], Folder}, remote'[q] \in {remote[q], Folder}
    PROVE  Due(q)'
<1>1. CASE q \in FolderPaths
  <2>1. /\ local[q] \in {Absent, Folder} /\ remote[q] \in {Absent, Folder}
        /\ local'[q] \in {Absent, Folder} /\ remote'[q] \in {Absent, Folder}
    BY <1>1 DEF IInv, Kinds, Kind
  <2>2. Absent \notin Contents /\ Folder \notin Contents
    BY ContentsAssumption
  <2>3. plan[q] \notin {"UPLOAD", "DOWNLOAD", "CONFLICT"}
    BY <2>1, <2>2 DEF Due, Uploadable, Downloadable
  <2>4. QED BY <2>1, <2>2, <2>3 DEF Due, Kept
<1>2. CASE q \notin FolderPaths
  <2>1. local'[q] # Folder /\ remote'[q] # Folder
    BY <1>2, ContentsAssumption DEF Kinds, Kind
  <2>2. local'[q] = local[q] /\ remote'[q] = remote[q]
    BY <2>1
  <2>3. QED BY <2>2 DEF Due, Uploadable, Downloadable, Kept, Synced
<1>3. QED BY <1>1, <1>2

\* Ready: nothing else is going on, and what is left comes later.
LEMMA ItemsTurn ==
    ASSUME IInv, NEW p \in Paths, NEW a, a # "NONE", Ready(p, a)
    PROVE  /\ pc = "run" /\ item = NoItem /\ plan[p] = a
           /\ \A q \in Paths : Due(q) /\ item.path # q
           /\ a \notin Deletes => gone = {}
           /\ DeletesLast
  BY SyncEngineAssumption DEF Ready, IInv, PassTrue, NoItem, DeletesLast

\* An item begins to transfer, or is done at once: one path's plan and item change.
LEMMA ItemTaken ==
    ASSUME Undisturbed, IInv, NEW p \in Paths, NEW a \in Actions \ {"NONE"}, Ready(p, a),
           Take(p), Continue(item'), UNCHANGED <<edits, faults>>,
           item' \in [step : Steps, path : {p}, buf : Node] \cup {NoItem},
           local' \in [Paths -> Node], remote' \in [Paths -> Node], known' \in [Paths -> Row],
           Kinds', RowsAgree', UnderWay',
           \A q \in Paths \ {p} : /\ local'[q] \in {local[q], Folder}
                                  /\ remote'[q] \in {remote[q], Folder} /\ known'[q] = known[q],
           item' = NoItem => Kept(p)',
           gone' = gone, unannounced' \subseteq Paths
    PROVE  IInv'
<1>1. /\ pc = "run" /\ item = NoItem /\ \A q \in Paths : Due(q) /\ item.path # q
      /\ DeletesLast
  BY ItemsTurn
<1>2. pc' = "run" /\ listed' = listed /\ folders' = folders
  BY <1>1 DEF Continue
<1>3. plan' = [plan EXCEPT ![p] = "NONE"]
  BY DEF Take
<1>4. TypeOK'
  <2>1. plan' \in [Paths -> Actions]
    BY <1>3 DEF IInv, TypeOK, Actions
  <2>2. item' \in [step : Steps, path : Paths \cup {NoPath}, buf : Node]
    BY DEF NoItem, Steps, Node
  <2>3. item' # NoItem => item'.path \in Paths
    OBVIOUS
  <2>4. QED BY <1>2, <2>1, <2>2, <2>3 DEF IInv, TypeOK
<1>5. ASSUME NEW q \in Paths \ {p} PROVE Due(q)'
  BY <1>1, <1>2, <1>3, DueStays DEF IInv, TypeOK
<1>6. Due(p)'
  <2>1. plan'[p] = "NONE" /\ (item'.path = p \/ Kept(p)')
    BY <1>3 DEF IInv, TypeOK
  <2>2. QED BY <2>1 DEF Due
<1>7. DeletesLast'
  BY <1>1, <1>3 DEF DeletesLast, IInv, TypeOK
<1>8. QED BY <1>2, <1>4, <1>5, <1>6, <1>7 DEF IInv, NeverFailsByItself, PassTrue

\* The item that is going on does its next step, or ends.
LEMMA ItemGoesOn ==
    ASSUME Undisturbed, IInv, NEW p \in Paths, item.path = p, item # NoItem,
           Continue(item'), UNCHANGED <<plan, gone, edits, faults>>,
           item' \in [step : Steps, path : {p}, buf : Node] \cup {NoItem},
           local' \in [Paths -> Node], remote' \in [Paths -> Node], known' \in [Paths -> Row],
           Kinds', RowsAgree', UnderWay',
           \A q \in Paths \ {p} : /\ local'[q] \in {local[q], Folder}
                                  /\ remote'[q] \in {remote[q], Folder} /\ known'[q] = known[q],
           item' = NoItem => Kept(p)',
           unannounced' \subseteq Paths
    PROVE  IInv'
<1>1. /\ pc = "run" /\ \A q \in Paths : Due(q)
      /\ DeletesLast /\ plan[p] = "NONE"
  BY DEF IInv, TypeOK, PassTrue, UnderWay
<1>2. pc' = "run" /\ listed' = listed /\ folders' = folders
  BY <1>1 DEF Continue
<1>4. TypeOK'
  <2>2. item' \in [step : Steps, path : Paths \cup {NoPath}, buf : Node]
    BY DEF NoItem, Steps, Node
  <2>3. item' # NoItem => item'.path \in Paths
    OBVIOUS
  <2>4. QED BY <1>2, <2>2, <2>3 DEF IInv, TypeOK
<1>5. ASSUME NEW q \in Paths \ {p} PROVE Due(q)'
  BY <1>1, <1>2, DueStays
<1>6. Due(p)'
  BY <1>1 DEF Due
<1>7. DeletesLast'
  BY <1>1 DEF DeletesLast
<1>8. QED BY <1>2, <1>4, <1>5, <1>6, <1>7 DEF IInv, NeverFailsByItself, PassTrue

------------------------------------------------------------------------------
(* The items *)

\* upload_file reads the version that was planned to be uploaded.
LEMMA UploadReadKeeps ==
    ASSUME Undisturbed, IInv, NEW p \in Paths, UploadRead(p)
    PROVE  IInv'
<1>1. Ready(p, "UPLOAD")
  BY DEF UploadRead
<1>2. item = NoItem /\ Due(p) /\ plan[p] = "UPLOAD"
  BY <1>1, ItemsTurn
<1>3. Uploadable(p, local[p])
  BY <1>2 DEF Due
<1>4. /\ Take(p) /\ Continue(At("put", p, local[p]))
      /\ UNCHANGED <<local, remote, known, gone, unannounced, edits, faults>>
  BY <1>3 DEF UploadRead, Uploadable, sides, SameCounts
<1>5. item' = [step |-> "put", path |-> p, buf |-> local[p]] /\ plan'[p] = "NONE"
  BY <1>4 DEF Continue, At, Take, IInv, TypeOK
<1>6. Uploadable(p, local[p])'
  BY <1>3, <1>4 DEF Uploadable, Kept, Synced
<1>7. UnderWay'
  BY <1>4, <1>5, <1>6 DEF UnderWay
<1>8. item' \in [step : Steps, path : {p}, buf : Node]
  BY <1>5 DEF Steps, IInv, TypeOK
<1>9. Continue(item') /\ "UPLOAD" \in Actions \ {"NONE"} /\ item' # NoItem
  BY <1>4, <1>5, SyncEngineAssumption DEF Continue, Actions, NoItem
<1>10. Kinds' /\ RowsAgree'
  BY <1>4 DEF IInv, Kinds, RowsAgree
<1>11. QED
  BY <1>1, <1>4, <1>7, <1>8, <1>9, <1>10, ItemTaken DEF IInv, TypeOK

\* finish: the server's version is the one that was read, and the disk still has it.
LEMMA UploadPutKeeps ==
    ASSUME Undisturbed, IInv, UploadPut
    PROVE  IInv'
<1>1. item.step = "put" /\ item # NoItem
  BY DEF UploadPut, NoItem
<1>2. PICK p \in Paths : item.path = p
  BY <1>1 DEF IInv, TypeOK
<1> USE <1>2
<1>0. pc = "run" /\ UnderWay
  BY <1>1 DEF IInv, TypeOK, PassTrue
<1>3. Uploadable(p, item.buf) /\ plan[p] = "NONE"
  BY <1>1, <1>0 DEF UnderWay
<1>4. p \notin FolderPaths /\ item.buf \in Kind(p)
  BY <1>3, ContentsAssumption DEF Uploadable, IInv, Kinds, Kind
<1>5. remote[p] # Folder /\ Placeable(remote, p)
  <2>1. \A a \in Ancestors[p] : a \in FolderPaths /\ a \in Paths
    BY SyncEngineAssumption DEF Undisturbed, KindsApart
  <2>2. QED BY <1>4, <2>1, ContentsAssumption DEF IInv, Kinds, Kind, Placeable
<1>6. /\ remote' = Placed(remote, p, item.buf) /\ unannounced' = unannounced \cup {p}
      /\ Continue([item EXCEPT !.step = "record"])
      /\ UNCHANGED <<local, known, plan, gone, edits, faults>>
  BY <1>5 DEF UploadPut, SameCounts
<1>7. item' = [step |-> "record", path |-> p, buf |-> item.buf]
  BY <1>6 DEF Continue, IInv, TypeOK
<1>8. remote'[p] = item.buf /\ remote' \in [Paths -> Node] /\ Kinds'
  <2>1. remote'[p] = item.buf
    BY <1>6 DEF Placed
  <2>2. remote \in [Paths -> Node] /\ \A q \in Paths : remote[q] \in Kind(q)
    BY DEF IInv, TypeOK, Kinds
  <2>3. remote' \in [Paths -> Node] /\ \A q \in Paths : remote'[q] \in Kind(q)
    BY <1>4, <1>6, <2>2, PlacedKinds
  <2>4. QED BY <1>6, <2>1, <2>3 DEF IInv, Kinds
<1>9. \A q \in Paths \ {p} : remote'[q] \in {remote[q], Folder}
  BY <1>6, PlacedThere
<1>10. UnderWay'
  BY <1>3, <1>6, <1>7, <1>8 DEF UnderWay, Uploadable
<1>11. item' \in [step : Steps, path : {p}, buf : Node]
  BY <1>7 DEF Steps, IInv, TypeOK
<1>12. Continue(item') /\ item' # NoItem
  BY <1>6, <1>7 DEF Continue, NoItem
<1>13. RowsAgree'
  BY <1>6 DEF IInv, RowsAgree
<1>14. QED
  BY <1>1, <1>6, <1>8, <1>9, <1>10, <1>11, <1>12, <1>13, ItemGoesOn DEF IInv, TypeOK

\* download_file gets the version that was planned to be downloaded; its node is there.
LEMMA DownloadGetKeeps ==
    ASSUME Undisturbed, IInv, NEW p \in Paths, DownloadGet(p)
    PROVE  IInv'
<1>1. Ready(p, "DOWNLOAD")
  BY DEF DownloadGet
<1>2. item = NoItem /\ Due(p) /\ plan[p] = "DOWNLOAD" /\ gone = {}
  BY <1>1, ItemsTurn DEF Deletes
<1>3. Downloadable(p, remote[p])
  BY <1>2 DEF Due
<1>4. /\ Take(p) /\ Continue(At("replace", p, remote[p]))
      /\ UNCHANGED <<local, remote, known, gone, unannounced, edits, faults>>
  BY <1>2, <1>3 DEF DownloadGet, Downloadable, sides, SameCounts
<1>5. item' = [step |-> "replace", path |-> p, buf |-> remote[p]] /\ plan'[p] = "NONE"
  BY <1>4 DEF Continue, At, Take, IInv, TypeOK
<1>6. Downloadable(p, remote[p])'
  BY <1>3, <1>4 DEF Downloadable, Synced
<1>7. UnderWay'
  BY <1>4, <1>5, <1>6 DEF UnderWay
<1>8. item' \in [step : Steps, path : {p}, buf : Node]
  BY <1>5 DEF Steps, IInv, TypeOK
<1>9. Continue(item') /\ "DOWNLOAD" \in Actions \ {"NONE"} /\ item' # NoItem
  BY <1>4, <1>5, SyncEngineAssumption DEF Continue, Actions, NoItem
<1>10. Kinds' /\ RowsAgree'
  BY <1>4 DEF IInv, Kinds, RowsAgree
<1>11. QED
  BY <1>1, <1>4, <1>7, <1>8, <1>9, <1>10, ItemTaken DEF IInv, TypeOK

\* The file replaced is the server's version then, and the server still has it.
LEMMA DownloadReplaceKeeps ==
    ASSUME Undisturbed, IInv, DownloadReplace
    PROVE  IInv'
<1>1. item.step = "replace" /\ item # NoItem
  BY DEF DownloadReplace, NoItem
<1>2. PICK p \in Paths : item.path = p
  BY <1>1 DEF IInv, TypeOK
<1> USE <1>2
<1>0. pc = "run" /\ UnderWay
  BY <1>1 DEF IInv, TypeOK, PassTrue
<1>3. Downloadable(p, item.buf) /\ plan[p] = "NONE"
  BY <1>1, <1>0 DEF UnderWay
<1>4. p \notin FolderPaths /\ item.buf \in Kind(p)
  BY <1>3, ContentsAssumption DEF Downloadable, IInv, Kinds, Kind
<1>5. local[p] # Folder /\ Placeable(local, p)
  <2>1. \A a \in Ancestors[p] : a \in FolderPaths /\ a \in Paths
    BY SyncEngineAssumption DEF Undisturbed, KindsApart
  <2>2. QED BY <1>4, <2>1, ContentsAssumption DEF IInv, Kinds, Kind, Placeable
<1>6. /\ local' = Placed(local, p, item.buf) /\ unannounced' = unannounced \cup {p}
      /\ Continue([item EXCEPT !.step = "record"])
      /\ UNCHANGED <<remote, known, plan, gone, edits, faults>>
  BY <1>5 DEF DownloadReplace, SameCounts
<1>7. item' = [step |-> "record", path |-> p, buf |-> item.buf]
  BY <1>6 DEF Continue, IInv, TypeOK
<1>8. local'[p] = item.buf /\ local' \in [Paths -> Node] /\ Kinds'
  <2>1. local'[p] = item.buf
    BY <1>6 DEF Placed
  <2>2. local \in [Paths -> Node] /\ \A q \in Paths : local[q] \in Kind(q)
    BY DEF IInv, TypeOK, Kinds
  <2>3. local' \in [Paths -> Node] /\ \A q \in Paths : local'[q] \in Kind(q)
    BY <1>4, <1>6, <2>2, PlacedKinds
  <2>4. QED BY <1>6, <2>1, <2>3 DEF IInv, Kinds
<1>9. \A q \in Paths \ {p} : local'[q] \in {local[q], Folder}
  BY <1>6, PlacedThere
<1>10. UnderWay'
  BY <1>3, <1>6, <1>7, <1>8 DEF UnderWay, Downloadable
<1>11. item' \in [step : Steps, path : {p}, buf : Node]
  BY <1>7 DEF Steps, IInv, TypeOK
<1>12. Continue(item') /\ item' # NoItem
  BY <1>6, <1>7 DEF Continue, NoItem
<1>13. RowsAgree'
  BY <1>6 DEF IInv, RowsAgree
<1>14. QED
  BY <1>1, <1>6, <1>8, <1>9, <1>10, <1>11, <1>12, <1>13, ItemGoesOn DEF IInv, TypeOK

\* A row is written of what both sides have.
LEMMA RecordKeeps ==
    ASSUME Undisturbed, IInv, Record
    PROVE  IInv'
<1>1. item.step = "record" /\ item # NoItem
  BY DEF Record, NoItem
<1>2. PICK p \in Paths : item.path = p
  BY <1>1 DEF IInv, TypeOK
<1> USE <1>2
<1>0. pc = "run" /\ UnderWay
  BY <1>1 DEF IInv, TypeOK, PassTrue
<1>3. item.buf \in Contents /\ item.buf = local[p] /\ item.buf = remote[p] /\ plan[p] = "NONE"
  BY <1>1, <1>0 DEF UnderWay
<1>4. /\ RecordSynced(p, item.buf) /\ Continue([item EXCEPT !.step = "emit"])
      /\ UNCHANGED <<local, remote, plan, gone, unannounced, edits, faults>>
  BY <1>3 DEF Record, sides, SameCounts
<1>5. item' = [step |-> "emit", path |-> p, buf |-> item.buf]
  BY <1>4 DEF Continue, IInv, TypeOK
<1>6. known' = [known EXCEPT ![p] = [server |-> item.buf, local |-> item.buf]]
  BY <1>3, <1>4 DEF RecordSynced
<1>7. /\ known' \in [Paths -> Row] /\ known'[p] = [server |-> item.buf, local |-> item.buf]
      /\ \A q \in Paths \ {p} : known'[q] = known[q]
  BY <1>6 DEF IInv, TypeOK, Row
<1>8. Kinds' /\ RowsAgree'
  BY <1>3, <1>4, <1>7 DEF IInv, Kinds, RowsAgree
<1>9. Kept(p)'
  BY <1>3, <1>4, <1>7 DEF Kept, Synced
<1>10. UnderWay'
  BY <1>3, <1>4, <1>5, <1>9 DEF UnderWay
<1>11. item' \in [step : Steps, path : {p}, buf : Node] /\ item' # NoItem
  BY <1>5 DEF Steps, IInv, TypeOK, NoItem
<1>12. Continue(item')
  BY <1>4, <1>5 DEF Continue
<1>13. QED
  BY <1>1, <1>4, <1>7, <1>8, <1>10, <1>11, <1>12, ItemGoesOn DEF IInv, TypeOK

\* The steps that touch neither side nor a row.
LEMMA EmitsKeep ==
    ASSUME Undisturbed, IInv, Emit \/ EmitDeleted
    PROVE  IInv'
<1>1. item.step \in {"emit", "deleted"} /\ item # NoItem
  BY DEF Emit, EmitDeleted, NoItem
<1>2. PICK p \in Paths : item.path = p
  BY <1>1 DEF IInv, TypeOK
<1> USE <1>2
<1>0. pc = "run" /\ UnderWay
  BY <1>1 DEF IInv, TypeOK, PassTrue
<1>3. plan[p] = "NONE" /\ Kept(p)
  BY <1>1, <1>0 DEF UnderWay, Kept
<1>4. /\ unannounced' = unannounced \ {p}
      /\ UNCHANGED <<local, remote, known, plan, gone, edits, faults>>
  BY DEF Emit, EmitDeleted, sides, SameCounts
<1>5. \/ item' = NoItem
      \/ item.step = "deleted" /\ item' = [step |-> "forget", path |-> p, buf |-> item.buf]
  BY <1>1 DEF Emit, EmitDeleted, Continue, IInv, TypeOK
<1>6. Kinds' /\ RowsAgree' /\ Kept(p)'
  BY <1>3, <1>4 DEF IInv, Kinds, RowsAgree, Kept, Synced
<1>7. UnderWay'
  <2>1. CASE item' = NoItem
    BY <2>1 DEF UnderWay
  <2>2. CASE item.step = "deleted" /\ item' = [step |-> "forget", path |-> p, buf |-> item.buf]
    <3>1. remote[p] \notin Contents
      BY <1>0, <1>1, <2>2 DEF UnderWay
    <3>2. QED BY <1>3, <1>4, <2>2, <3>1 DEF UnderWay
  <2>3. QED BY <1>5, <2>1, <2>2
<1>8. item' \in [step : Steps, path : {p}, buf : Node] \cup {NoItem}
  BY <1>5 DEF Steps, IInv, TypeOK
<1>9. Continue(item')
  BY DEF Emit, EmitDeleted, Continue
<1>10. QED
  BY <1>1, <1>4, <1>6, <1>7, <1>8, <1>9, ItemGoesOn DEF IInv, TypeOK

\* _record_folder: both sides have the folder by now.
LEMMA RecordFolderKeeps ==
    ASSUME Undisturbed, IInv, RecordFolder
    PROVE  IInv'
<1>1. item.step = "folder" /\ item # NoItem
  BY DEF RecordFolder, NoItem
<1>2. PICK p \in Paths : item.path = p
  BY <1>1 DEF IInv, TypeOK
<1> USE <1>2
<1>0. pc = "run" /\ UnderWay
  BY <1>1 DEF IInv, TypeOK, PassTrue
<1>3. plan[p] = "NONE" /\ local[p] = Folder /\ remote[p] = Folder
  BY <1>1, <1>0 DEF UnderWay
<1>4. /\ known' = [known EXCEPT ![p] = FolderRow] /\ item' = NoItem /\ Continue(item')
      /\ UNCHANGED <<local, remote, plan, gone, unannounced, edits, faults>>
  BY DEF RecordFolder, Continue, sides, SameCounts
<1>5. /\ known' \in [Paths -> Row] /\ known'[p] = FolderRow
      /\ \A q \in Paths \ {p} : known'[q] = known[q]
  BY <1>4 DEF IInv, TypeOK, Row, FolderRow, Node
<1>6. Kinds' /\ RowsAgree'
  BY <1>3, <1>4, <1>5 DEF IInv, Kinds, RowsAgree, FolderRow
<1>7. Kept(p)' /\ UnderWay'
  BY <1>3, <1>4, ContentsAssumption DEF Kept, UnderWay
<1>8. QED
  BY <1>1, <1>4, <1>5, <1>6, <1>7, ItemGoesOn DEF IInv, TypeOK

\* state.remove: the server has no version that could miss its row.
LEMMA ForgetKeeps ==
    ASSUME Undisturbed, IInv, Forget
    PROVE  IInv'
<1>1. item.step = "forget" /\ item # NoItem
  BY DEF Forget, NoItem
<1>2. PICK p \in Paths : item.path = p
  BY <1>1 DEF IInv, TypeOK
<1> USE <1>2
<1>0. pc = "run" /\ UnderWay
  BY <1>1 DEF IInv, TypeOK, PassTrue
<1>3. plan[p] = "NONE" /\ remote[p] \notin Contents
  BY <1>1, <1>0 DEF UnderWay
<1>4. /\ known' = [known EXCEPT ![p] = NoRow]
      /\ UNCHANGED <<local, remote, plan, gone, unannounced, edits, faults>>
  BY DEF Forget, sides, SameCounts
<1>5. /\ known' \in [Paths -> Row] /\ known'[p] = NoRow
      /\ \A q \in Paths \ {p} : known'[q] = known[q]
  BY <1>4 DEF IInv, TypeOK, Row, NoRow, Node
<1>6. Kinds' /\ RowsAgree'
  BY <1>4, <1>5, KindIsNode DEF IInv, Kinds, RowsAgree, NoRow
<1>7. item' = NoItem \/ item' = [step |-> "emit", path |-> p, buf |-> item.buf]
  BY DEF Forget, Continue, IInv, TypeOK
<1>8. Kept(p)'
  BY <1>3, <1>4 DEF Kept
<1>9. UnderWay'
  BY <1>3, <1>4, <1>7, <1>8 DEF UnderWay
<1>10. item' \in [step : Steps, path : {p}, buf : Node] \cup {NoItem} /\ Continue(item')
  BY <1>7 DEF Steps, IInv, TypeOK, Forget, Continue
<1>11. QED
  BY <1>1, <1>4, <1>5, <1>6, <1>8, <1>9, <1>10, ItemGoesOn DEF IInv, TypeOK

\* _do_record: a row is written of what both sides were seen to have.
LEMMA RecordItemKeeps ==
    ASSUME Undisturbed, IInv, NEW p \in Paths, RecordItem(p)
    PROVE  IInv'
<1>1. Ready(p, "RECORD")
  BY DEF RecordItem
<1>2. item = NoItem /\ Due(p) /\ plan[p] = "RECORD"
  BY <1>1, ItemsTurn
<1>3. /\ local[p] # Absent /\ local[p] = remote[p] /\ listed[p] = remote[p]
      /\ p \in folders <=> local[p] = Folder
  BY <1>2 DEF Due
<1>4. local[p] \in Contents \/ local[p] = Folder
  BY <1>3 DEF IInv, TypeOK, Node
<1>5. /\ IF p \in folders THEN known' = [known EXCEPT ![p] = FolderRow]
         ELSE RecordSynced(p, listed[p])
      /\ Take(p) /\ Continue(NoItem)
      /\ UNCHANGED <<local, remote, gone, unannounced, edits, faults>>
  BY <1>3, <1>4 DEF RecordItem, sides, SameCounts
<1>6. known' = [known EXCEPT ![p] = [server |-> local[p], local |-> local[p]]]
  BY <1>3, <1>5 DEF RecordSynced, FolderRow
<1>7. /\ known' \in [Paths -> Row] /\ known'[p] = [server |-> local[p], local |-> local[p]]
      /\ \A q \in Paths \ {p} : known'[q] = known[q]
  BY <1>6 DEF IInv, TypeOK, Row
<1>8. Kinds' /\ RowsAgree'
  BY <1>5, <1>7 DEF IInv, Kinds, RowsAgree
<1>9. Kept(p)' /\ item' = NoItem /\ Continue(item') /\ UnderWay'
  BY <1>3, <1>5, <1>7 DEF Kept, Synced, Continue, UnderWay
<1>10. "RECORD" \in Actions \ {"NONE"}
  BY DEF Actions
<1>11. QED
  BY <1>1, <1>5, <1>7, <1>8, <1>9, <1>10, ItemTaken DEF IInv, TypeOK

\* state.remove of a path that neither side has as a file.
LEMMA ForgetItemKeeps ==
    ASSUME Undisturbed, IInv, NEW p \in Paths, ForgetItem(p)
    PROVE  IInv'
<1>1. Ready(p, "FORGET")
  BY DEF ForgetItem
<1>2. item = NoItem /\ Due(p) /\ plan[p] = "FORGET"
  BY <1>1, ItemsTurn
<1>3. remote[p] \notin Contents
  BY <1>2 DEF Due
<1>4. /\ known' = [known EXCEPT ![p] = NoRow] /\ Take(p) /\ Continue(NoItem)
      /\ UNCHANGED <<local, remote, gone, unannounced, edits, faults>>
  BY DEF ForgetItem, sides, SameCounts
<1>5. /\ known' \in [Paths -> Row] /\ known'[p] = NoRow
      /\ \A q \in Paths \ {p} : known'[q] = known[q]
  BY <1>4 DEF IInv, TypeOK, Row, NoRow, Node
<1>6. Kinds' /\ RowsAgree'
  BY <1>4, <1>5, KindIsNode DEF IInv, Kinds, RowsAgree, NoRow
<1>7. Kept(p)' /\ item' = NoItem /\ Continue(item') /\ UnderWay'
  BY <1>3, <1>4 DEF Kept, Continue, UnderWay
<1>8. "FORGET" \in Actions \ {"NONE"}
  BY DEF Actions
<1>9. QED
  BY <1>1, <1>4, <1>5, <1>6, <1>7, <1>8, ItemTaken DEF IInv, TypeOK

\* mkdir: the server has the folder, and nothing but folders is above it.
LEMMA MkdirLocalKeeps ==
    ASSUME Undisturbed, IInv, NEW p \in Paths, MkdirLocal(p)
    PROVE  IInv'
<1>1. Ready(p, "MKDIR_LOCAL")
  BY DEF MkdirLocal
<1>2. item = NoItem /\ Due(p) /\ plan[p] = "MKDIR_LOCAL"
  BY <1>1, ItemsTurn
<1>3. remote[p] = Folder
  BY <1>2 DEF Due
<1>4. p \in FolderPaths /\ Folder \in Kind(p)
  BY <1>3, ContentsAssumption DEF IInv, Kinds, Kind
<1>5. MakesFolder(p, local)
  <2>1. \A a \in Ancestors[p] : a \in FolderPaths /\ a \in Paths
    BY SyncEngineAssumption DEF Undisturbed, KindsApart
  <2>2. \A q \in FolderPaths : q \in Paths => local[q] \in {Absent, Folder}
    BY DEF IInv, Kinds, Kind
  <2>3. QED BY <1>4, <2>1, <2>2 DEF Placeable, MakesFolder
<1>6. /\ local' = Placed(local, p, Folder) /\ Take(p) /\ Continue(At("folder", p, Absent))
      /\ UNCHANGED <<remote, known, gone, unannounced, edits, faults>>
  BY <1>5 DEF MkdirLocal, SameCounts
<1>7. item' = [step |-> "folder", path |-> p, buf |-> Absent] /\ plan'[p] = "NONE"
  BY <1>6 DEF Continue, At, Take, IInv, TypeOK
<1>8. local'[p] = Folder /\ local' \in [Paths -> Node] /\ Kinds'
  <2>1. local'[p] = Folder
    BY <1>6 DEF Placed
  <2>2. local \in [Paths -> Node] /\ \A q \in Paths : local[q] \in Kind(q)
    BY DEF IInv, TypeOK, Kinds
  <2>3. local' \in [Paths -> Node] /\ \A q \in Paths : local'[q] \in Kind(q)
    BY <1>4, <1>6, <2>2, PlacedKinds
  <2>4. QED BY <1>6, <2>1, <2>3 DEF IInv, Kinds
<1>9. \A q \in Paths \ {p} : local'[q] \in {local[q], Folder}
  BY <1>6, PlacedThere
<1>10. UnderWay'
  BY <1>3, <1>6, <1>7, <1>8 DEF UnderWay
<1>11. item' \in [step : Steps, path : {p}, buf : Node] /\ item' # NoItem /\ Continue(item')
  BY <1>6, <1>7 DEF Steps, Node, NoItem, Continue
<1>12. RowsAgree' /\ "MKDIR_LOCAL" \in Actions \ {"NONE"}
  BY <1>6 DEF IInv, RowsAgree, Actions
<1>13. QED
  BY <1>1, <1>6, <1>8, <1>9, <1>10, <1>11, <1>12, ItemTaken DEF IInv, TypeOK

\* create_folder: this side has the folder.
LEMMA MkdirRemoteKeeps ==
    ASSUME Undisturbed, IInv, NEW p \in Paths, MkdirRemote(p)
    PROVE  IInv'
<1>1. Ready(p, "MKDIR_REMOTE")
  BY DEF MkdirRemote
<1>2. item = NoItem /\ Due(p) /\ plan[p] = "MKDIR_REMOTE"
  BY <1>1, ItemsTurn
<1>3. local[p] = Folder
  BY <1>2 DEF Due
<1>4. p \in FolderPaths /\ Folder \in Kind(p)
  BY <1>3, ContentsAssumption DEF IInv, Kinds, Kind
<1>5. MakesFolder(p, remote)
  <2>1. \A a \in Ancestors[p] : a \in FolderPaths /\ a \in Paths
    BY SyncEngineAssumption DEF Undisturbed, KindsApart
  <2>2. \A q \in FolderPaths : q \in Paths => remote[q] \in {Absent, Folder}
    BY DEF IInv, Kinds, Kind
  <2>3. QED BY <1>4, <2>1, <2>2 DEF Placeable, MakesFolder
<1>6. /\ remote' = Placed(remote, p, Folder) /\ Take(p) /\ Continue(At("folder", p, Absent))
      /\ UNCHANGED <<local, known, gone, unannounced, edits, faults>>
  BY <1>5 DEF MkdirRemote, SameCounts
<1>7. item' = [step |-> "folder", path |-> p, buf |-> Absent] /\ plan'[p] = "NONE"
  BY <1>6 DEF Continue, At, Take, IInv, TypeOK
<1>8. remote'[p] = Folder /\ remote' \in [Paths -> Node] /\ Kinds'
  <2>1. remote'[p] = Folder
    BY <1>6 DEF Placed
  <2>2. remote \in [Paths -> Node] /\ \A q \in Paths : remote[q] \in Kind(q)
    BY DEF IInv, TypeOK, Kinds
  <2>3. remote' \in [Paths -> Node] /\ \A q \in Paths : remote'[q] \in Kind(q)
    BY <1>4, <1>6, <2>2, PlacedKinds
  <2>4. QED BY <1>6, <2>1, <2>3 DEF IInv, Kinds
<1>9. \A q \in Paths \ {p} : remote'[q] \in {remote[q], Folder}
  BY <1>6, PlacedThere
<1>10. UnderWay'
  BY <1>3, <1>6, <1>7, <1>8 DEF UnderWay
<1>11. item' \in [step : Steps, path : {p}, buf : Node] /\ item' # NoItem /\ Continue(item')
  BY <1>6, <1>7 DEF Steps, Node, NoItem, Continue
<1>12. RowsAgree' /\ "MKDIR_REMOTE" \in Actions \ {"NONE"}
  BY <1>6 DEF IInv, RowsAgree, Actions
<1>13. QED
  BY <1>1, <1>6, <1>8, <1>9, <1>10, <1>11, <1>12, ItemTaken DEF IInv, TypeOK

\* _do_delete_local: the server has no version that the row could miss.
LEMMA DeleteLocalKeeps ==
    ASSUME Undisturbed, IInv, NEW p \in Paths, DeleteLocal(p)
    PROVE  IInv'
<1>1. Ready(p, "DELETE_LOCAL")
  BY DEF DeleteLocal
<1>2. item = NoItem /\ Due(p) /\ plan[p] = "DELETE_LOCAL"
  BY <1>1, ItemsTurn
<1>3. remote[p] \notin Contents
  BY <1>2 DEF Due
<1>4. /\ local' = local \/ local' = [local EXCEPT ![p] = Absent]
      /\ item' = NoItem \/ \E step \in {"deleted", "forget"} : item' = At(step, p, Absent)
      /\ unannounced' \in {unannounced, unannounced \cup {p}}
      /\ Take(p) /\ UNCHANGED <<pc, listed, folders>>
      /\ UNCHANGED <<remote, known, gone, edits, faults>>
  <2>1. CASE local[p] = Folder /\ \E q \in Subtree(p) \ {p} : local[q] # Absent
    BY <2>1 DEF DeleteLocal, Continue, SameCounts
  <2>2. CASE ~(local[p] = Folder /\ \E q \in Subtree(p) \ {p} : local[q] # Absent)
    BY <2>2 DEF DeleteLocal, Continue, SameCounts
  <2>3. QED BY <2>1, <2>2
<1>5. /\ local' \in [Paths -> Node] /\ \A q \in Paths \ {p} : local'[q] = local[q]
      /\ Kinds' /\ RowsAgree'
  BY <1>4, KindIsNode DEF IInv, TypeOK, Kinds, RowsAgree, Node
<1>6. plan'[p] = "NONE" /\ Kept(p)'
  BY <1>3, <1>4 DEF Take, Kept, IInv, TypeOK
<1>7. UnderWay'
  BY <1>3, <1>4, <1>6 DEF UnderWay, At
<1>8. /\ item' \in [step : Steps, path : {p}, buf : Node] \cup {NoItem}
      /\ Continue(item') /\ "DELETE_LOCAL" \in Actions \ {"NONE"}
  BY <1>4 DEF At, Steps, Node, Continue, Actions
<1>9. QED
  BY <1>1, <1>4, <1>5, <1>6, <1>7, <1>8, ItemTaken DEF IInv, TypeOK

\* What lies in a folder lies deeper.
LEMMA DeeperBelow ==
    ASSUME NEW p \in Paths, NEW q \in Subtree(p) \ {p}
    PROVE  Depth(p) \in Nat /\ Depth(q) \in Nat /\ Depth(q) > Depth(p)
<1>1. q \in Paths /\ p \in Ancestors[q] /\ p \notin Ancestors[p] /\ Ancestors[p] \subseteq Ancestors[q]
  BY SyncEngineAssumption DEF Subtree
<1>2. IsFiniteSet(Ancestors[p]) /\ IsFiniteSet(Ancestors[q])
  BY <1>1, SyncEngineAssumption
<1>3. Depth(p) \in Nat /\ Depth(q) \in Nat
  BY <1>2, FS_CardinalityType DEF Depth
<1>4. Depth(p) <= Depth(q) /\ Depth(p) # Depth(q)
  BY <1>1, <1>2, FS_Subset DEF Depth
<1>5. QED BY <1>3, <1>4

\* When a delete's turn comes only deletes are left, and none of what lies below it.
LEMMA DeletesTurn ==
    ASSUME IInv, NEW p \in Paths, NEW a \in Deletes, Ready(p, a)
    PROVE  /\ \A q \in Paths : plan[q] \in Deletes \cup {"NONE"}
           /\ \A q \in Subtree(p) \ {p} : plan[q] = "NONE"
<1>1. Priority(plan[p]) = 3 /\ plan[p] \in Deletes
  BY DEF Ready, Deletes, Priority
<1>2. \A q \in Paths : /\ plan[q] \in Actions
                       /\ Priority(plan[q]) \in Nat
                       /\ Priority(plan[q]) >= 3 => plan[q] \in Deletes \cup {"NONE"}
                       /\ plan[q] \in Deletes => Priority(plan[q]) = 3
  BY DEF IInv, TypeOK, Actions, Priority, Deletes
<1>3. ASSUME NEW q \in Paths \ {p}, plan[q] # "NONE"
      PROVE  plan[q] \in Deletes /\ Depth(p) >= Depth(q)
  <2>1. Precedes(p, q)
    BY <1>3 DEF Ready
  <2>2. Depth(p) \in Nat /\ Depth(q) \in Nat
    BY SyncEngineAssumption, FS_CardinalityType DEF Depth
  <2>3. Priority(plan[q]) >= 3
    BY <1>1, <1>2, <2>1 DEF Precedes
  <2>4. plan[q] \in Deletes
    BY <1>2, <1>3, <2>3
  <2>5. QED BY <1>1, <1>2, <2>1, <2>2, <2>4 DEF Precedes
<1>4. ASSUME NEW q \in Subtree(p) \ {p} PROVE plan[q] = "NONE"
  <2>1. q \in Paths \ {p}
    BY DEF Subtree
  <2>2. QED BY <1>3, <2>1, DeeperBelow
<1>5. QED BY <1>1, <1>3, <1>4

\* delete by id: nothing below the node is still to be done, and what is left is deletes.
LEMMA DeleteRemoteKeeps ==
    ASSUME Undisturbed, IInv, NEW p \in Paths, DeleteRemote(p)
    PROVE  IInv'
<1>1. Ready(p, "DELETE_REMOTE")
  BY DEF DeleteRemote
<1>2. /\ pc = "run" /\ plan[p] = "DELETE_REMOTE"
      /\ \A q \in Paths : Due(q) /\ item.path # q
      /\ DeletesLast
  BY <1>1, ItemsTurn
<1>3. p \notin gone
  BY <1>2 DEF DeletesLast
<1>4. /\ remote' = Removed(remote, p)
      /\ gone' = gone \cup {q \in Subtree(p) : remote[q] # Absent}
      /\ unannounced' \in {unannounced, unannounced \cup {p}}
      /\ Take(p) /\ Continue(At("forget", p, listed[p]))
      /\ UNCHANGED <<local, known, edits, faults>>
  BY <1>3 DEF DeleteRemote, SameCounts
<1>5. /\ item' = [step |-> "forget", path |-> p, buf |-> listed[p]]
      /\ plan' = [plan EXCEPT ![p] = "NONE"] /\ UNCHANGED <<pc, listed, folders>>
  BY <1>4 DEF Take, Continue, At
<1>6. /\ \A q \in Paths : plan[q] \in Deletes \cup {"NONE"}
      /\ \A q \in Subtree(p) \ {p} : plan[q] = "NONE"
  BY <1>1, DeletesTurn DEF Deletes
<1>7. remote' \in [Paths -> Node] /\ Kinds' /\ RowsAgree'
  <2>1. remote \in [Paths -> Node] /\ \A q \in Paths : remote[q] \in Kind(q)
    BY DEF IInv, TypeOK, Kinds
  <2>2. remote' \in [Paths -> Node] /\ \A q \in Paths : remote'[q] \in Kind(q)
    BY <1>4, <2>1, RemovedKinds
  <2>3. QED BY <1>4, <2>2 DEF IInv, Kinds, RowsAgree
<1>8. \A q \in Paths : remote'[q] = IF q \in Subtree(p) THEN Absent ELSE remote[q]
  BY <1>4 DEF Removed
<1>9. ASSUME NEW q \in Paths PROVE Due(q)'
  <2>1. CASE q = p
    BY <1>5, <2>1 DEF Due, IInv, TypeOK
  <2>2. CASE q \in Subtree(p) \ {p}
    <3>1. plan'[q] = "NONE" /\ remote'[q] \notin Contents
      BY <1>5, <1>6, <1>8, <2>2, ContentsAssumption DEF IInv, TypeOK
    <3>2. QED BY <3>1 DEF Due, Kept
  <2>3. CASE q \notin Subtree(p)
    <3>1. /\ plan'[q] = plan[q] /\ remote'[q] = remote[q] /\ q # p
          /\ UNCHANGED <<local, known, listed, folders>>
      BY <1>4, <1>5, <1>8, <2>3 DEF IInv, TypeOK, Subtree
    <3>2. QED BY <1>2, <1>7, <3>1, DueStays
  <2>4. QED BY <2>1, <2>2, <2>3
<1>10. UnderWay'
  <2>1. remote'[p] = Absent /\ plan'[p] = "NONE"
    BY <1>5, <1>8 DEF Subtree, IInv, TypeOK
  <2>2. QED BY <1>5, <2>1, ContentsAssumption DEF UnderWay
<1>11. gone' \subseteq Paths /\ DeletesLast'
  <2>1. \A q \in Paths : plan'[q] \in Deletes \cup {"NONE"} /\ (plan[q] = "NONE" => plan'[q] = "NONE")
    BY <1>5, <1>6 DEF IInv, TypeOK
  <2>2. gone' \subseteq gone \cup Subtree(p) /\ plan'[p] = "NONE"
    BY <1>4, <1>5 DEF IInv, TypeOK
  <2>3. Subtree(p) \subseteq Paths
    BY DEF Subtree
  <2>4. QED BY <1>2, <1>6, <2>1, <2>2, <2>3 DEF DeletesLast, IInv, TypeOK
<1>12. TypeOK'
  BY <1>2, <1>4, <1>5, <1>7, <1>11 DEF IInv, TypeOK, Actions, Steps, Node
<1>13. QED
  BY <1>5, <1>7, <1>9, <1>10, <1>11, <1>12 DEF IInv, NeverFailsByItself, PassTrue

\* A conflict is settled by a policy that lets one side's new version replace the other's.
LEMMA PickSideKeeps ==
    ASSUME Undisturbed, IInv, NEW p \in Paths, PickSide(p)
    PROVE  IInv'
<1>1. Ready(p, "CONFLICT")
  BY DEF PickSide
<1>2. /\ pc = "run" /\ item = NoItem /\ plan[p] = "CONFLICT" /\ gone = {}
      /\ \A q \in Paths : Due(q) /\ item.path # q
  BY <1>1, ItemsTurn DEF Deletes
<1>3. /\ local[p] \in Contents /\ remote[p] \in Contents
      /\ local[p] # known[p].local /\ remote[p] # known[p].server
  BY <1>2 DEF Due
<1>4. PICK action \in Resolutions : plan' = [plan EXCEPT ![p] = action]
  BY DEF PickSide
<1>5. \/ action = "UPLOAD" /\ Policy \in {"local-wins", "newest-wins"}
      \/ action = "DOWNLOAD" /\ Policy \in {"remote-wins", "newest-wins"}
  <2>1. /\ Policy = "local-wins"  => Resolutions = {"UPLOAD"}
        /\ Policy = "remote-wins" => Resolutions = {"DOWNLOAD"}
        /\ Policy = "newest-wins" => Resolutions = {"UPLOAD", "DOWNLOAD"}
        /\ Policy = "keep-both"   => Resolutions = {}
    BY DEF Resolutions
  <2>2. Policy \in {"keep-both", "newest-wins", "local-wins", "remote-wins"}
    BY SyncEngineAssumption
  <2>3. action \in Resolutions
    OBVIOUS
  <2>4. QED BY <2>1, <2>2, <2>3
<1>6. /\ item' = NoItem
      /\ UNCHANGED <<local, remote, known, pc, listed, folders, gone, unannounced, edits, faults>>
  BY DEF PickSide, Continue, sides, SameCounts
<1>7. TypeOK' /\ Kinds' /\ RowsAgree'
  BY <1>2, <1>4, <1>5, <1>6 DEF IInv, TypeOK, Kinds, RowsAgree, Actions
<1>8. ASSUME NEW q \in Paths PROVE Due(q)'
  <2>1. CASE q = p
    <3>1. plan'[p] = action
      BY <1>4 DEF IInv, TypeOK
    <3>2. (action = "UPLOAD" => Uploadable(p, local[p])') /\ (action = "DOWNLOAD" => Downloadable(p, remote[p])')
      BY <1>3, <1>5, <1>6 DEF Uploadable, Downloadable
    <3>3. QED BY <1>5, <1>6, <2>1, <3>1, <3>2 DEF Due
  <2>2. CASE q # p
    <3>1. plan'[q] = plan[q]
      BY <1>4, <2>2 DEF IInv, TypeOK
    <3>2. QED BY <1>2, <1>6, <1>7, <3>1, DueStays
  <2>3. QED BY <2>1, <2>2
<1>9. UnderWay' /\ DeletesLast'
  BY <1>2, <1>6 DEF UnderWay, DeletesLast
<1>10. QED
  BY <1>2, <1>6, <1>7, <1>8, <1>9 DEF IInv, NeverFailsByItself, PassTrue

\* keep-both: the local version is moved aside, to be uploaded there; the remote one comes in.
LEMMA KeepBothKeeps ==
    ASSUME Undisturbed, IInv, NEW p \in Paths, KeepBoth(p)
    PROVE  IInv'
<1>1. Ready(p, "CONFLICT")
  BY DEF KeepBoth
<1>2. /\ pc = "run" /\ item = NoItem /\ plan[p] = "CONFLICT" /\ gone = {}
      /\ \A q \in Paths : Due(q) /\ item.path # q
  BY <1>1, ItemsTurn DEF Deletes
<1>3. local[p] \in Contents /\ remote[p] \in Contents /\ remote[p] # known[p].server
  BY <1>2 DEF Due
<1>4. PICK copy \in CopiesOf[p] :
         /\ local[copy] = Absent /\ remote[copy] = Absent /\ known[copy] = NoRow
         /\ local' = [local EXCEPT ![p] = Absent, ![copy] = local[p]]
         /\ plan' = [plan EXCEPT ![p] = "DOWNLOAD", ![copy] = "UPLOAD"]
  BY <1>3 DEF KeepBoth
<1>5. /\ item' = NoItem
      /\ UNCHANGED <<remote, known, pc, listed, folders, gone, unannounced, edits, faults>>
  BY <1>3 DEF KeepBoth, Continue, SameCounts
<1>6. copy \in Paths /\ copy # p /\ copy \notin FolderPaths
  <2>1. copy \in Paths /\ Rank[copy] < Rank[p] /\ Rank[p] \in Nat
    BY SyncEngineAssumption
  <2>2. copy # p
    BY <2>1
  <2>3. QED BY <2>1, <2>2 DEF Undisturbed, KindsApart
<1>7. /\ local' \in [Paths -> Node] /\ local'[p] = Absent /\ local'[copy] = local[p]
      /\ \A q \in Paths \ {p, copy} : local'[q] = local[q]
  BY <1>4, <1>6 DEF IInv, TypeOK, Node
<1>8. /\ plan' \in [Paths -> Actions] /\ plan'[p] = "DOWNLOAD" /\ plan'[copy] = "UPLOAD"
      /\ \A q \in Paths \ {p, copy} : plan'[q] = plan[q]
  BY <1>4, <1>6 DEF IInv, TypeOK, Actions
<1>9. TypeOK'
  BY <1>2, <1>5, <1>7, <1>8 DEF IInv, TypeOK
<1>10. Kinds' /\ RowsAgree'
  <2>1. \A q \in Paths : local'[q] \in Kind(q)
    BY <1>3, <1>6, <1>7, KindIsNode DEF IInv, Kinds, Kind
  <2>2. QED BY <1>5, <2>1 DEF IInv, Kinds, RowsAgree
<1>11. Absent \notin Contents
  BY ContentsAssumption
<1>12. ASSUME NEW q \in Paths PROVE Due(q)'
  <2>1. CASE q = p
    <3>1. Downloadable(p, remote[p])'
      BY <1>3, <1>5, <1>7, <1>11 DEF Downloadable
    <3>2. QED BY <1>8, <2>1, <3>1 DEF Due
  <2>2. CASE q = copy
    <3>1. local'[copy] \in Contents /\ local'[copy] # known'[copy].local /\ Kept(copy)'
      BY <1>3, <1>4, <1>5, <1>7, <1>11 DEF Kept, NoRow
    <3>2. Uploadable(copy, local[copy])'
      BY <3>1 DEF Uploadable
    <3>3. QED BY <1>8, <2>2, <3>2 DEF Due
  <2>3. CASE q \notin {p, copy}
    <3>1. plan'[q] = plan[q] /\ local'[q] = local[q]
      BY <1>7, <1>8, <2>3
    <3>2. QED BY <1>2, <1>5, <1>10, <3>1, DueStays
  <2>4. QED BY <2>1, <2>2, <2>3
<1>13. UnderWay' /\ DeletesLast'
  BY <1>2, <1>5 DEF UnderWay, DeletesLast
<1>14. QED
  BY <1>2, <1>5, <1>9, <1>10, <1>12, <1>13 DEF IInv, NeverFailsByItself, PassTrue

\* Every step keeps what a pass relies on.
LEMMA StepsKeep ==
    ASSUME Undisturbed, IInv, [Next]_vars
    PROVE  IInv'
<1>1. CASE LocalEdit \/ RemoteEdit
  BY <1>1, EditsKeep
<1>2. CASE PassDone \/ PassFails
  BY <1>2, PassEndKeeps
<1>3. CASE StartPass
  BY <1>3, StartPassKeeps
<1>4. CASE UploadPut \/ DownloadReplace \/ Record
  BY <1>4, UploadPutKeeps, DownloadReplaceKeeps, RecordKeeps
<1>5. CASE Emit \/ EmitDeleted \/ RecordFolder \/ Forget
  BY <1>5, EmitsKeep, RecordFolderKeeps, ForgetKeeps
<1>6. ASSUME NEW p \in Paths, ItemStep(p) PROVE IInv'
  <2>1. CASE UploadRead(p) \/ DownloadGet(p) \/ RecordItem(p) \/ ForgetItem(p)
    BY <2>1, UploadReadKeeps, DownloadGetKeeps, RecordItemKeeps, ForgetItemKeeps
  <2>2. CASE MkdirLocal(p) \/ MkdirRemote(p) \/ DeleteLocal(p) \/ DeleteRemote(p)
    BY <2>2, MkdirLocalKeeps, MkdirRemoteKeeps, DeleteLocalKeeps, DeleteRemoteKeeps
  <2>3. CASE KeepBoth(p) \/ PickSide(p)
    BY <2>3, KeepBothKeeps, PickSideKeeps
  <2>4. QED BY <1>6, <2>1, <2>2, <2>3 DEF ItemStep
<1>7. CASE UNCHANGED vars
  BY <1>7 DEF vars, passVars, IInv, TypeOK, Kinds, RowsAgree, NeverFailsByItself, PassTrue,
              Due, UnderWay, DeletesLast, Uploadable, Downloadable, Kept, Synced
<1>8. QED BY <1>1, <1>2, <1>3, <1>4, <1>5, <1>6, <1>7 DEF Next, EngineStep

------------------------------------------------------------------------------
(* What passes keep *)

\* Between passes and within them: rows of one content, and a plan whose items
\* still find, when their turn comes, what they were made for (engine.py _run_pass).
THEOREM PassInvariant ==
    ASSUME Undisturbed
    PROVE  Spec => []IInv
<1>1. Init => IInv
  BY StartsInOrder
<1>2. IInv /\ [Next]_vars => IInv'
  BY StepsKeep
<1>3. QED BY <1>1, <1>2, PTL DEF Spec

\* What state.db takes for agreed, agrees: no edit passes for the merge base
\* (engine.py _record_synced).
THEOREM NoSilentDivergenceHolds ==
    ASSUME Undisturbed
    PROVE  Spec => []NoSilentDivergence
<1>1. IInv => NoSilentDivergence
  BY DEF IInv, RowsAgree, NoSilentDivergence
<1>2. QED BY <1>1, PassInvariant, PTL

\* No handler raises by the order of the plan's own items, whatever the plan
\* (diff.py classify's order, engine.py _run_pass).
THEOREM PlansRunThrough ==
    ASSUME Undisturbed
    PROVE  Spec => []NeverFailsByItself
<1>1. IInv => NeverFailsByItself
  BY DEF IInv
<1>2. QED BY <1>1, PassInvariant, PTL

------------------------------------------------------------------------------
(* Types, also when people race with the pass *)

\* What is put or removed leaves a node or nothing at every path.
LEMMA NodesStay ==
    ASSUME NEW side \in [Paths -> Node], NEW p
    PROVE  /\ \A node \in Node : Placed(side, p, node) \in [Paths -> Node]
           /\ Removed(side, p) \in [Paths -> Node]
           /\ \A next : Edited(side, next) => next \in [Paths -> Node]
<1>1. \A q : \A node \in Node : Placed(side, q, node) \in [Paths -> Node]
  BY DEF Placed, Node
<1>2. \A q : Removed(side, q) \in [Paths -> Node]
  BY DEF Removed, Node
<1>3. Folder \in Node /\ Contents \subseteq Node
  BY DEF Node
<1>4. QED BY <1>1, <1>2, <1>3 DEF Edited

\* A handler that raises, or a pass that ends, leaves the types alone.
LEMMA EndsKeepTypes ==
    ASSUME TypeOK, NEW how \in {"idle", "failed"}, EndPass(how),
           UNCHANGED <<local, remote, known, unannounced, edits>>, faults' \in Nat
    PROVE  TypeOK'
  BY DEF TypeOK, EndPass, NoItem, Actions, Steps, Node

\* An item's step that goes on to `next`: what is left to see is what it writes.
LEMMA ContinueKeepsTypes ==
    ASSUME TypeOK, pc = "run", NEW next, Continue(next),
           next = NoItem \/ next \in [step : Steps, path : Paths, buf : Node],
           local' \in [Paths -> Node], remote' \in [Paths -> Node], known' \in [Paths -> Row],
           plan' \in [Paths -> Actions], gone' \subseteq Paths, unannounced' \subseteq Paths,
           UNCHANGED <<edits, faults>>
    PROVE  TypeOK'
<1>1. NoItem \in [step : Steps, path : Paths \cup {NoPath}, buf : Node]
  BY DEF NoItem, Steps, Node
<1>2. /\ item' \in [step : Steps, path : Paths \cup {NoPath}, buf : Node]
      /\ item' # NoItem => item'.path \in Paths
  BY <1>1 DEF Continue
<1>3. QED BY <1>2 DEF TypeOK, Continue

\* The first step of an item, or its only one.
LEMMA ItemTypes ==
    ASSUME TypeOK, NEW p \in Paths, ItemStep(p)
    PROVE  TypeOK'
<1>1. CASE Raises
  BY <1>1, EndsKeepTypes DEF Raises, sides, SameCounts, TypeOK
<1>2. CASE ~Raises
  <2>1. pc = "run"
    BY DEF ItemStep, UploadRead, DownloadGet, RecordItem, MkdirLocal, MkdirRemote,
           DeleteLocal, DeleteRemote, ForgetItem, KeepBoth, PickSide, Ready
  <2>2. /\ \E next : /\ next = NoItem \/ next \in [step : Steps, path : Paths, buf : Node]
                     /\ Continue(next)
        /\ UNCHANGED <<edits, faults>>
    BY <1>2 DEF ItemStep, UploadRead, DownloadGet, RecordItem, MkdirLocal, MkdirRemote,
           DeleteLocal, DeleteRemote, ForgetItem, KeepBoth, PickSide, SameCounts, At, Steps, TypeOK, Node
  <2>3. Take(p) => plan' \in [Paths -> Actions]
    BY DEF Take, TypeOK, Actions
  <2>4. plan' \in [Paths -> Actions]
    <3>1. CASE KeepBoth(p)
      BY <1>2, <3>1 DEF KeepBoth, TypeOK, Actions
    <3>2. CASE PickSide(p)
      BY <1>2, <3>2 DEF PickSide, Resolutions, TypeOK, Actions
    <3>3. CASE ~KeepBoth(p) /\ ~PickSide(p)
      BY <1>2, <2>3, <3>3 DEF ItemStep, UploadRead, DownloadGet, RecordItem, MkdirLocal,
           MkdirRemote, DeleteLocal, DeleteRemote, ForgetItem
    <3>4. QED BY <3>1, <3>2, <3>3
  <2>5. local' \in [Paths -> Node] /\ remote' \in [Paths -> Node]
    <3>1. Folder \in Node /\ Absent \in Node
      BY DEF Node
    <3>2. /\ Placed(local, p, Folder) \in [Paths -> Node]
          /\ Placed(remote, p, Folder) \in [Paths -> Node]
          /\ Removed(remote, p) \in [Paths -> Node]
      BY <3>1, NodesStay DEF TypeOK
    <3>3. QED
      BY <1>2, <3>1, <3>2 DEF ItemStep, UploadRead, DownloadGet, RecordItem, MkdirLocal,
           MkdirRemote, DeleteLocal, DeleteRemote, ForgetItem, KeepBoth, PickSide, sides, TypeOK
  <2>6. known' \in [Paths -> Row]
    <3>1. NoRow \in Row /\ FolderRow \in Row /\ \A s, l \in Node : [server |-> s, local |-> l] \in Row
      BY DEF Row, NoRow, FolderRow, Node
    <3>2. QED
      BY <1>2, <3>1 DEF ItemStep, UploadRead, DownloadGet, RecordItem, RecordSynced, MkdirLocal,
           MkdirRemote, DeleteLocal, DeleteRemote, ForgetItem, KeepBoth, PickSide, TypeOK
  <2>7. gone' \subseteq Paths /\ unannounced' \subseteq Paths
    <3>1. Subtree(p) \subseteq Paths
      BY DEF Subtree
    <3>2. QED
      BY <1>2, <3>1 DEF ItemStep, UploadRead, DownloadGet, RecordItem, MkdirLocal,
           MkdirRemote, DeleteLocal, DeleteRemote, ForgetItem, KeepBoth, PickSide, TypeOK
  <2>8. QED BY <2>1, <2>2, <2>4, <2>5, <2>6, <2>7, ContinueKeepsTypes
<1>3. QED BY <1>1, <1>2

\* The later steps of an item.
LEMMA GoingOnTypes ==
    ASSUME TypeOK,
           UploadPut \/ DownloadReplace \/ Record \/ Emit \/ RecordFolder \/ EmitDeleted \/ Forget
    PROVE  TypeOK'
<1>1. CASE Raises
  BY <1>1, EndsKeepTypes DEF Raises, sides, SameCounts, TypeOK
<1>2. CASE ~Raises
  <2>1. item # NoItem
    BY DEF UploadPut, DownloadReplace, Record, Emit, RecordFolder, EmitDeleted, Forget, NoItem
  <2>2. pc = "run" /\ item.path \in Paths /\ item \in [step : Steps, path : Paths \cup {NoPath}, buf : Node]
    BY <2>1 DEF TypeOK
  <2>3. /\ \E next : /\ next = NoItem \/ next \in [step : Steps, path : Paths, buf : Node]
                     /\ Continue(next)
        /\ plan' = plan /\ gone' = gone /\ UNCHANGED <<edits, faults>>
    <3>1. \A step \in Steps : [item EXCEPT !.step = step] \in [step : Steps, path : Paths, buf : Node]
      BY <2>2
    <3>2. {"record", "emit", "forget"} \subseteq Steps
      BY DEF Steps
    <3>3. QED
      BY <1>2, <3>1, <3>2 DEF UploadPut, DownloadReplace, Record, Emit, RecordFolder, EmitDeleted,
           Forget, SameCounts
  <2>4. local' \in [Paths -> Node] /\ remote' \in [Paths -> Node]
    <3>1. item.buf \in Node
      BY <2>2
    <3>2. /\ Placed(local, item.path, item.buf) \in [Paths -> Node]
          /\ Placed(remote, item.path, item.buf) \in [Paths -> Node]
      BY <3>1, NodesStay DEF TypeOK
    <3>3. QED
      BY <1>2, <3>2 DEF UploadPut, DownloadReplace, Record, Emit, RecordFolder, EmitDeleted,
           Forget, sides, TypeOK
  <2>5. known' \in [Paths -> Row]
    <3>1. NoRow \in Row /\ FolderRow \in Row /\ \A s, l \in Node : [server |-> s, local |-> l] \in Row
      BY DEF Row, NoRow, FolderRow, Node
    <3>2. QED
      BY <1>2, <2>2, <3>1 DEF UploadPut, DownloadReplace, Record, RecordSynced, Emit, RecordFolder,
           EmitDeleted, Forget, TypeOK
  <2>6. unannounced' \subseteq Paths
    BY <1>2, <2>2 DEF UploadPut, DownloadReplace, Record, Emit, RecordFolder, EmitDeleted, Forget, TypeOK
  <2>7. plan' \in [Paths -> Actions] /\ gone' \subseteq Paths
    BY <2>3 DEF TypeOK
  <2>8. QED BY <2>2, <2>3, <2>4, <2>5, <2>6, <2>7, ContinueKeepsTypes
<1>3. QED BY <1>1, <1>2

\* A step keeps the types, whoever makes it and whenever.
LEMMA TypesStep ==
    ASSUME TypeOK, [Next]_vars
    PROVE  TypeOK'
<1>1. CASE LocalEdit \/ RemoteEdit
  <2>1. local' \in [Paths -> Node] /\ remote' \in [Paths -> Node]
    BY <1>1, NodesStay DEF LocalEdit, RemoteEdit, TypeOK
  <2>2. gone' \subseteq Paths /\ edits' \in Nat
    BY <1>1 DEF LocalEdit, RemoteEdit, MayEdit, passVars, TypeOK
  <2>3. QED BY <1>1, <2>1, <2>2 DEF LocalEdit, RemoteEdit, passVars, TypeOK
<1>2. CASE PassDone \/ PassFails
  <2>1. EndPass("idle") /\ UNCHANGED <<local, remote, known, unannounced, edits>> /\ faults' \in Nat
    BY <1>2 DEF PassDone, PassFails, sides, SameCounts, TypeOK
  <2>2. QED BY <2>1, EndsKeepTypes
<1>3. CASE StartPass
  <2>1. \A p \in Paths : Scan(p) \in Node
    BY DEF Scan, TypeOK, Node
  <2>2. plan' \in [Paths -> Actions]
    BY <1>3, <2>1, PlansAreActions DEF StartPass, TypeOK
  <2>3. QED BY <1>3, <2>2 DEF StartPass, sides, TypeOK, NoItem, Steps, Node
<1>4. CASE UploadPut \/ DownloadReplace \/ Record \/ Emit \/ RecordFolder \/ EmitDeleted \/ Forget
  BY <1>4, GoingOnTypes
<1>5. ASSUME NEW p \in Paths, ItemStep(p) PROVE TypeOK'
  BY <1>5, ItemTypes
<1>6. CASE UNCHANGED vars
  BY <1>6 DEF vars, passVars, TypeOK
<1>7. QED BY <1>1, <1>2, <1>3, <1>4, <1>5, <1>6 DEF Next, EngineStep

\* Every variable keeps its type, and an item is under way only in a pass, also
\* when either side is edited while the pass runs (engine.py _run_pass).
THEOREM EngineTypes == Spec => []TypeOK
<1>1. Init => TypeOK
  BY DEF Init, TypeOK, Row, NoRow, Node, NoItem, Actions, Steps
<1>2. TypeOK /\ [Next]_vars => TypeOK'
  BY TypesStep
<1>3. QED BY <1>1, <1>2, PTL DEF Spec

------------------------------------------------------------------------------
(* What a step takes away *)

\* The steps that leave the sync root alone.
LEMMA LocalUntouched ==
    ASSUME \/ StartPass \/ PassDone \/ PassFails
           \/ UploadPut \/ Record \/ Emit \/ RecordFolder \/ EmitDeleted \/ Forget
           \/ \E r \in Paths : \/ UploadRead(r) \/ DownloadGet(r) \/ RecordItem(r) \/ MkdirRemote(r)
                               \/ DeleteRemote(r) \/ ForgetItem(r) \/ PickSide(r)
           \/ UNCHANGED vars
    PROVE  local' = local
  BY DEF StartPass, PassDone, PassFails, UploadPut, Record, Emit, RecordFolder, EmitDeleted, Forget,
         UploadRead, DownloadGet, RecordItem, MkdirRemote, DeleteRemote, ForgetItem, PickSide,
         Raises, sides, vars

\* The steps that leave the server alone.
LEMMA RemoteUntouched ==
    ASSUME \/ StartPass \/ PassDone \/ PassFails
           \/ DownloadReplace \/ Record \/ Emit \/ RecordFolder \/ EmitDeleted \/ Forget
           \/ \E r \in Paths : \/ UploadRead(r) \/ DownloadGet(r) \/ RecordItem(r) \/ MkdirLocal(r)
                               \/ DeleteLocal(r) \/ ForgetItem(r) \/ KeepBoth(r) \/ PickSide(r)
           \/ UNCHANGED vars
    PROVE  remote' = remote
  BY DEF StartPass, PassDone, PassFails, DownloadReplace, Record, Emit, RecordFolder, EmitDeleted, Forget,
         UploadRead, DownloadGet, RecordItem, MkdirLocal, DeleteLocal, ForgetItem, KeepBoth, PickSide,
         Raises, sides, vars

\* A step of the engine changes the local p to a folder; to the server's version, which the
\* pass may take; to nothing, when it was synced or is moved aside; or p is what was moved aside.
LocalChange(p) ==
    \/ local[p] \notin Contents /\ local'[p] \notin Contents
    \/ Downloadable(p, local'[p])
    \/ local[p] \in Contents /\ Synced(p, local[p]) /\ local'[p] = Absent
    \/ local'[p] = Absent /\ \E q \in CopiesOf[p] : local[q] = Absent /\ local'[q] = local[p]
    \/ local[p] = Absent /\ local'[p] \in Contents /\ known[p] = NoRow

\* Only a download, mkdir, a local delete and keep-both change the sync root, and so.
LEMMA LocalChanges ==
    ASSUME Undisturbed, IInv, [Next]_vars, edits' = edits, NEW p \in Paths, local'[p] # local[p]
    PROVE  LocalChange(p)
<1>1. ~LocalEdit /\ ~RemoteEdit
  BY DEF LocalEdit, RemoteEdit, MayEdit, IInv, TypeOK
<1>2. \A q \in Paths : q \in FolderPaths => local[q] \notin Contents
  BY ContentsAssumption DEF IInv, Kinds, Kind
<1>3. CASE DownloadReplace
  <2>1. item.step = "replace" /\ item # NoItem
    BY <1>3 DEF DownloadReplace, NoItem
  <2>2. PICK r \in Paths : r = item.path
    BY <2>1 DEF IInv, TypeOK
  <2>3. Downloadable(r, item.buf)
    BY <2>1, <2>2 DEF IInv, TypeOK, PassTrue, UnderWay
  <2>4. local' = Placed(local, r, item.buf)
    BY <1>3, <2>2 DEF DownloadReplace, Raises, sides
  <2>5. CASE p = r
    BY <2>3, <2>4, <2>5, PlacedThere DEF LocalChange
  <2>6. CASE p # r
    <3>1. local'[p] = Folder /\ p \in FolderPaths
      BY <2>2, <2>4, <2>6, PlacedThere
    <3>2. QED BY <1>2, <3>1, ContentsAssumption DEF LocalChange
  <2>7. QED BY <2>5, <2>6
<1>4. ASSUME NEW r \in Paths, MkdirLocal(r) PROVE LocalChange(p)
  <2>1. Ready(r, "MKDIR_LOCAL") /\ local' = Placed(local, r, Folder)
    BY <1>4 DEF MkdirLocal, Raises, sides
  <2>2. local'[p] = Folder
    BY <2>1 DEF Placed
  <2>3. remote[r] = Folder
    BY <2>1, ItemsTurn DEF Due
  <2>4. r \in FolderPaths
    BY <2>3, ContentsAssumption DEF IInv, Kinds, Kind
  <2>5. p \in FolderPaths
    BY <2>1, <2>4 DEF Placed, Undisturbed, KindsApart
  <2>6. QED BY <1>2, <2>2, <2>5, ContentsAssumption DEF LocalChange
<1>5. ASSUME NEW r \in Paths, DeleteLocal(r) PROVE LocalChange(p)
  <2>1. Ready(r, "DELETE_LOCAL") /\ local' = [local EXCEPT ![r] = Absent]
    BY <1>5 DEF DeleteLocal
  <2>2. p = r /\ local'[p] = Absent
    BY <2>1 DEF IInv, TypeOK
  <2>3. local[p] \in Contents => Synced(p, local[p])
    BY <2>1, <2>2, ItemsTurn DEF Due
  <2>4. QED BY <2>2, <2>3, ContentsAssumption DEF LocalChange
<1>6. ASSUME NEW r \in Paths, KeepBoth(r) PROVE LocalChange(p)
  <2>1. Ready(r, "CONFLICT")
    BY <1>6 DEF KeepBoth
  <2>2. local[r] \in Contents
    BY <2>1, ItemsTurn DEF Due
  <2>3. PICK copy \in CopiesOf[r] :
           /\ local[copy] = Absent /\ known[copy] = NoRow
           /\ local' = [local EXCEPT ![r] = Absent, ![copy] = local[r]]
    BY <1>6, <2>2 DEF KeepBoth
  <2>4. copy \in Paths
    BY SyncEngineAssumption
  <2>5. copy # r
    <3>1. Rank[copy] < Rank[r] /\ Rank[r] \in Nat
      BY SyncEngineAssumption
    <3>2. QED BY <3>1
  <2>6. local'[r] = Absent /\ local'[copy] = local[r] /\ p \in {r, copy}
    BY <2>3, <2>4, <2>5 DEF IInv, TypeOK
  <2>7. QED BY <2>2, <2>3, <2>6 DEF LocalChange
<1>7. QED
  BY <1>1, <1>3, <1>4, <1>5, <1>6, LocalUntouched DEF Next, EngineStep, ItemStep

\* The engine overwrites or deletes a local file only if the version it loses was
\* synced, was moved aside, or lost a conflict under a policy that says so
\* (engine.py _do_download, _do_delete_local, _do_conflict).
THEOREM KeepsLocalEditsHolds ==
    ASSUME Undisturbed
    PROVE  Spec => KeepsLocalEdits
<1>1. IInv /\ [Next]_vars =>
        [edits' = edits =>
         \A p \in Paths : local[p] \in Contents /\ local'[p] # local[p] =>
            \/ Synced(p, local[p])
            \/ \E q \in CopiesOf[p] : local[q] = Absent /\ local'[q] = local[p]
            \/ Policy \in {"remote-wins", "newest-wins"} /\ local'[p] \in Contents \ {known[p].server}]_vars
  <2>1. SUFFICES ASSUME IInv, [Next]_vars, edits' = edits, NEW p \in Paths,
                        local[p] \in Contents, local'[p] # local[p]
                 PROVE  \/ Synced(p, local[p])
                        \/ \E q \in CopiesOf[p] : local[q] = Absent /\ local'[q] = local[p]
                        \/ /\ Policy \in {"remote-wins", "newest-wins"}
                           /\ local'[p] \in Contents \ {known[p].server}
    OBVIOUS
  <2>2. LocalChange(p)
    BY <2>1, LocalChanges
  <2>3. local[p] # Absent
    BY <2>1, ContentsAssumption
  <2>4. CASE local'[p] \notin Contents
    BY <2>1, <2>2, <2>3, <2>4 DEF LocalChange, Downloadable
  <2>5. CASE local'[p] \in Contents
    BY <2>1, <2>2, <2>3, <2>5, ContentsAssumption DEF LocalChange, Downloadable
  <2>6. QED BY <2>4, <2>5
<1>2. QED BY <1>1, PassInvariant, PTL DEF Spec, KeepsLocalEdits

\* A step of the engine changes the remote p to a folder, to a new local version, or to
\* nothing when its row has it.
RemoteChange(p) ==
    \/ remote[p] \notin Contents /\ remote'[p] \notin Contents
    \/ Uploadable(p, remote'[p])
    \/ Kept(p) /\ remote'[p] = Absent

\* Only an upload, create_folder and a remote delete change the server, and so.
LEMMA RemoteChanges ==
    ASSUME Undisturbed, IInv, [Next]_vars, edits' = edits, NEW p \in Paths, remote'[p] # remote[p]
    PROVE  RemoteChange(p)
<1>1. ~LocalEdit /\ ~RemoteEdit
  BY DEF LocalEdit, RemoteEdit, MayEdit, IInv, TypeOK
<1>2. \A q \in Paths : q \in FolderPaths => remote[q] \notin Contents
  BY ContentsAssumption DEF IInv, Kinds, Kind
<1>3. CASE UploadPut
  <2>1. item.step = "put" /\ item # NoItem
    BY <1>3 DEF UploadPut, NoItem
  <2>2. PICK r \in Paths : r = item.path
    BY <2>1 DEF IInv, TypeOK
  <2>3. Uploadable(r, item.buf)
    BY <2>1, <2>2 DEF IInv, TypeOK, PassTrue, UnderWay
  <2>4. remote' = Placed(remote, r, item.buf)
    BY <1>3, <2>2 DEF UploadPut, Raises, sides
  <2>5. CASE p = r
    BY <2>3, <2>4, <2>5, PlacedThere DEF RemoteChange
  <2>6. CASE p # r
    <3>1. remote'[p] = Folder /\ p \in FolderPaths
      BY <2>2, <2>4, <2>6, PlacedThere
    <3>2. QED BY <1>2, <3>1, ContentsAssumption DEF RemoteChange
  <2>7. QED BY <2>5, <2>6
<1>4. ASSUME NEW r \in Paths, MkdirRemote(r) PROVE RemoteChange(p)
  <2>1. Ready(r, "MKDIR_REMOTE") /\ remote' = Placed(remote, r, Folder)
    BY <1>4 DEF MkdirRemote, Raises, sides
  <2>2. remote'[p] = Folder
    BY <2>1 DEF Placed
  <2>3. local[r] = Folder
    BY <2>1, ItemsTurn DEF Due
  <2>4. r \in FolderPaths
    BY <2>3, ContentsAssumption DEF IInv, Kinds, Kind
  <2>5. p \in FolderPaths
    BY <2>1, <2>4 DEF Placed, Undisturbed, KindsApart
  <2>6. QED BY <1>2, <2>2, <2>5, ContentsAssumption DEF RemoteChange
<1>5. ASSUME NEW r \in Paths, DeleteRemote(r) PROVE RemoteChange(p)
  <2>1. Ready(r, "DELETE_REMOTE") /\ remote' = Removed(remote, r)
    BY <1>5 DEF DeleteRemote, Raises, sides
  <2>2. p \in Subtree(r) /\ remote'[p] = Absent
    BY <2>1 DEF Removed
  <2>3. p = r \/ plan[p] = "NONE"
    BY <2>1, <2>2, DeletesTurn DEF Deletes
  <2>4. Due(p) /\ item.path # p /\ plan[r] = "DELETE_REMOTE"
    BY <2>1, ItemsTurn
  <2>5. Kept(p)
    BY <2>3, <2>4 DEF Due
  <2>6. QED BY <2>2, <2>5 DEF RemoteChange
<1>6. QED
  BY <1>1, <1>3, <1>4, <1>5, RemoteUntouched DEF Next, EngineStep, ItemStep

\* The engine overwrites or deletes a remote file only if the version it loses was
\* synced, or lost a conflict to a local version that is new as well, under a policy
\* that says so (engine.py _do_upload, _do_delete_remote).
THEOREM KeepsRemoteEditsHolds ==
    ASSUME Undisturbed
    PROVE  Spec => KeepsRemoteEdits
<1>1. IInv /\ [Next]_vars =>
        [edits' = edits =>
         \A p \in Paths : remote[p] \in Contents /\ remote'[p] # remote[p] =>
            \/ Synced(p, remote[p])
            \/ Policy \in {"local-wins", "newest-wins"} /\ remote'[p] \in Contents \ {known[p].local}]_vars
  <2>1. SUFFICES ASSUME IInv, [Next]_vars, edits' = edits, NEW p \in Paths,
                        remote[p] \in Contents, remote'[p] # remote[p]
                 PROVE  \/ Synced(p, remote[p])
                        \/ /\ Policy \in {"local-wins", "newest-wins"}
                           /\ remote'[p] \in Contents \ {known[p].local}
    OBVIOUS
  <2>2. RemoteChange(p)
    BY <2>1, RemoteChanges
  <2>3. CASE Kept(p)
    BY <2>1, <2>3 DEF Kept
  <2>4. CASE ~Kept(p)
    BY <2>1, <2>2, <2>4 DEF RemoteChange, Uploadable
  <2>5. QED BY <2>3, <2>4
<1>2. QED BY <1>1, PassInvariant, PTL DEF Spec, KeepsRemoteEdits

\* A file somebody deleted is not brought back as it was: what appears is a version
\* that was not synced before (diff.py _classify_one).
THEOREM NeverResurrectsHolds ==
    ASSUME Undisturbed
    PROVE  Spec => NeverResurrects
<1>1. IInv /\ [Next]_vars =>
        [edits' = edits =>
         \A p \in Paths :
            /\ local[p] = Absent /\ local'[p] \in Contents => local'[p] # known[p].server
            /\ remote[p] = Absent /\ remote'[p] \in Contents => remote'[p] # known[p].local]_vars
  <2>1. SUFFICES ASSUME IInv, [Next]_vars, edits' = edits, NEW p \in Paths
                 PROVE  /\ local[p] = Absent /\ local'[p] \in Contents => local'[p] # known[p].server
                        /\ remote[p] = Absent /\ remote'[p] \in Contents => remote'[p] # known[p].local
    OBVIOUS
  <2>2. Absent \notin Contents
    BY ContentsAssumption
  <2>3. ASSUME local[p] = Absent, local'[p] \in Contents
        PROVE  local'[p] # known[p].server
    <3>1. LocalChange(p)
      BY <2>1, <2>2, <2>3, LocalChanges
    <3>2. QED BY <2>2, <2>3, <3>1 DEF LocalChange, Downloadable, NoRow
  <2>4. ASSUME remote[p] = Absent, remote'[p] \in Contents
        PROVE  remote'[p] # known[p].local
    <3>1. RemoteChange(p)
      BY <2>1, <2>2, <2>4, RemoteChanges
    <3>2. QED BY <2>2, <2>4, <3>1 DEF RemoteChange, Uploadable
  <2>5. QED BY <2>3, <2>4
<1>2. QED BY <1>1, PassInvariant, PTL DEF Spec, NeverResurrects

\* The steps that leave the rows alone.
LEMMA RowsUntouched ==
    ASSUME \/ StartPass \/ PassDone \/ PassFails \/ LocalEdit \/ RemoteEdit
           \/ UploadPut \/ DownloadReplace \/ Emit \/ EmitDeleted
           \/ \E r \in Paths : \/ UploadRead(r) \/ DownloadGet(r) \/ MkdirLocal(r) \/ MkdirRemote(r)
                               \/ DeleteLocal(r) \/ DeleteRemote(r) \/ KeepBoth(r) \/ PickSide(r)
           \/ UNCHANGED vars
    PROVE  known' = known
  BY DEF StartPass, PassDone, PassFails, LocalEdit, RemoteEdit, UploadPut, DownloadReplace, Emit,
         EmitDeleted, UploadRead, DownloadGet, MkdirLocal, MkdirRemote, DeleteLocal, DeleteRemote,
         KeepBoth, PickSide, Raises, vars

\* A row is written only of what then is on the server and on the disk, so that a
\* pass may stop after any step (engine.py _record_synced, _record_folder).
THEOREM RowsWereTrueHolds ==
    ASSUME Undisturbed
    PROVE  Spec => RowsWereTrue
<1>1. IInv /\ [Next]_vars =>
        [\A p \in Paths : known'[p] # known[p] /\ known'[p] # NoRow =>
         known'[p] = [server |-> remote[p], local |-> local[p]]]_vars
  <2>1. SUFFICES ASSUME IInv, [Next]_vars, NEW p \in Paths, known'[p] # known[p], known'[p] # NoRow
                 PROVE  known'[p] = [server |-> remote[p], local |-> local[p]]
    OBVIOUS
  <2>2. ASSUME item # NoItem
        PROVE  item.path \in Paths /\ UnderWay
    BY <2>1, <2>2 DEF IInv, TypeOK, PassTrue
  <2>3. CASE Record
    <3>1. item.step = "record" /\ item # NoItem
      BY <2>3 DEF Record, NoItem
    <3>2. PICK r \in Paths : r = item.path
      BY <2>2, <3>1
    <3>3. item.buf = local[r] /\ item.buf = remote[r]
      BY <2>2, <3>1, <3>2 DEF UnderWay
    <3>4. known' = [known EXCEPT ![r] = [server |-> item.buf, local |-> local[r]]]
      BY <2>1, <2>3, <3>2 DEF Record, RecordSynced, Raises
    <3>5. QED BY <2>1, <3>3, <3>4 DEF IInv, TypeOK
  <2>4. CASE RecordFolder
    <3>1. item.step = "folder" /\ item # NoItem
      BY <2>4 DEF RecordFolder, NoItem
    <3>2. PICK r \in Paths : r = item.path
      BY <2>2, <3>1
    <3>3. local[r] = Folder /\ remote[r] = Folder
      BY <2>2, <3>1, <3>2 DEF UnderWay
    <3>4. known' = [known EXCEPT ![r] = FolderRow]
      BY <2>4, <3>2 DEF RecordFolder
    <3>5. QED BY <2>1, <3>3, <3>4 DEF IInv, TypeOK, FolderRow
  <2>5. CASE Forget
    BY <2>1, <2>5 DEF Forget, IInv, TypeOK
  <2>6. ASSUME NEW r \in Paths, ForgetItem(r) PROVE FALSE
    BY <2>1, <2>6 DEF ForgetItem, IInv, TypeOK
  <2>7. ASSUME NEW r \in Paths, RecordItem(r)
        PROVE  known'[p] = [server |-> remote[p], local |-> local[p]]
    <3>1. Ready(r, "RECORD")
      BY <2>7 DEF RecordItem
    <3>2. local[r] = remote[r] /\ listed[r] = remote[r] /\ (r \in folders <=> local[r] = Folder)
      BY <2>1, <3>1, ItemsTurn DEF Due
    <3>3. known' = [known EXCEPT ![r] = [server |-> remote[r], local |-> local[r]]]
      BY <2>1, <2>7, <3>2 DEF RecordItem, RecordSynced, FolderRow, Raises
    <3>4. QED BY <2>1, <3>3 DEF IInv, TypeOK
  <2>8. QED
    BY <2>1, <2>3, <2>4, <2>5, <2>6, <2>7, RowsUntouched DEF Next, EngineStep, ItemStep
<1>2. QED BY <1>1, PassInvariant, PTL DEF Spec, RowsWereTrue
==============================================================================
