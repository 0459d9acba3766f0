----------------------------- MODULE SyncEngine -----------------------------
(* One client's sync engine (client/engine.py) between its sync root, the    *)
(* server's tree and state.db, with the people who edit either side.         *)
(*                                                                           *)
(* A pass plans from one look at both sides and then executes the plan item  *)
(* by item; an item is one to four steps, and between any two steps the pass *)
(* may raise, the process may die and, where Racing says so, somebody may    *)
(* edit.  While this client holds the sync session the server turns other    *)
(* devices away, so "remote" races only once that lock has expired.          *)
(*                                                                           *)
(* The one look: scan_local, list_all and the hashing in classify read each  *)
(* path once, at different times.  An edit that falls between two of those   *)
(* reads comes before one and after the other, on different paths or         *)
(* different sides, and could as well have come before or after both.        *)
EXTENDS SyncDiff, Integers, FiniteSets

CONSTANTS
    Paths, NoPath,
    Ancestors,      \* per path: the folders above it
    Rank,           \* per path: its place in the sorted order
    CopiesOf,       \* per path: names its conflicted copies may get
    FilePaths, FolderPaths,   \* where people keep files, and folders
    Ignored,        \* dot names and *.notehook-tmp files, which the scan leaves out
    Policy,         \* conflict_policy
    Racing,         \* which sides may be edited during a pass
    MaxEdits, MaxFaults       \* bounds on people and on failures

ASSUME SyncEngineAssumption ==
    /\ NoPath \notin Paths
    /\ Ancestors \in [Paths -> SUBSET Paths]
    /\ \A p \in Paths : p \notin Ancestors[p] /\ \A q \in Ancestors[p] : Ancestors[q] \subseteq Ancestors[p]
    /\ \A p \in Paths : IsFiniteSet(Ancestors[p])
    /\ Rank \in [Paths -> Nat] /\ \A p, q \in Paths : Rank[p] = Rank[q] => p = q
    /\ CopiesOf \in [Paths -> SUBSET Paths]
    /\ \A p \in Paths : \A copy \in CopiesOf[p] : Rank[copy] < Rank[p]
    /\ FilePaths \subseteq Paths /\ FolderPaths \subseteq Paths /\ Ignored \subseteq Paths
    /\ Policy \in {"keep-both", "newest-wins", "local-wins", "remote-wins"}
    /\ Racing \subseteq {"local", "remote"}
    /\ MaxEdits \in Nat /\ MaxFaults \in Nat

VARIABLES
    local,        \* the sync root
    remote,       \* the server's tree
    known,        \* state.db, the merge base
    pc,           \* "idle", "run", or "failed" after a handler raised
    plan,         \* what is still to be done, per path
    listed,       \* the remote entries the plan was made from
    folders,      \* what the plan's scan saw as a folder
    gone,         \* listed entries whose node has been deleted since
    item,         \* the step the current item is at: [step, path, buf]
    unannounced,  \* changes this client made whose event is not in events.db
    edits, faults

passVars == <<pc, plan, listed, folders, gone, item>>
sides    == <<local, remote>>
vars     == <<local, remote, known, passVars, unannounced, edits, faults>>

NoItem   == [step |-> "none", path |-> NoPath, buf |-> Absent]
At(step, p, buf) == [step |-> step, path |-> p, buf |-> buf]

Subtree(p) == {p} \cup {q \in Paths : p \in Ancestors[q]}
Depth(p)   == Cardinality(Ancestors[p])

\* A file tree: what is there lies in folders that are there.
Tree(side) == \A p \in Paths : side[p] # Absent => \A a \in Ancestors[p] : side[a] = Folder

\* A file or folder put at p, with the folders above it.
Placed(side, p, node) ==
    [q \in Paths |-> IF q = p THEN node ELSE IF q \in Ancestors[p] THEN Folder ELSE side[q]]
Placeable(side, p) == \A a \in Ancestors[p] : side[a] \in {Folder, Absent}
Removed(side, p) == [q \in Paths |-> IF q \in Subtree(p) THEN Absent ELSE side[q]]

Usual(side) ==
    \A p \in Paths : \/ side[p] = Absent
                     \/ side[p] = Folder /\ p \in FolderPaths
                     \/ side[p] \in Contents /\ p \in FilePaths

\* A client that has synced everything, or a fresh one.
Init ==
    /\ local \in [Paths -> Node] /\ Usual(local) /\ Tree(local)
    /\ \/ /\ remote = local
          /\ known = [p \in Paths |-> [server |-> local[p], local |-> local[p]]]
          /\ \A p \in Ignored : local[p] = Absent
       \/ /\ remote \in [Paths -> Node] /\ Usual(remote) /\ Tree(remote)
          /\ known = [p \in Paths |-> NoRow]
    /\ pc = "idle"
    /\ plan = [p \in Paths |-> "NONE"] /\ listed = [p \in Paths |-> Absent]
    /\ folders = {} /\ gone = {} /\ item = NoItem
    /\ unannounced = {} /\ edits = 0 /\ faults = 0

------------------------------------------------------------------------------
(* People *)

MayEdit(side) == edits < MaxEdits /\ edits' = edits + 1 /\ (pc # "run" \/ side \in Racing)

\* A file is written, a folder made, a file or folder removed.
Edited(side, next) ==
    \/ \E p \in FilePaths, c \in Contents :
          /\ side[p] \notin {c, Folder} /\ \A a \in Ancestors[p] : side[a] = Folder
          /\ next = Placed(side, p, c)
    \/ \E p \in FolderPaths :
          /\ side[p] = Absent /\ \A a \in Ancestors[p] : side[a] = Folder
          /\ next = Placed(side, p, Folder)
    \/ \E p \in Paths : side[p] # Absent /\ next = Removed(side, p)

LocalEdit ==
    /\ MayEdit("local")
    /\ Edited(local, local')
    /\ UNCHANGED <<remote, known, passVars, unannounced, faults>>

\* What the plan listed at a deleted node is gone.  (An id that was the largest when its row
\* was deleted is given out again; a pass that would then act on the new node is left out.)
RemoteEdit ==
    /\ MayEdit("remote")
    /\ Edited(remote, remote')
    /\ gone' = IF pc = "run" THEN gone \cup {p \in Paths : remote[p] # Absent /\ remote'[p] = Absent}
               ELSE gone
    /\ UNCHANGED <<local, known, pc, plan, listed, folders, item, unannounced, faults>>

------------------------------------------------------------------------------
(* A pass *)

\* What scan_local sees: nothing whose name, or whose folder's name, it ignores.
Scan(p) == IF (Ancestors[p] \cup {p}) \cap Ignored = {} THEN local[p] ELSE Absent

StartPass ==
    /\ pc # "run"
    /\ pc' = "run"
    /\ plan' = [p \in Paths |-> Classify(Scan(p), remote[p], known[p])]
    /\ listed' = remote /\ folders' = {p \in Paths : Scan(p) = Folder}
    /\ gone' = {} /\ item' = NoItem
    /\ UNCHANGED <<sides, known, unannounced, edits, faults>>

Deletes == {"DELETE_LOCAL", "DELETE_REMOTE"}

\* Mutant: no deletes_last.sort: parents before children
Precedes_ByPath(p, q) ==
    LET i == Priority(plan[p])  j == Priority(plan[q]) IN
    i < j \/ (i = j /\ Rank[p] < Rank[q])

\* The engine's order: by priority, deletions deepest first, then by path.
Precedes(p, q) ==
    LET i == Priority(plan[p])  j == Priority(plan[q]) IN
    \/ i < j
    \/ i = j /\ plan[p] \in Deletes /\ Depth(p) > Depth(q)
    \/ i = j /\ (plan[p] \in Deletes => Depth(p) = Depth(q)) /\ Rank[p] < Rank[q]

\* p is the next item of the plan and is to be `action`-ed.
Ready(p, action) ==
    /\ pc = "run" /\ item = NoItem
    /\ plan[p] = action
    /\ \A q \in Paths \ {p} : plan[q] = "NONE" \/ Precedes(p, q)

\* The item goes on with a further step, or is done.
Continue(next)  == item' = next /\ UNCHANGED <<pc, listed, folders>>
Take(p)         == plan' = [plan EXCEPT ![p] = "NONE"]
SameCounts      == UNCHANGED <<edits, faults>>

\* Mutant: the item is left where it was
EndPass_KeepsItem(how) ==
    /\ pc' = how /\ gone' = {} /\ folders' = {}
    /\ plan' = [p \in Paths |-> "NONE"] /\ listed' = [p \in Paths |-> Absent]
    /\ UNCHANGED item

\* A handler raised: _run_pass sends syncEnd("failed") and re-raises.
EndPass(how) ==
    /\ pc' = how /\ item' = NoItem /\ gone' = {} /\ folders' = {}
    /\ plan' = [p \in Paths |-> "NONE"] /\ listed' = [p \in Paths |-> Absent]
Raises ==
    /\ EndPass("failed")
    /\ UNCHANGED <<sides, known, unannounced>> /\ SameCounts

\* upload_file reads the file, then apply, the bytes and finish make it the
\* server's; finish replaces a file of that name and makes missing folders.
UploadRead(p) ==
    /\ Ready(p, "UPLOAD")
    /\ IF local[p] \in Contents
       THEN /\ Take(p) /\ Continue(At("put", p, local[p]))
            /\ UNCHANGED <<sides, known, gone, unannounced>> /\ SameCounts
       ELSE Raises

UploadPut ==
    /\ item.step = "put"
    /\ IF remote[item.path] # Folder /\ Placeable(remote, item.path)
       THEN /\ remote' = Placed(remote, item.path, item.buf)
            /\ unannounced' = unannounced \cup {item.path}
            /\ Continue([item EXCEPT !.step = "record"])
            /\ UNCHANGED <<local, known, plan, gone>> /\ SameCounts
       ELSE Raises

\* download_file asks for the node, gets its blob, and renames a temporary file
\* over the local one.
DownloadGet(p) ==
    /\ Ready(p, "DOWNLOAD")
    /\ IF p \notin gone /\ remote[p] \in Contents
       THEN /\ Take(p) /\ Continue(At("replace", p, remote[p]))
            /\ UNCHANGED <<sides, known, gone, unannounced>> /\ SameCounts
       ELSE Raises

DownloadReplace ==
    /\ item.step = "replace"
    /\ IF local[item.path] # Folder /\ Placeable(local, item.path)
       THEN /\ local' = Placed(local, item.path, item.buf)
            /\ unannounced' = unannounced \cup {item.path}
            /\ Continue([item EXCEPT !.step = "record"])
            /\ UNCHANGED <<remote, known, plan, gone>> /\ SameCounts
       ELSE Raises

\* Mutant: the listed hash, not the one the transfer returned
RecordSynced_Listed(p, serverHash) ==
    known' = [known EXCEPT ![p] = [server |-> listed[p], local |-> local[p]]]

\* _record_synced: the server's hash, and the md5 of the file as it is now.
RecordSynced(p, serverHash) ==
    known' = [known EXCEPT ![p] = [server |-> serverHash, local |-> local[p]]]

Record ==
    /\ item.step = "record"
    /\ IF local[item.path] \in Contents
       THEN /\ RecordSynced(item.path, item.buf)
            /\ Continue([item EXCEPT !.step = "emit"])
            /\ UNCHANGED <<sides, plan, gone, unannounced>> /\ SameCounts
       ELSE Raises

\* _emit, after the state row: the event of an upload or a download.
Emit ==
    /\ item.step = "emit"
    /\ unannounced' = unannounced \ {item.path}
    /\ Continue(NoItem)
    /\ UNCHANGED <<sides, known, plan, gone>> /\ SameCounts

\* _do_record: a folder row when the scan saw a folder; a file's row takes the
\* listed hash ('' for a folder).
RecordItem(p) ==
    /\ Ready(p, "RECORD")
    /\ IF p \in folders \/ local[p] \in Contents
       THEN /\ IF p \in folders
               THEN known' = [known EXCEPT ![p] = FolderRow]
               ELSE RecordSynced(p, listed[p])
            /\ Take(p) /\ Continue(NoItem)
            /\ UNCHANGED <<sides, gone, unannounced>> /\ SameCounts
       ELSE Raises

\* mkdir / create_folder, then _record_folder.
MakesFolder(p, side) == side[p] \in {Absent, Folder} /\ Placeable(side, p)

MkdirLocal(p) ==
    /\ Ready(p, "MKDIR_LOCAL")
    /\ IF MakesFolder(p, local)
       THEN /\ local' = Placed(local, p, Folder)
            /\ Take(p) /\ Continue(At("folder", p, Absent))
            /\ UNCHANGED <<remote, known, gone, unannounced>> /\ SameCounts
       ELSE Raises

MkdirRemote(p) ==
    /\ Ready(p, "MKDIR_REMOTE")
    /\ IF MakesFolder(p, remote)
       THEN /\ remote' = Placed(remote, p, Folder)
            /\ Take(p) /\ Continue(At("folder", p, Absent))
            /\ UNCHANGED <<local, known, gone, unannounced>> /\ SameCounts
       ELSE Raises

RecordFolder ==
    /\ item.step = "folder"
    /\ known' = [known EXCEPT ![item.path] = FolderRow]
    /\ Continue(NoItem)
    /\ UNCHANGED <<sides, plan, gone, unannounced>> /\ SameCounts

\* _do_delete_local: a folder only when empty (otherwise the item is left for
\* the next pass); a file is unlinked, announced, and then forgotten.
DeleteLocal(p) ==
    /\ Ready(p, "DELETE_LOCAL")
    /\ Take(p)
    /\ IF local[p] = Folder /\ \E q \in Subtree(p) \ {p} : local[q] # Absent
       THEN Continue(NoItem) /\ UNCHANGED <<local, unannounced>>
       ELSE /\ local' = [local EXCEPT ![p] = Absent]
            /\ unannounced' = IF local[p] \in Contents THEN unannounced \cup {p} ELSE unannounced
            /\ Continue(At(IF local[p] \in Contents THEN "deleted" ELSE "forget", p, Absent))
    /\ UNCHANGED <<remote, known, gone>> /\ SameCounts

EmitDeleted ==
    /\ item.step = "deleted"
    /\ unannounced' = unannounced \ {item.path}
    /\ Continue([item EXCEPT !.step = "forget"])
    /\ UNCHANGED <<sides, known, plan, gone>> /\ SameCounts

\* _do_delete_remote: the listed node by its id, with everything below it.
DeleteRemote(p) ==
    /\ Ready(p, "DELETE_REMOTE")
    /\ IF p \notin gone
       THEN /\ remote' = Removed(remote, p)
            /\ gone' = gone \cup {q \in Subtree(p) : remote[q] # Absent}
            /\ unannounced' = IF listed[p] # Folder THEN unannounced \cup {p} ELSE unannounced
            /\ Take(p) /\ Continue(At("forget", p, listed[p]))
            /\ UNCHANGED <<local, known>> /\ SameCounts
       ELSE Raises

\* state.remove; the event of a remote delete comes after it.
Forget ==
    /\ item.step = "forget"
    /\ known' = [known EXCEPT ![item.path] = NoRow]
    /\ Continue(IF item.buf \in Contents THEN [item EXCEPT !.step = "emit"] ELSE NoItem)
    /\ UNCHANGED <<sides, plan, gone, unannounced>> /\ SameCounts

ForgetItem(p) ==
    /\ Ready(p, "FORGET")
    /\ known' = [known EXCEPT ![p] = NoRow]
    /\ Take(p) /\ Continue(NoItem)
    /\ UNCHANGED <<sides, gone, unannounced>> /\ SameCounts

\* _do_conflict.  The copy's name holds the time, so it is new; it sorts just
\* before p, so it is uploaded before p is downloaded.  newest-wins compares times the model does not keep.
KeepBoth(p) ==
    /\ Policy = "keep-both" /\ Ready(p, "CONFLICT")
    /\ IF local[p] \in Contents
       THEN /\ \E copy \in CopiesOf[p] :
                  /\ local[copy] = Absent /\ remote[copy] = Absent /\ known[copy] = NoRow
                  /\ local' = [local EXCEPT ![p] = Absent, ![copy] = local[p]]
                  /\ plan' = [plan EXCEPT ![p] = "DOWNLOAD", ![copy] = "UPLOAD"]
            /\ Continue(NoItem)
            /\ UNCHANGED <<remote, known, gone, unannounced>> /\ SameCounts
       ELSE Raises

Resolutions ==
    CASE Policy = "local-wins"  -> {"UPLOAD"}
      [] Policy = "remote-wins" -> {"DOWNLOAD"}
      [] Policy = "newest-wins" -> {"UPLOAD", "DOWNLOAD"}
      [] OTHER -> {}

PickSide(p) ==
    /\ Ready(p, "CONFLICT")
    /\ \E action \in Resolutions : plan' = [plan EXCEPT ![p] = action]
    /\ Continue(NoItem)
    /\ UNCHANGED <<sides, known, gone, unannounced>> /\ SameCounts

PassDone ==
    /\ pc = "run" /\ item = NoItem /\ \A p \in Paths : plan[p] = "NONE"
    /\ EndPass("idle")
    /\ UNCHANGED <<sides, known, unannounced>> /\ SameCounts

\* The network fails, a database is locked, the process dies.
PassFails ==
    /\ pc = "run" /\ faults < MaxFaults
    /\ faults' = faults + 1
    /\ EndPass("idle")
    /\ UNCHANGED <<sides, known, unannounced, edits>>

------------------------------------------------------------------------------
ItemStep(p) ==
    \/ UploadRead(p) \/ DownloadGet(p) \/ RecordItem(p) \/ MkdirLocal(p) \/ MkdirRemote(p)
    \/ DeleteLocal(p) \/ DeleteRemote(p) \/ ForgetItem(p) \/ KeepBoth(p) \/ PickSide(p)

EngineStep ==
    \/ StartPass \/ PassDone
    \/ UploadPut \/ DownloadReplace \/ Record \/ Emit \/ RecordFolder \/ EmitDeleted \/ Forget
    \/ \E p \in Paths : ItemStep(p)

Next == EngineStep \/ PassFails \/ LocalEdit \/ RemoteEdit

Spec == Init /\ [][Next]_vars

\* The daemon keeps running passes; people and failures stop at their bounds.
FairSpec == Spec /\ WF_vars(EngineStep)

------------------------------------------------------------------------------
(* Properties *)

Steps == {"none", "put", "replace", "record", "emit", "folder", "deleted", "forget"}

TypeOK ==
    /\ local \in [Paths -> Node] /\ remote \in [Paths -> Node]
    /\ known \in [Paths -> Row]
    /\ pc \in {"idle", "run", "failed"}
    /\ plan \in [Paths -> Actions] /\ listed \in [Paths -> Node]
    /\ folders \subseteq Paths /\ gone \subseteq Paths
    /\ item \in [step : Steps, path : Paths \cup {NoPath}, buf : Node]
    /\ item # NoItem => pc = "run" /\ item.path \in Paths
    /\ unannounced \subseteq Paths
    /\ edits \in Nat /\ faults \in Nat

\* What state.db takes for agreed, agrees: when neither side has changed since
\* its row, and both are there, they have one content.  Otherwise an edit passes
\* for the merge base and never leaves its side (engine.py _record_synced).
NoSilentDivergence ==
    \A p \in Paths :
        /\ pc # "run"
        /\ local[p] # Absent /\ local[p] = known[p].local
        /\ remote[p] # Absent /\ remote[p] = known[p].server
        => local[p] = remote[p]

\* The row of p says that both sides had c.
Synced(p, c) == known[p] = [server |-> c, local |-> c]

\* The engine overwrites or deletes a local file only if the version it loses
\* was synced, was moved aside, or lost a conflict to a remote version that is
\* new as well, under a policy that says so (engine.py _do_download,
\* _do_delete_local, _do_conflict; diff.py "A local edit wins over a remote
\* delete").
KeepsLocalEdits ==
    [][edits' = edits =>
         \A p \in Paths : local[p] \in Contents /\ local'[p] # local[p] =>
            \/ Synced(p, local[p])
            \/ \E q \in CopiesOf[p] : local[q] = Absent /\ local'[q] = local[p]
            \/ Policy \in {"remote-wins", "newest-wins"} /\ local'[p] \in Contents \ {known[p].server}]_vars

\* The same for a remote file: the version it loses was synced, or lost a
\* conflict to a local version that is new as well (engine.py _do_upload,
\* _do_delete_remote; diff.py "Remote edit wins over a local delete").
KeepsRemoteEdits ==
    [][edits' = edits =>
         \A p \in Paths : remote[p] \in Contents /\ remote'[p] # remote[p] =>
            \/ Synced(p, remote[p])
            \/ Policy \in {"local-wins", "newest-wins"} /\ remote'[p] \in Contents \ {known[p].local}]_vars

\* A row is written only of what then is on the server and on the disk: a pass
\* that stops after any step leaves rows the next pass may take for the merge
\* base (engine.py _do_upload, _do_download, _record_synced).
RowsWereTrue ==
    [][\A p \in Paths : known'[p] # known[p] /\ known'[p] # NoRow =>
         known'[p] = [server |-> remote[p], local |-> local[p]]]_vars

\* A file somebody deleted is not brought back as it was: what appears is a
\* version the client has not synced before (diff.py _classify_one).
NeverResurrects ==
    [][edits' = edits =>
         \A p \in Paths :
            /\ local[p] = Absent /\ local'[p] \in Contents => local'[p] # known[p].server
            /\ remote[p] = Absent /\ remote'[p] \in Contents => remote'[p] # known[p].local]_vars

\* No order of the plan's own items makes a handler raise: folders are there
\* before what goes into them, and a node is deleted once (diff.py classify's
\* order, engine.py _run_pass).
NeverFailsByItself == pc # "failed"

\* Once people stop, both sides come to be the same and stay so (README:
\* "bidirectionally in sync").
Converges == <>[](local = remote)

\* A remote file is deleted only when it is missing from the local disk
\* (workflow-spec section 1: delete_remote is "local deletion pushed").
DeletesOnlyDeleted ==
    [][edits' = edits =>
         \A p \in Paths : remote[p] \in Contents /\ remote'[p] = Absent => local[p] = Absent]_vars

\* Outside a pass, every change this client made has its event
\* (workflow-spec section 1: "exactly as durable as the files themselves").
EventsAsDurable == pc = "idle" => unannounced = {}
==============================================================================
