------------------------------ MODULE SyncDiff ------------------------------
(* The three-way diff (client/diff.py): what one pass does with one path,    *)
(* from the local scan, the server listing and the row the last pass left in *)
(* state.db.  Pure: no state.                                                *)
(*                                                                           *)
(* A file is its content; a content stands for its md5, so equal hashes mean *)
(* equal contents.  A folder row, and the row of a file recorded against a   *)
(* remote folder, carry the hash ''; here Folder.                            *)
CONSTANTS
    Contents,
    Absent, Folder

ASSUME ContentsAssumption == Absent \notin Contents /\ Folder \notin Contents /\ Absent # Folder

Node  == Contents \cup {Absent, Folder}
Row   == [server : Node, local : Node]
NoRow == [server |-> Absent, local |-> Absent]
FolderRow == [server |-> Folder, local |-> Folder]

Actions == {"UPLOAD", "DOWNLOAD", "DELETE_LOCAL", "DELETE_REMOTE", "MKDIR_LOCAL",
            "MKDIR_REMOTE", "CONFLICT", "FORGET", "RECORD", "NONE"}

\* _classify_folder: either side is a folder.
ClassifyFolder(loc, rem, base) ==
    CASE loc # Absent /\ rem # Absent  -> "RECORD"
      [] rem = Absent /\ base # NoRow  -> "DELETE_LOCAL"
      [] rem = Absent /\ base = NoRow  -> "MKDIR_REMOTE"
      [] loc = Absent /\ rem # Absent /\ base # NoRow -> "DELETE_REMOTE"
      [] loc = Absent /\ rem # Absent /\ base = NoRow -> "MKDIR_LOCAL"

LocalChanged(loc, base)  == loc # Absent /\ loc # base.local
RemoteChanged(rem, base) == rem # Absent /\ rem # base.server

\* Mutants: two versions at first sight: the remote one is taken, or both
\* sides are recorded as agreed
ClassifyNew_TakesRemote(loc, rem) ==
    CASE loc # Absent /\ rem = Absent -> "UPLOAD"
      [] rem # Absent /\ loc # rem    -> "DOWNLOAD"
      [] rem # Absent /\ loc = rem    -> "RECORD"
      [] OTHER -> "NONE"
ClassifyNew_Agreed(loc, rem) ==
    CASE loc # Absent /\ rem = Absent -> "UPLOAD"
      [] loc = Absent /\ rem # Absent -> "DOWNLOAD"
      [] loc # Absent /\ rem # Absent -> "RECORD"
      [] OTHER -> "NONE"

\* _classify_one, first sight: no row.
ClassifyNew(loc, rem) ==
    CASE loc # Absent /\ rem = Absent -> "UPLOAD"
      [] loc = Absent /\ rem # Absent -> "DOWNLOAD"
      [] loc # Absent /\ rem # Absent -> IF loc = rem THEN "RECORD" ELSE "CONFLICT"
      [] OTHER -> "NONE"

\* Mutants: no look at whether the side that is still there has changed: the
\* delete is pushed, or the file is brought back
ClassifyGone_Pushed(loc, rem, base) ==
    CASE loc = Absent /\ rem = Absent -> "FORGET"
      [] loc = Absent /\ rem # Absent -> "DELETE_REMOTE"
      [] OTHER -> "DELETE_LOCAL"
ClassifyGone_BroughtBack(loc, rem, base) ==
    CASE loc = Absent /\ rem = Absent -> "FORGET"
      [] loc = Absent /\ rem # Absent -> "DOWNLOAD"
      [] OTHER -> "UPLOAD"

\* _classify_one, one side is gone.
ClassifyGone(loc, rem, base) ==
    CASE loc = Absent /\ rem = Absent -> "FORGET"
      [] loc = Absent /\ rem # Absent ->
            IF RemoteChanged(rem, base) THEN "DOWNLOAD" ELSE "DELETE_REMOTE"
      [] OTHER ->
            IF LocalChanged(loc, base) THEN "UPLOAD" ELSE "DELETE_LOCAL"

\* Mutant: the remote change is not looked at
ClassifyBoth_LocalFirst(loc, rem, base) ==
    CASE LocalChanged(loc, base) -> "UPLOAD"
      [] RemoteChanged(rem, base) -> "DOWNLOAD"
      [] OTHER -> "RECORD"

\* _classify_one, both sides are there.
ClassifyBoth(loc, rem, base) ==
    CASE LocalChanged(loc, base) /\ ~RemoteChanged(rem, base) -> "UPLOAD"
      [] RemoteChanged(rem, base) /\ ~LocalChanged(loc, base) -> "DOWNLOAD"
      [] LocalChanged(loc, base) /\ RemoteChanged(rem, base) /\ loc # rem -> "CONFLICT"
      [] OTHER -> "RECORD"

Classify(loc, rem, base) ==
    CASE Folder \in {loc, rem} -> ClassifyFolder(loc, rem, base)
      [] Folder \notin {loc, rem} /\ base = NoRow -> ClassifyNew(loc, rem)
      [] Folder \notin {loc, rem} /\ base # NoRow ->
            IF Absent \in {loc, rem} THEN ClassifyGone(loc, rem, base)
            ELSE ClassifyBoth(loc, rem, base)

\* classify's sort key: folders first, deletions last.
Priority(action) ==
    CASE action \in {"MKDIR_LOCAL", "MKDIR_REMOTE"}             -> 0
      [] action \in {"UPLOAD", "DOWNLOAD", "RECORD", "CONFLICT"} -> 1
      [] action = "FORGET"                                       -> 2
      [] action \in {"DELETE_LOCAL", "DELETE_REMOTE", "NONE"}    -> 3
==============================================================================
