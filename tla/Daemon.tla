------------------------------- MODULE Daemon --------------------------------
(* The client's daemon (daemon.py) between the server's change feed          *)
(* (files/change_service.py, routers/notehook.py) and the sync lock: when a  *)
(* pass runs, what wakes it, and what it has seen when it ends.  A pass's    *)
(* own work is SyncEngine; here a pass pushes the edits it scanned and pulls *)
(* the changes it listed.  Other devices use the server as they like.        *)
(*                                                                           *)
(* The daemon is three threads: the loop of run, the watcher and the feed.   *)
EXTENDS SyncLock, FiniteSets, Sequences

CONSTANTS
    Me,           \* the daemon's equipment_no
    Limit,        \* rows one answer of the feed holds
    MaxChanges, MaxStarts,   \* bounds on what other devices do
    MaxEdits,     \* bound on the user's edits
    MaxFaults,    \* bound on faults
    MaxEvents     \* bound on all these together

Others == Devices \ {Me}

ASSUME DaemonAssumption ==
    /\ Me \in Devices /\ Limit \in Nat \ {0}
    /\ MaxChanges \in Nat /\ MaxStarts \in Nat /\ MaxEdits \in Nat /\ MaxFaults \in Nat
    /\ MaxEvents \in Nat

VARIABLES
    changes,   \* the change table: by id, the device that made the change
    starts,    \* syncStarts of other devices
    edits,     \* the user's edits under the sync root, counted
    touched,   \* the watcher has something to report
    noticed,   \* edits when it last reported
    wake,      \* the event that ends run's wait
    feed,      \* the feed thread
    pc,        \* where run stands
    failed,    \* the last pass failed
    waits,     \* the call whose answer the loop waits for, a set of one or none
    late,      \* the requests the loop gave up on and the server has not begun
    scanned, listed,    \* edits and changes when this pass scanned and listed
    pushed, pulled,     \* edits that were uploaded, changes a whole pass has seen
    faults

local == <<pc, failed, waits, scanned, listed, pushed, pulled>>
world == <<changes, starts, edits, faults>>
watched == <<touched, noticed>>
vars == <<session, starting, changing, local, late, world, watched, wake, feed>>

\* boot: the cursor the bootstrap answered (kept for NoLostWakeup).
Feed == [on : BOOLEAN, cursor : Nat, boot : Nat]
FeedStarts == [on |-> TRUE, cursor |-> 0, boot |-> 0]

Init ==
    /\ LockInit
    /\ changes = << >> /\ starts = 0 /\ edits = 0 /\ faults = 0
    /\ touched = FALSE /\ noticed = 0
    /\ wake = FALSE /\ feed = FeedStarts
    /\ pc = "begin" /\ failed = FALSE /\ waits = {} /\ late = {}
    /\ scanned = 0 /\ listed = 0 /\ pushed = 0 /\ pulled = 0

------------------------------------------------------------------------------
(* The server and the other devices *)

\* Mutant: one past the newest id.
LatestCursor_Next == Len(changes) + 1
LatestCursor == Len(changes)
\* The rows after n that fit in one answer, and the last of them (n if there is none).
LastRow(n) == IF n + Limit <= LatestCursor THEN n + Limit ELSE LatestCursor
Since(n) == n + 1..LastRow(n)
Record(d) == changes' = Append(changes, d)
Foreign(ns) == {n \in ns : changes[n] # Me}

\* Changes other devices have made and are making; and what has happened so far.
OthersChange == Cardinality(Foreign(DOMAIN changes)) + Cardinality({c \in changing : c[1] # Me})
Eventful == OthersChange + starts + edits + faults < MaxEvents

\* Which of the free calls a request takes makes no difference.
FreeCall(d) == CHOOSE t \in Calls : t \in Free(d) \/ Free(d) = {}

OtherStarts(d) ==
    /\ Eventful /\ starts < MaxStarts /\ starts' = starts + 1
    /\ AskToStart(d, FreeCall(d))
    /\ UNCHANGED <<local, late, changes, edits, faults, watched, wake, feed>>

OtherSyncs(d) ==
    /\ (\E t \in Calls : ReadPriors(d, t) \/ BeginSync(d, t)) \/ EndSync(d)
    /\ UNCHANGED <<local, late, world, watched, wake, feed>>

OtherAsks(d) ==
    /\ Eventful /\ OthersChange < MaxChanges
    /\ Guard(d, FreeCall(d))
    /\ UNCHANGED <<local, late, world, watched, wake, feed>>

OtherChanges(d) ==
    /\ (\E t \in Calls : Leave(d, t)) /\ Record(d)
    /\ UNCHANGED <<local, late, starts, edits, faults, watched, wake, feed>>

SessionExpires(d) ==
    /\ Expire(d)
    /\ UNCHANGED <<local, late, world, watched, wake, feed>>

------------------------------------------------------------------------------
(* The watcher and the feed *)

Edit ==
    /\ Eventful /\ edits < MaxEdits /\ edits' = edits + 1 /\ touched' = TRUE
    /\ UNCHANGED <<lockvars, local, late, changes, starts, faults, noticed, wake, feed>>

WatchLoop ==
    /\ touched /\ touched' = FALSE /\ noticed' = edits
    /\ wake' = TRUE
    /\ UNCHANGED <<lockvars, local, late, world, feed>>

\* Mutant: the answer's cursor is the newest id, though the rows stop at the limit.
FeedLoop_Newest ==
    LET rows == Since(feed.cursor)
        boots == feed.cursor = 0
    IN  /\ feed.on
        /\ feed' = [feed EXCEPT !.cursor = LatestCursor, !.boot = IF boots THEN LatestCursor ELSE @]
        /\ wake' = (wake \/ (~boots /\ Foreign(rows) # {}))
        /\ UNCHANGED <<lockvars, local, late, world, watched>>

\* From 0 an answer is a bootstrap, without rows; it is asked for again while it is 0.
\* Otherwise the cursor goes to the last row, and a row of another device wakes run.
\* The newest id is read before the rows: if there are none it is the client's own cursor.
FeedLoop ==
    LET rows == Since(feed.cursor)
        boots == feed.cursor = 0
    IN  /\ feed.on
        /\ feed' = [feed EXCEPT !.cursor = IF boots THEN LatestCursor ELSE LastRow(@),
                                !.boot = IF boots THEN LatestCursor ELSE @]
        /\ wake' = (wake \/ (~boots /\ Foreign(rows) # {}))
        /\ UNCHANGED <<lockvars, local, late, world, watched>>

Fault == Eventful /\ faults < MaxFaults /\ faults' = faults + 1

\* EndpointUnsupported, or an exception the loop does not catch; other errors are retried.
FeedStops ==
    /\ Fault /\ feed' = [feed EXCEPT !.on = FALSE]
    /\ UNCHANGED <<lockvars, local, late, changes, starts, edits, watched, wake>>

------------------------------------------------------------------------------
(* The loop *)

Goes(from, to) == pc = from /\ pc' = to
Fails == pc' = "wait" /\ failed' = TRUE

\* The wait times out, or a trigger ends it; then the event is cleared before the pass.
PollTimer ==
    /\ Goes("wait", "begin")
    /\ UNCHANGED <<lockvars, waits, late, world, watched, wake, feed, failed, scanned, listed, pushed, pulled>>
Triggered ==
    /\ Goes("wait", "clear") /\ wake
    /\ UNCHANGED <<lockvars, waits, late, world, watched, wake, feed, failed, scanned, listed, pushed, pulled>>
Clear ==
    /\ Goes("clear", "begin") /\ wake' = FALSE
    /\ UNCHANGED <<lockvars, waits, late, world, watched, feed, failed, scanned, listed, pushed, pulled>>

\* A refused syncStart raises before the try: no syncEnd is sent.
StartPass ==
    /\ pc = "begin"
    /\ \/ Refused(Me) /\ Fails /\ UNCHANGED <<lockvars, waits>>
       \/ AskToStart(Me, FreeCall(Me)) /\ waits' = {FreeCall(Me)} /\ Goes("begin", "start") /\ UNCHANGED failed
    /\ UNCHANGED <<late, world, watched, wake, feed, scanned, listed, pushed, pulled>>
StartGoesOn ==
    /\ pc = "start"
    /\ \E t \in Calls \cap waits :
          \/ ReadPriors(Me, t) /\ UNCHANGED <<pc, waits>>
          \/ BeginSync(Me, t) /\ pc' = "scan" /\ waits' = {}
    /\ UNCHANGED <<late, world, watched, wake, feed, failed, scanned, listed, pushed, pulled>>
Scan ==
    /\ Goes("scan", "list") /\ scanned' = edits
    /\ UNCHANGED <<lockvars, waits, late, world, watched, wake, feed, failed, listed, pushed, pulled>>
List ==
    /\ Goes("list", "work") /\ listed' = LatestCursor
    /\ UNCHANGED <<lockvars, waits, late, world, watched, wake, feed, failed, scanned, pushed, pulled>>

\* What is pulled is written under the sync root, where the watcher sees it.
Pull ==
    /\ pc = "work" /\ scanned = pushed
    /\ Goes("work", "end")
    /\ touched' = (touched \/ Foreign(pulled + 1..listed) # {})
    /\ UNCHANGED <<lockvars, waits, late, world, noticed, wake, feed, failed, scanned, listed, pushed, pulled>>

\* An upload passes its guard, and is committed later.
Push ==
    /\ pc = "work" /\ scanned > pushed
    /\ \/ /\ waits = {} /\ Guard(Me, FreeCall(Me)) /\ waits' = {FreeCall(Me)}
          /\ UNCHANGED <<changes, pushed>>
       \/ /\ \E t \in Calls \cap waits : Leave(Me, t)
          /\ waits' = {} /\ Record(Me) /\ pushed' = scanned
    /\ UNCHANGED <<late, starts, edits, faults, watched, wake, feed, pc, failed, scanned, listed, pulled>>

PushRefused ==
    /\ pc = "work" /\ scanned > pushed /\ waits = {} /\ Refused(Me)
    /\ EndSync(Me) /\ Fails
    /\ UNCHANGED <<waits, late, world, watched, wake, feed, scanned, listed, pushed, pulled>>

\* Mutant: what came in during the pass counts as seen.
EndPass_Clears ==
    /\ Goes("end", "wait") /\ EndSync(Me)
    /\ failed' = FALSE /\ pulled' = listed /\ wake' = FALSE
    /\ UNCHANGED <<waits, late, world, watched, feed, scanned, listed, pushed>>

EndPass ==
    /\ Goes("end", "wait") /\ EndSync(Me)
    /\ failed' = FALSE /\ pulled' = listed
    /\ UNCHANGED <<waits, late, world, watched, wake, feed, scanned, listed, pushed>>

------------------------------------------------------------------------------
(* What goes wrong around the loop *)

\* What the loop may have sent and have given up on before the server began it.
InFlight ==
    (IF pc = "begin" THEN {"start"} ELSE {}) \cup
    (IF pc = "work" /\ scanned > pushed /\ waits = {} THEN {"change"} ELSE {}) \cup
    (IF pc \in {"scan", "list", "work", "end"} THEN {"end"} ELSE {})

\* It is lost, or arrives when it will; what the server has begun it finishes.
GivesUp == waits' = {} /\ \E rs \in SUBSET InFlight : late' = late \cup rs

\* The engine's lock file is held, a request or its answer is lost or takes too long, an
\* item raises: the pass ends with a syncEnd, unless syncStart was not yet answered.
PassFails ==
    /\ Fault /\ pc \in {"begin", "start", "scan", "list", "work", "end"} /\ Fails
    /\ GivesUp
    /\ \/ UNCHANGED lockvars
       \/ pc \notin {"begin", "start"} /\ "end" \notin late' /\ EndSync(Me)
    /\ UNCHANGED <<changes, starts, edits, watched, wake, feed, scanned, listed, pushed, pulled>>

\* The daemon is stopped or killed, and started again.
Restart ==
    /\ Fault /\ pc' = "begin" /\ wake' = FALSE /\ feed' = FeedStarts
    /\ touched' = FALSE /\ noticed' = 0
    /\ GivesUp
    /\ UNCHANGED <<lockvars, changes, starts, edits, failed, scanned, listed, pushed, pulled>>

\* The server goes on with a call the loop gave up on, beside what the loop asks of it next.
LateStart ==
    /\ \/ /\ \E t \in Calls \ waits : ReadPriors(Me, t) \/ BeginSync(Me, t)
          /\ UNCHANGED late
       \/ /\ "start" \in late /\ AskToStart(Me, FreeCall(Me))
          /\ late' = late \ {"start"}
    /\ UNCHANGED <<local, world, watched, wake, feed>>

LatePush ==
    /\ \/ /\ \E t \in Calls \ waits : Leave(Me, t)
          /\ Record(Me) /\ UNCHANGED late
       \/ /\ "change" \in late /\ Guard(Me, FreeCall(Me))
          /\ late' = late \ {"change"} /\ UNCHANGED changes
    /\ UNCHANGED <<local, starts, edits, faults, watched, wake, feed>>

\* It closes whichever session the device has by then.
LateEnd ==
    /\ "end" \in late /\ EndSync(Me) /\ late' = late \ {"end"}
    /\ UNCHANGED <<local, world, watched, wake, feed>>

Loop ==
    \/ PollTimer \/ Triggered \/ Clear
    \/ StartPass \/ StartGoesOn \/ Scan \/ List \/ Pull \/ Push \/ PushRefused \/ EndPass

Next ==
    \/ \E d \in Others : OtherStarts(d) \/ OtherSyncs(d) \/ OtherAsks(d) \/ OtherChanges(d)
    \/ (\E d \in Devices : SessionExpires(d)) \/ Edit \/ WatchLoop \/ FeedLoop \/ FeedStops
    \/ Loop \/ LateStart \/ LatePush \/ LateEnd \/ PassFails \/ Restart

\* run's thread goes on and its wait times out; a session grows old whoever left it.
\* Nothing is asked of the watcher, the feed, the other devices or the user.
Spec == Init /\ [][Next]_vars /\ WF_vars(Loop) /\ \A d \in Devices : WF_vars(SessionExpires(d))

------------------------------------------------------------------------------
(* Properties *)

FeedTypeOK ==
    /\ changes \in Seq(Devices)
    /\ starts \in 0..MaxStarts /\ faults \in 0..MaxFaults
    /\ edits \in 0..MaxEdits /\ noticed \in 0..edits
    /\ touched \in BOOLEAN /\ wake \in BOOLEAN /\ failed \in BOOLEAN
    /\ feed \in Feed /\ feed.cursor <= Len(changes)
    /\ pc \in {"wait", "clear", "begin", "start", "scan", "list", "work", "end"}
    /\ waits \subseteq Calls /\ late \subseteq {"start", "change", "end"}
    /\ pushed <= scanned /\ scanned <= edits
    /\ pulled <= listed /\ listed <= Len(changes)
    /\ scanned \in Nat /\ listed \in Nat /\ pushed \in Nat /\ pulled \in Nat
TypeOK == LockTypeOK /\ FeedTypeOK

Told == {n \in Foreign(DOMAIN changes) : feed.boot < n /\ n <= feed.cursor /\ n > pulled}
Coming == wake \/ pc \in {"clear", "begin", "start", "scan"} \/ (pc = "wait" /\ failed)

\* No wake-up is lost: a foreign change the feed has told of, or an edit the watcher has
\* reported, is seen by the pass that is on its way, or starts one, unless a pass failed.
NoLostWakeup ==
    /\ \A n \in Told : Coming \/ pc = "list" \/ (pc \in {"work", "end"} /\ n <= listed)
    /\ noticed > pushed => Coming \/ (pc \in {"list", "work", "end"} /\ noticed <= scanned)

\* Every change of another device is pulled and every edit pushed in the end, whichever
\* triggers fail, whoever dies holding the lock and however often a pass is turned away.
EventuallySynced ==
    /\ \A n \in 1..MaxChanges : LatestCursor >= n ~> pulled >= n
    /\ \A n \in 1..MaxEdits : edits >= n ~> pushed >= n
==============================================================================
