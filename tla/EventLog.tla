------------------------------ MODULE EventLog ------------------------------
(* events.db, the hand-over between the sync engine and the workflow runner  *)
(* (client/workflows/events.py).  Two tables and a one-row cursor:           *)
(*   event  rows appended by sync passes (unsettled until the pass ends) and *)
(*          by `workflows run` / `backfill` (settled at once);               *)
(*   run    one row per (event, install) the intake decided to queue;        *)
(*   cursor runner_meta.cursor_event_id.                                     *)
(* Every operator below is one method of EventLog, that is one SQLite        *)
(* transaction: its guard is the WHERE clause, its primes the statement.     *)
(*                                                                           *)
(* Data kept abstract.  A run is identified by <<event id, install>>: the    *)
(* intake inserts at most one row per such pair, and its AUTOINCREMENT order *)
(* is the order of the event ids.  Epoch columns become the one comparison   *)
(* made with them: run.due is next_attempt_at <= now, "old" is created_at or *)
(* finished_at < the retention cutoff.                                       *)
EXTENDS Naturals

CONSTANTS
    Installs,       \* install aliases
    Paths,          \* rel_path values
    NoInstall       \* target_install = ''

VARIABLES event, run, cursor, nextEvent

logVars == <<event, run, cursor, nextEvent>>

EventTypes == {"created", "updated", "deleted"}
Sources    == {"sync", "backfill", "manual"}

\* What a producer decides about an event; own is origin_equipment being this
\* client's own equipment number.
EventKind == [path : Paths, type : EventTypes, source : Sources, own : BOOLEAN,
              target : Installs \cup {NoInstall}]

EventRow == [kind : EventKind, pass : Nat, settled : BOOLEAN, old : BOOLEAN]

Pending     == {"queued", "retry"}
Terminal    == {"success", "failed", "superseded"}
RunStatus   == Pending \cup Terminal \cup {"running"}
Unfinished  == Pending \cup {"running"}

RunRow == [path : Paths, attempt : Nat \ {0}, status : RunStatus,
           due : BOOLEAN, old : BOOLEAN]

Runs == Nat \X Installs

EventLogInit ==
    /\ event = [e \in {} |-> {}]
    /\ run = [r \in {} |-> {}]
    /\ cursor = 0
    /\ nextEvent = 1

\* The rel_path a run for <<event, install>> r gets.
PathOf(r) == event[r[1]].kind.path

------------------------------------------------------------------------------
(* Producer side *)

Insert(kind, pass, settled) ==
    /\ event' = [e \in DOMAIN event \cup {nextEvent} |->
                    IF e = nextEvent
                    THEN [kind |-> kind, pass |-> pass, settled |-> settled, old |-> FALSE]
                    ELSE event[e]]
    /\ nextEvent' = nextEvent + 1
    /\ UNCHANGED <<run, cursor>>

SettleAll(rows) ==
    /\ event' = [e \in DOMAIN event |->
                    IF e \in rows THEN [event[e] EXCEPT !.settled = TRUE] ELSE event[e]]
    /\ UNCHANGED <<run, cursor, nextEvent>>

\* settle_pass: the rows of one pass.
SettlePass(pass) == SettleAll({e \in DOMAIN event : event[e].pass = pass})

\* settle_orphans: every row, whatever pass it belongs to.
SettleOrphans == SettleAll(DOMAIN event)

------------------------------------------------------------------------------
(* Consumer side *)

\* Mutant: `settled = 1 AND id > cursor`, over the gaps.
UnconsumedSettled_OverGaps == {e \in DOMAIN event : e > cursor /\ event[e].settled}

\* unconsumed_settled: rows past the cursor, up to the first unsettled one.
UnconsumedSettled ==
    {e \in DOMAIN event :
        /\ e > cursor
        /\ \A d \in DOMAIN event : cursor < d /\ d <= e => event[d].settled}

\* Mutant: attempts counted from 0.
QueuedRow_FromZero(path, status) ==
    [path |-> path, attempt |-> 0, status |-> status, due |-> FALSE, old |-> FALSE]

QueuedRow(path, status) ==
    [path |-> path, attempt |-> 1, status |-> status, due |-> FALSE, old |-> FALSE]

\* Mutant: two events of one intake do not see each other.
InsertedStatus_Alone(r, pending) == "queued"

\* In one intake two events of a pair are inserted in id order, so the second
\* supersedes the run the first has just been given.
InsertedStatus(r, pending) ==
    IF \E q \in pending : q[2] = r[2] /\ PathOf(q) = PathOf(r) /\ q[1] > r[1]
    THEN "superseded" ELSE "queued"

\* Mutants: runs waiting for a retry survive; ended runs are superseded too; the
\* install is not compared.
Supersede_QueuedOnly(r, pending) ==
    IF /\ run[r].status = "queued"
       /\ \E q \in pending : q[2] = r[2] /\ PathOf(q) = run[r].path
    THEN [run[r] EXCEPT !.status = "superseded", !.old = FALSE]
    ELSE run[r]
Supersede_AnyStatus(r, pending) ==
    IF \E q \in pending : q[2] = r[2] /\ PathOf(q) = run[r].path
    THEN [run[r] EXCEPT !.status = "superseded", !.old = FALSE]
    ELSE run[r]
Supersede_AnyInstall(r, pending) ==
    IF run[r].status \in Pending /\ \E q \in pending : PathOf(q) = run[r].path
    THEN [run[r] EXCEPT !.status = "superseded", !.old = FALSE]
    ELSE run[r]

Supersede(r, pending) ==
    IF /\ run[r].status \in Pending
       /\ \E q \in pending : q[2] = r[2] /\ PathOf(q) = run[r].path
    THEN [run[r] EXCEPT !.status = "superseded", !.old = FALSE]
    ELSE run[r]

\* intake: supersede, insert and advance the cursor in one transaction.
Intake(pending, newCursor) ==
    /\ run' = [r \in DOMAIN run \cup pending |->
                  IF r \in pending
                  THEN QueuedRow(PathOf(r), InsertedStatus(r, pending))
                  ELSE Supersede(r, pending)]
    /\ cursor' = newCursor
    /\ UNCHANGED <<event, nextEvent>>

\* Mutants: the pair's running row is not looked for; retries are not picked up.
Claimable_Overlapping ==
    {r \in DOMAIN run :
        /\ r[1] \in DOMAIN event
        /\ run[r].status = "queued" \/ (run[r].status = "retry" /\ run[r].due)}
Claimable_NoRetry ==
    {r \in DOMAIN run :
        /\ r[1] \in DOMAIN event
        /\ run[r].status = "queued"
        /\ \A q \in DOMAIN run :
              run[q].status = "running" => q[2] # r[2] \/ run[q].path # run[r].path}

\* The rows claim_next may choose from, before ORDER BY id LIMIT 1.  The join
\* with event drops a run whose event row is gone.
Claimable ==
    {r \in DOMAIN run :
        /\ r[1] \in DOMAIN event
        /\ run[r].status = "queued" \/ (run[r].status = "retry" /\ run[r].due)
        /\ \A q \in DOMAIN run :
              run[q].status = "running" => q[2] # r[2] \/ run[q].path # run[r].path}

\* claim_next picks the oldest; rows of one event are in the arbitrary order
\* the intake met the installs in.
Oldest(runs) == {r \in runs : \A q \in runs : r[1] <= q[1]}

SetRun(r, row) ==
    /\ run' = [run EXCEPT ![r] = row]
    /\ UNCHANGED <<event, cursor, nextEvent>>

MarkRunning(r) == SetRun(r, [run[r] EXCEPT !.status = "running"])

\* finalize_success, finalize_failed (_set_terminal).
SetTerminal(r, status) == SetRun(r, [run[r] EXCEPT !.status = status, !.old = FALSE])

\* finalize_retry.
FinalizeRetry(r, attempt) ==
    SetRun(r, [run[r] EXCEPT !.status = "retry", !.attempt = attempt,
                      !.due = FALSE, !.old = FALSE])

\* Mutant: events go with their runs still there.
SweptEvents_Referenced == {e \in DOMAIN event : event[e].old}

\* sweep: terminal runs past the cutoff, then the old events that no
\* remaining run refers to.
SweptRuns == {r \in DOMAIN run : run[r].status \in Terminal /\ run[r].old}

SweptEvents ==
    {e \in DOMAIN event :
        event[e].old /\ ~\E r \in DOMAIN run \ SweptRuns : r[1] = e}

SweepLog ==
    /\ run' = [r \in DOMAIN run \ SweptRuns |-> run[r]]
    /\ event' = [e \in DOMAIN event \ SweptEvents |-> event[e]]
    /\ UNCHANGED <<cursor, nextEvent>>

------------------------------------------------------------------------------
(* The clock *)

\* A scheduled retry's next_attempt_at is reached.
BackoffElapses(r) ==
    /\ run[r].status = "retry" /\ ~run[r].due
    /\ SetRun(r, [run[r] EXCEPT !.due = TRUE])

\* finished_at is not NULL: set by the last attempt, also one to be retried.
Finished(row) == row.status \in Terminal \/ row.attempt > 1

\* retention_days pass: what is in the tables now is behind the cutoff.
RetentionElapses ==
    /\ event' = [e \in DOMAIN event |-> [event[e] EXCEPT !.old = TRUE]]
    /\ run' = [r \in DOMAIN run |->
                  [run[r] EXCEPT !.old = Finished(run[r])]]
    /\ <<event, run>>' # <<event, run>>
    /\ UNCHANGED <<cursor, nextEvent>>
==============================================================================
