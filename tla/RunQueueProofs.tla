--------------------------- MODULE RunQueueProofs ----------------------------
(* The runner implements RunQueue, for any installs, paths, workers, limits  *)
(* and bounds: Runner's tables, threads, crashes and restarts give           *)
(* workflows the abstract queue.                                             *)
EXTENDS RunnerProofs

\* What RunQueue sees of the run table.
Backlog == [r \in DOMAIN run |-> [path |-> run[r].path, phase |-> Phase(run[r].status)]]

\* Runs whose rows look the same are the same to the queue.
LEMMA SameBacklog ==
    ASSUME DOMAIN run' = DOMAIN run,
           \A r \in DOMAIN run : run'[r].path = run[r].path /\ Phase(run'[r].status) = Phase(run[r].status)
    PROVE  Backlog' = Backlog
BY DEF Backlog

\* One row changes, the others stay.
LEMMA OneInBacklog ==
    ASSUME LogTypes, NEW r \in DOMAIN run, NEW row, SetRun(r, row), row.path = run[r].path
    PROVE  Backlog' = [Backlog EXCEPT ![r].phase = Phase(row.status)]
<1>1. run' = [q \in DOMAIN run |-> IF q = r THEN row ELSE run[q]]
  BY DEF SetRun
<1>2. DOMAIN run' = DOMAIN run
  BY <1>1
<1>3. Backlog' = [q \in DOMAIN run |-> [path |-> run'[q].path, phase |-> Phase(run'[q].status)]]
  BY <1>2 DEF Backlog, Phase
<1>4. \A q \in DOMAIN run : Backlog'[q] = IF q = r THEN [Backlog[r] EXCEPT !.phase = Phase(row.status)]
                                          ELSE Backlog[q]
  BY <1>1, <1>3 DEF Backlog
<1>5. QED BY <1>3, <1>4 DEF Backlog

\* A claim starts a waiting run of a pair that has none running.
LEMMA ClaimStarts ==
    ASSUME LogTypes, NEW r \in Claimable, MarkRunning(r)
    PROVE  Queue!Start(r)
<1>1. r \in DOMAIN run /\ run[r] \in RunRow /\ run[r].status \in Pending
  BY DEF Claimable, LogTypes, Pending
<1>2. [run[r] EXCEPT !.status = "running"].path = run[r].path
      /\ [run[r] EXCEPT !.status = "running"].status = "running"
  BY <1>1 DEF RunRow
<1>3. Backlog' = [Backlog EXCEPT ![r].phase = "running"]
  <2> DEFINE row == [run[r] EXCEPT !.status = "running"]
  <2>1. Phase(row.status) = "running"
    BY <1>2 DEF Phase, Pending
  <2>2. SetRun(r, row)
    BY DEF MarkRunning
  <2>3. QED BY <1>1, <1>2, <2>1, <2>2, OneInBacklog
<1>4. Backlog[r].phase = "waiting"
  BY <1>1 DEF Backlog, Phase
<1>5. \A q \in DOMAIN Backlog :
         q[2] = r[2] /\ Backlog[q].path = Backlog[r].path => Backlog[q].phase # "running"
  BY <1>1 DEF Backlog, Phase, Claimable, Pending
<1>6. cursor' = cursor
  BY DEF MarkRunning, SetRun
<1>7. QED BY <1>3, <1>4, <1>5, <1>6 DEF Queue!Start, Backlog

\* A finalised run ends; a rescheduled one waits again or ends.
LEMMA FinaliseStops ==
    ASSUME LogTypes, NEW r \in Running,
           SetTerminal(r, "success") \/ SetTerminal(r, "failed") \/ Reschedule(r)
    PROVE  Queue!Stop(r, "ended") \/ Queue!Stop(r, "waiting")
<1>1. r \in DOMAIN run /\ run[r] \in RunRow /\ run[r].status = "running"
  BY DEF Running, LogTypes
<1>2. Backlog[r].phase = "running" /\ cursor' = cursor
  BY <1>1 DEF Backlog, Phase, Pending, SetTerminal, Reschedule, FinalizeRetry, SetRun
<1>3. CASE \E status \in {"success", "failed"} : SetTerminal(r, status)
  <2> PICK status \in {"success", "failed"} : SetTerminal(r, status)
    BY <1>3
  <2> DEFINE row == [run[r] EXCEPT !.status = status, !.old = FALSE]
  <2>1. row.path = run[r].path /\ row.status = status
    BY <1>1 DEF RunRow
  <2>2. Phase(row.status) = "ended"
    BY <2>1 DEF Phase, Pending
  <2>3. Backlog' = [Backlog EXCEPT ![r].phase = "ended"]
    BY <1>1, <2>1, <2>2, OneInBacklog DEF SetTerminal
  <2>4. QED BY <1>2, <2>3 DEF Queue!Stop, Backlog
<1>4. CASE \E n : FinalizeRetry(r, n)
  <2> PICK n : FinalizeRetry(r, n)
    BY <1>4
  <2> DEFINE row == [run[r] EXCEPT !.status = "retry", !.attempt = n, !.due = FALSE, !.old = FALSE]
  <2>1. row.path = run[r].path /\ row.status = "retry"
    BY <1>1 DEF RunRow
  <2>2. Phase(row.status) = "waiting"
    BY <2>1 DEF Phase, Pending
  <2>3. Backlog' = [Backlog EXCEPT ![r].phase = "waiting"]
    BY <1>1, <2>1, <2>2, OneInBacklog DEF FinalizeRetry
  <2>4. QED BY <1>2, <2>3 DEF Queue!Stop, Backlog
<1>5. QED BY <1>3, <1>4 DEF Reschedule

\* An intake hands a batch over: all of its rows at once, with the cursor.
LEMMA IntakeHandsOver ==
    ASSUME LogTypes, ProcTypes, RunsConsumed, BatchIsSettled, IntakeWrite, Intake(Batch, upto)
    PROVE  Queue!HandOver
<1>1. DOMAIN Backlog = DOMAIN run /\ DOMAIN Backlog' = DOMAIN run \cup Batch
  BY DEF Backlog, Intake
<1>2. DOMAIN Backlog' \ DOMAIN Backlog = Batch
  BY <1>1, BatchIsNew
<1>3. cursor' = upto /\ cursor < upto /\ cursor' \in Nat
  BY DEF Intake, IntakeWrite, BatchIsSettled, ProcTypes
<1>4. Batch \subseteq (cursor + 1 .. cursor') \X Installs
  BY <1>3 DEF Batch, FanOut, LogTypes
<1>5. ASSUME NEW r \in Batch
      PROVE  /\ PathOf(r) \in Paths
             /\ run'[r].path = PathOf(r) /\ run'[r].status = InsertedStatus(r, Batch)
             /\ Backlog'[r] = [path |-> PathOf(r), phase |-> Phase(InsertedStatus(r, Batch))]
             /\ Backlog'[r].path = PathOf(r)
  <2>1. r[1] \in DOMAIN event /\ event[r[1]] \in EventRow
    BY DEF Batch, FanOut, LogTypes
  <2>2. PathOf(r) \in Paths
    BY <2>1 DEF PathOf, EventRow, EventKind
  <2>3. run'[r] = QueuedRow(PathOf(r), InsertedStatus(r, Batch)) /\ r \in DOMAIN run'
    BY DEF Intake
  <2>4. run'[r].path = PathOf(r) /\ run'[r].status = InsertedStatus(r, Batch)
    BY <2>3 DEF QueuedRow
  <2>5. Backlog'[r] = [path |-> run'[r].path, phase |-> Phase(run'[r].status)]
    BY <2>3 DEF Backlog, Phase
  <2>6. QED BY <2>2, <2>4, <2>5
<1> DEFINE Newer(r, path) == \E q \in Batch : q[2] = r[2] /\ Backlog'[q].path = path /\ q[1] > r[1]
<1>a. \A q \in Batch : Backlog'[q].path = PathOf(q)
  BY <1>5
<1>6. ASSUME NEW r \in Batch
      PROVE  Backlog'[r] = [path |-> PathOf(r),
                            phase |-> IF Newer(r, PathOf(r)) THEN "ended" ELSE "waiting"]
  <2>1. Newer(r, PathOf(r)) <=> \E q \in Batch : q[2] = r[2] /\ PathOf(q) = PathOf(r) /\ q[1] > r[1]
    BY <1>a
  <2>2. InsertedStatus(r, Batch) = IF Newer(r, PathOf(r)) THEN "superseded" ELSE "queued"
    BY <2>1 DEF InsertedStatus
  <2>3. Phase("superseded") = "ended" /\ Phase("queued") = "waiting"
    BY DEF Phase, Pending
  <2>4. QED BY <1>5, <2>2, <2>3
<1>7. ASSUME NEW r \in DOMAIN run
      PROVE  Backlog'[r] = IF Backlog[r].phase = "waiting" /\ Newer(r, Backlog[r].path)
                           THEN [Backlog[r] EXCEPT !.phase = "ended"] ELSE Backlog[r]
  <2>1. run'[r] = Supersede(r, Batch) /\ run[r] \in RunRow
    BY BatchIsNew DEF Intake, LogTypes
  <2>2. Backlog'[r] = [path |-> run'[r].path, phase |-> Phase(run'[r].status)]
    BY DEF Backlog, Intake, Phase
  <2>3. Backlog[r] = [path |-> run[r].path, phase |-> Phase(run[r].status)]
    BY DEF Backlog
  <2>4. Backlog[r].phase = "waiting" <=> run[r].status \in Pending
    BY <2>3 DEF Phase
  <2>5. Newer(r, run[r].path) <=> \E q \in Batch : q[2] = r[2] /\ PathOf(q) = run[r].path
    <3>1. \A q \in Batch : q[1] \in Nat /\ cursor < q[1]
      BY DEF Batch, FanOut, LogTypes
    <3>2. r[1] \in Nat /\ r[1] <= cursor
      BY DEF RunsConsumed, LogTypes, Runs
    <3>3. \A q \in Batch : q[1] > r[1]
      BY <3>1, <3>2 DEF LogTypes
    <3>4. QED BY <1>a, <3>3
  <2>6. CASE run[r].status \in Pending /\ Newer(r, run[r].path)
    <3>1. run'[r] = [run[r] EXCEPT !.status = "superseded", !.old = FALSE]
      BY <2>1, <2>5, <2>6 DEF Supersede
    <3>2. run'[r].path = run[r].path /\ run'[r].status = "superseded"
      BY <2>1, <3>1 DEF RunRow
    <3>3. QED BY <2>2, <2>3, <2>4, <2>6, <3>2 DEF Phase, Pending
  <2>7. CASE ~(run[r].status \in Pending /\ Newer(r, run[r].path))
    <3>1. run'[r] = run[r]
      BY <2>1, <2>5, <2>7 DEF Supersede
    <3>2. QED BY <2>2, <2>3, <2>4, <2>7, <3>1
  <2>8. QED BY <2>6, <2>7
<1>8. cursor' >= cursor /\ DOMAIN Backlog \subseteq DOMAIN Backlog'
  BY <1>1, <1>3 DEF LogTypes, ProcTypes
<1>9. \A r \in DOMAIN Backlog' \ DOMAIN Backlog : \E path \in Paths :
         Backlog'[r] = [path |-> path, phase |-> IF Newer(r, path) THEN "ended" ELSE "waiting"]
  BY <1>2, <1>5, <1>6
<1>10. \A r \in DOMAIN Backlog :
         Backlog'[r] = IF Backlog[r].phase = "waiting" /\ Newer(r, Backlog[r].path)
                       THEN [Backlog[r] EXCEPT !.phase = "ended"] ELSE Backlog[r]
  BY <1>1, <1>7
<1>11. QED
  <2> DEFINE fresh == DOMAIN Backlog' \ DOMAIN Backlog
             Overtaken(r, path) ==
                \E q \in fresh : q[2] = r[2] /\ Backlog'[q].path = path /\ q[1] > r[1]
  <2>1. \A r, path : Newer(r, path) <=> Overtaken(r, path)
    BY <1>2
  <2>2. fresh \subseteq (cursor + 1 .. cursor') \X Installs
    BY <1>2, <1>4
  <2>3. \A r \in fresh : \E path \in Paths :
           Backlog'[r] = [path |-> path, phase |-> IF Overtaken(r, path) THEN "ended" ELSE "waiting"]
    BY <1>9, <2>1
  <2>4. \A r \in DOMAIN Backlog :
           Backlog'[r] = IF Backlog[r].phase = "waiting" /\ Overtaken(r, Backlog[r].path)
                         THEN [Backlog[r] EXCEPT !.phase = "ended"] ELSE Backlog[r]
    BY <1>10, <2>1
  <2>5. QED BY <1>3, <1>8, <2>2, <2>3, <2>4, Zenon DEF Queue!HandOver, Backlog

\* The sweep forgets ended runs only.
LEMMA SweepForgets ==
    ASSUME LogTypes, SweepLog
    PROVE  Queue!Forget
<1>1. run' = [r \in DOMAIN run \ SweptRuns |-> run[r]] /\ cursor' = cursor
  BY DEF SweepLog
<1>2. \A r \in SweptRuns : Phase(run[r].status) = "ended"
  BY DEF SweptRuns, Phase, Pending, Terminal
<1>3. DOMAIN Backlog' = DOMAIN Backlog \ SweptRuns
  BY <1>1 DEF Backlog
<1>4. Backlog' = [r \in DOMAIN Backlog' |-> Backlog[r]]
  BY <1>1, <1>3 DEF Backlog
<1>5. \A r \in DOMAIN Backlog \ DOMAIN Backlog' : Backlog[r].phase = "ended"
  BY <1>2, <1>3 DEF Backlog
<1>6. QED BY <1>1, <1>3, <1>4, <1>5 DEF Queue!Forget, Backlog

\* Every step of the runner is a step of the queue, or none.
LEMMA StepsOfTheQueue ==
    ASSUME IInv, [Next]_vars
    PROVE  [Queue!Next]_(Queue!qvars)
<1>0. LogTypes /\ ProcTypes /\ RunsConsumed /\ BatchIsSettled
  BY DEF IInv
<1>a. ASSUME Backlog' = Backlog, cursor' = cursor
      PROVE  [Queue!Next]_(Queue!qvars)
  BY <1>a DEF Queue!qvars, Backlog
<1>1. CASE UNCHANGED vars
  BY <1>1, <1>a DEF vars, logVars, Backlog
<1>2. CASE LogStep
  <2>1. CASE run' = run /\ cursor' = cursor
    BY <2>1, <1>a DEF Backlog
  <2>2. CASE IntakeWrite /\ Intake(Batch, upto)
    BY <1>0, <2>2, IntakeHandsOver DEF Queue!Next
  <2>3. CASE \E r \in Claimable : MarkRunning(r)
    <3> PICK r \in Claimable : MarkRunning(r)
      BY <2>3
    <3>1. r \in DOMAIN Backlog
      BY DEF Claimable, Backlog
    <3>2. QED BY <1>0, <3>1, ClaimStarts DEF Queue!Next, Backlog
  <2>4. CASE \E r \in Running : SetTerminal(r, "success") \/ SetTerminal(r, "failed") \/ Reschedule(r)
    <3> PICK r \in Running : SetTerminal(r, "success") \/ SetTerminal(r, "failed") \/ Reschedule(r)
      BY <2>4
    <3>1. r \in DOMAIN Backlog
      BY DEF Running, Backlog
    <3>2. QED BY <1>0, <3>1, FinaliseStops DEF Queue!Next, Queue!Phases, Backlog
  <2>5. CASE SweepLog
    BY <1>0, <2>5, SweepForgets DEF Queue!Next
  <2>6. CASE \E r \in DOMAIN run : BackoffElapses(r)
    <3> PICK r \in DOMAIN run : BackoffElapses(r)
      BY <2>6
    <3>1. run[r] \in RunRow
      BY <1>0 DEF LogTypes
    <3>2. [run[r] EXCEPT !.due = TRUE].path = run[r].path
          /\ [run[r] EXCEPT !.due = TRUE].status = run[r].status
      BY <3>1 DEF RunRow
    <3>3. DOMAIN run' = DOMAIN run /\ cursor' = cursor
          /\ \A q \in DOMAIN run : run'[q].path = run[q].path /\ run'[q].status = run[q].status
      BY <3>2 DEF BackoffElapses, SetRun
    <3>4. QED BY <3>3, <1>a, SameBacklog
  <2>7. CASE RetentionElapses
    <3>1. \A r \in DOMAIN run : /\ [run[r] EXCEPT !.old = Finished(run[r])].path = run[r].path
                                /\ [run[r] EXCEPT !.old = Finished(run[r])].status = run[r].status
      BY <1>0 DEF LogTypes, RunRow
    <3>2. DOMAIN run' = DOMAIN run /\ cursor' = cursor
          /\ \A q \in DOMAIN run : run'[q].path = run[q].path /\ run'[q].status = run[q].status
      BY <2>7, <3>1 DEF RetentionElapses
    <3>3. QED BY <3>2, <1>a, SameBacklog
  <2>8. QED
    BY <1>2, <2>1, <2>2, <2>3, <2>4, <2>5, <2>6, <2>7
    DEF LogStep, logVars, Insert, SettleAll
<1>3. QED BY <1>1, <1>2, StepsOfTheLog, TypesTogether DEF IInv

\* The runner implements RunQueue: events are handed over once each and in
\* order, runs of a pair never overlap, a newer event replaces what waits, and
\* what has ended stays so.
THEOREM RunnerImplementsRunQueue == Spec => ImplementsRunQueue
<1>1. Init => Queue!Init
  BY DEF Init, EventLogInit, Queue!Init
<1>2. IInv /\ [Next]_vars => [Queue!Next]_(Queue!qvars)
  BY StepsOfTheQueue
<1>3. QED BY <1>1, <1>2, Inductive, PTL DEF Spec, ImplementsRunQueue, Queue!Spec
==============================================================================
