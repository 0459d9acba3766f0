---------------------------- MODULE RunnerProofs ----------------------------
(* Theorems about Runner, for any installs, paths, workers, limits and       *)
(* bounds.                                                                   *)
EXTENDS Runner, TLAPS

(* Every step does one of nine things to events.db; what is said of the log  *)
(* is proved once per thing, not once per action.                            *)
Batch == FanOut({e \in DOMAIN event : cursor < e /\ e <= upto})

LogStep ==
    \/ UNCHANGED logVars
    \/ \E kind \in Kinds : Insert(kind, pass, FALSE) \/ Insert(kind, 0, TRUE)
    \/ (\E rows \in SUBSET DOMAIN event : SettleAll(rows)) /\ (PassStart \/ PassEnd)
    \/ IntakeWrite /\ Intake(Batch, upto)
    \/ \E r \in Claimable : MarkRunning(r)
    \/ \E r \in Running : SetTerminal(r, "success") \/ SetTerminal(r, "failed") \/ Reschedule(r)
    \/ SweepLog
    \/ \E r \in DOMAIN run : BackoffElapses(r)
    \/ RetentionElapses

(* The inductive invariant, part by part; the rest of it are properties of   *)
(* Runner.                                                                   *)

\* What intake_step is about to consume has been written, lies past the cursor
\* and is settled, as is everything up to the cursor.
BatchIsSettled ==
    /\ upto < nextEvent
    /\ pc = "fanout" => cursor < upto
    /\ \A e \in DOMAIN event : e <= cursor \/ e <= upto => event[e].settled

\* Threads are busy in the pool only, and a process that is gone has none.
ThreadsInPool ==
    /\ pc # "pool" => \A w \in Workers : worker[w].pc = "off"
    /\ proc = "none" => pc = "down"

\* A run is queued when the cursor passes its event, not before.
RunsConsumed == \A r \in DOMAIN run : r[1] <= cursor

\* The rows of the pass that is going on are unsettled.
PassUnsettled ==
    /\ passUp => pass > 0
    /\ \A e \in DOMAIN event :
          /\ event[e].pass <= pass
          /\ passUp /\ event[e].pass = pass => ~event[e].settled

------------------------------------------------------------------------------
\* Next, seen from the log.
LEMMA StepsOfTheLog ==
    ASSUME TypeOK, ClaimOwnership, Next
    PROVE  LogStep
<1>1. CASE PassStart \/ PassEnd
  BY <1>1 DEF PassStart, PassEnd, SettleOrphans, SettlePass, LogStep
<1>2. CASE \E kind \in Kinds : PassEmit(kind) \/ AppendSettled(kind)
  BY <1>2 DEF PassEmit, AppendSettled, LogStep
<1>3. CASE PassCrash \/ StartServe \/ StartWait \/ Stop \/ RunnerCrash
  BY <1>3 DEF PassCrash, StartServe, StartWait, Stop, RunnerCrash, LogStep
<1>4. CASE \E i \in Installs, state \in UserStates : Configure(i, state)
  BY <1>4 DEF Configure, LogStep
<1>5. CASE RunnerStep
  <2>1. CASE Recover
    BY <2>1 DEF Recover, Oldest, Running, LogStep
  <2>2. CASE IntakeWrite
    BY <2>2 DEF IntakeWrite, Batch, LogStep
  <2>3. CASE Sweep
    BY <2>3 DEF Sweep, LogStep
  <2>4. CASE IntakeRead \/ RunPending \/ PoolDrained \/ Wake
    BY <2>4 DEF IntakeRead, RunPending, PoolDrained, Wake, LogStep
  <2>5. QED BY <1>5, <2>1, <2>2, <2>3, <2>4 DEF RunnerStep
<1>6. CASE \E w \in Workers : WorkerStep(w) \/ Raise(w)
  <2> PICK w \in Workers : WorkerStep(w) \/ Raise(w)
    BY <1>6
  <2>1. CASE Claim(w)
    BY <2>1 DEF Claim, Oldest, LogStep
  <2>2. CASE FailGone(w)
    BY <2>2 DEF FailGone, ClaimOwnership, LogStep
  <2>3. CASE Execute(w)
    BY <2>3 DEF Execute, ClaimOwnership, LogStep
  <2>4. CASE Raise(w)
    BY <2>4 DEF Raise, LogStep
  <2>5. QED BY <2>1, <2>2, <2>3, <2>4 DEF WorkerStep
<1>7. CASE \E r \in orphans : OrphanExits(r)
  BY <1>7 DEF OrphanExits, LogStep
<1>8. CASE Tick
  BY <1>8 DEF Tick, LogStep
<1>9. QED BY <1>1, <1>2, <1>3, <1>4, <1>5, <1>6, <1>7, <1>8 DEF Next

------------------------------------------------------------------------------
(* Types *)

LogTypes ==
    /\ event \in [DOMAIN event -> EventRow] /\ DOMAIN event \subseteq 1..(nextEvent - 1)
    /\ run \in [DOMAIN run -> RunRow] /\ DOMAIN run \subseteq Runs
    /\ cursor \in Nat /\ nextEvent \in Nat \ {0}
    /\ cursor < nextEvent

\* A run row replaced by another one (_set_terminal, finalize_retry, claim_next).
LEMMA SetRunTypes ==
    ASSUME LogTypes, NEW r \in DOMAIN run, NEW row \in RunRow, SetRun(r, row)
    PROVE  LogTypes' /\ nextEvent <= nextEvent'
<1>1. run' = [q \in DOMAIN run |-> IF q = r THEN row ELSE run[q]]
  BY DEF SetRun
<1>2. run' \in [DOMAIN run' -> RunRow] /\ DOMAIN run' = DOMAIN run
  BY <1>1 DEF LogTypes
<1>3. QED BY <1>2 DEF SetRun, LogTypes

\* No step of the log takes a row out of its type, or an id back.
LEMMA LogTypesKept ==
    ASSUME LogTypes, upto \in Nat, BatchIsSettled, pass \in Nat, LogStep
    PROVE  LogTypes' /\ nextEvent <= nextEvent'
<1> USE DEF LogTypes
<1>1. CASE UNCHANGED logVars
  BY <1>1 DEF logVars
<1>2. CASE \E kind \in Kinds : Insert(kind, pass, FALSE) \/ Insert(kind, 0, TRUE)
  <2> PICK kind \in Kinds, p \in Nat, settled \in BOOLEAN : Insert(kind, p, settled)
    BY <1>2
  <2> DEFINE row == [kind |-> kind, pass |-> p, settled |-> settled, old |-> FALSE]
  <2>1. row \in EventRow
    BY RunnerAssumption DEF EventRow
  <2>2. event' = [e \in DOMAIN event \cup {nextEvent} |-> IF e = nextEvent THEN row ELSE event[e]]
    BY DEF Insert
  <2>3. event' \in [DOMAIN event' -> EventRow] /\ DOMAIN event' = DOMAIN event \cup {nextEvent}
    BY <2>1, <2>2
  <2>4. DOMAIN event' \subseteq 1..(nextEvent' - 1)
    <3>1. nextEvent' = nextEvent + 1 BY DEF Insert
    <3>2. \A e \in DOMAIN event : e \in 1..nextEvent OBVIOUS
    <3>3. QED BY <2>3, <3>1, <3>2
  <2>5. nextEvent' = nextEvent + 1 /\ run' = run /\ cursor' = cursor
    BY DEF Insert
  <2>6. QED BY <2>3, <2>4, <2>5
<1>3. CASE (\E rows \in SUBSET DOMAIN event : SettleAll(rows)) /\ (PassStart \/ PassEnd)
  <2> PICK rows \in SUBSET DOMAIN event : SettleAll(rows)
    BY <1>3
  <2>1. \A e \in DOMAIN event : [event[e] EXCEPT !.settled = TRUE] \in EventRow
    BY DEF EventRow
  <2>2. event' \in [DOMAIN event' -> EventRow] /\ DOMAIN event' = DOMAIN event
    BY <2>1 DEF SettleAll
  <2>3. QED BY <2>2 DEF SettleAll
<1>4. CASE IntakeWrite /\ Intake(Batch, upto)
  <2>1. Batch \subseteq Runs /\ \A r \in Batch : PathOf(r) \in Paths
    BY DEF Batch, FanOut, Runs, PathOf, EventRow, EventKind
  <2>2. \A r \in Batch : QueuedRow(PathOf(r), InsertedStatus(r, Batch)) \in RunRow
    BY <2>1 DEF QueuedRow, InsertedStatus, RunRow, RunStatus, Pending, Terminal
  <2>3. \A r \in DOMAIN run : Supersede(r, Batch) \in RunRow
    BY DEF Supersede, RunRow, RunStatus, Terminal
  <2>4. run' = [r \in DOMAIN run \cup Batch |->
                  IF r \in Batch
                  THEN QueuedRow(PathOf(r), InsertedStatus(r, Batch))
                  ELSE Supersede(r, Batch)]
    BY <1>4 DEF Intake
  <2>5. run' \in [DOMAIN run' -> RunRow] /\ DOMAIN run' = DOMAIN run \cup Batch
    BY <2>2, <2>3, <2>4
  <2>6. QED BY <1>4, <2>1, <2>5 DEF Intake, BatchIsSettled
<1>5. CASE \E r \in Claimable : MarkRunning(r)
  <2> PICK r \in Claimable : MarkRunning(r)
    BY <1>5
  <2>1. r \in DOMAIN run /\ [run[r] EXCEPT !.status = "running"] \in RunRow
    BY DEF Claimable, RunRow, RunStatus
  <2>2. QED BY <2>1, SetRunTypes DEF MarkRunning
<1>6. CASE \E r \in Running : SetTerminal(r, "success") \/ SetTerminal(r, "failed") \/ Reschedule(r)
  <2> PICK r \in Running : SetTerminal(r, "success") \/ SetTerminal(r, "failed") \/ Reschedule(r)
    BY <1>6
  <2>1. r \in DOMAIN run /\ run[r] \in RunRow
    BY DEF Running
  <2>2. \A status \in Terminal : [run[r] EXCEPT !.status = status, !.old = FALSE] \in RunRow
    BY <2>1 DEF RunRow, RunStatus
  <2>3. \A n \in Nat \ {0} : [run[r] EXCEPT !.status = "retry", !.attempt = n,
                                          !.due = FALSE, !.old = FALSE] \in RunRow
    BY <2>1 DEF RunRow, RunStatus, Pending
  <2>4. run[r].attempt + 1 \in Nat \ {0}
    BY <2>1 DEF RunRow
  <2>5. \E row \in RunRow : SetRun(r, row)
    BY <2>2, <2>3, <2>4 DEF SetTerminal, Reschedule, FinalizeRetry, Terminal
  <2>6. QED BY <2>1, <2>5, SetRunTypes
<1>7. CASE SweepLog
  BY <1>7 DEF SweepLog, SweptRuns, SweptEvents
<1>8. CASE \E r \in DOMAIN run : BackoffElapses(r)
  <2> PICK r \in DOMAIN run : BackoffElapses(r)
    BY <1>8
  <2>1. [run[r] EXCEPT !.due = TRUE] \in RunRow
    BY DEF RunRow
  <2>2. QED BY <2>1, SetRunTypes DEF BackoffElapses
<1>9. CASE RetentionElapses
  <2>1. \A r \in DOMAIN run : Finished(run[r]) \in BOOLEAN
    BY DEF Finished, RunRow
  <2>2. \A r \in DOMAIN run : [run[r] EXCEPT !.old = Finished(run[r])] \in RunRow
    BY <2>1 DEF RunRow
  <2>3. \A e \in DOMAIN event : [event[e] EXCEPT !.old = TRUE] \in EventRow
    BY DEF EventRow
  <2>4. run' \in [DOMAIN run' -> RunRow] /\ DOMAIN run' = DOMAIN run
    BY <1>9, <2>2 DEF RetentionElapses
  <2>5. event' \in [DOMAIN event' -> EventRow] /\ DOMAIN event' = DOMAIN event
    BY <1>9, <2>3 DEF RetentionElapses
  <2>6. QED BY <1>9, <2>4, <2>5 DEF RetentionElapses
<1>10. QED BY <1>1, <1>2, <1>3, <1>4, <1>5, <1>6, <1>7, <1>8, <1>9 DEF LogStep

ProcTypes ==
    /\ passUp \in BOOLEAN /\ pass \in Nat
    /\ installed \in [Installs -> InstallState] /\ snap \in [Installs -> InstallState]
    /\ proc \in {"none", "serve", "wait"}
    /\ pc \in {"down", "recover", "intake", "fanout", "pending", "pool", "sweep", "idle"}
    /\ upto \in Nat
    /\ worker \in [Workers -> [pc : {"off", "claim", "exec", "raised"},
                               run : Nat \X (Installs \cup {NoInstall})]]
    /\ orphans \subseteq Runs /\ crashes \in Nat

\* The variables of the processes keep their types.
LEMMA ProcTypesKept ==
    ASSUME LogTypes, ProcTypes, ClaimOwnership, Next
    PROVE  ProcTypes'
<1> USE DEF ProcTypes
<1>a. Idle \in [pc : {"off"}, run : Nat \X (Installs \cup {NoInstall})]
      /\ NoSnap \in [Installs -> InstallState]
  BY DEF Idle, NoSnap, InstallState
<1>b. Runs \subseteq Nat \X (Installs \cup {NoInstall})
  BY DEF Runs
<1>c. ASSUME NEW w \in Workers, NextClaim(w)
      PROVE  worker' \in [Workers -> [pc : {"off", "claim", "exec", "raised"},
                                      run : Nat \X (Installs \cup {NoInstall})]]
  <2>1. [Idle EXCEPT !.pc = "claim"] \in [pc : {"claim"}, run : Nat \X (Installs \cup {NoInstall})]
    BY <1>a
  <2>2. QED BY <1>c, <2>1 DEF NextClaim
<1>1. CASE PassStart \/ PassEnd \/ PassCrash
  <2>1. CASE PassStart
    BY <2>1 DEF PassStart, procVars, envVars
  <2>2. CASE PassEnd
    BY <2>2 DEF PassEnd, procVars, envVars
  <2>3. CASE PassCrash
    <3>1. passUp' = FALSE /\ crashes' = crashes + 1
      BY <2>3 DEF PassCrash
    <3>2. UNCHANGED <<pass, installed, snap, proc, pc, upto, worker, orphans>>
      BY <2>3 DEF PassCrash, procVars
    <3>3. passUp' \in BOOLEAN
      BY <3>1
    <3>4. crashes' \in Nat
      BY <3>1
    <3>5. QED BY <3>2, <3>3, <3>4
  <2>4. QED BY <1>1, <2>1, <2>2, <2>3
<1>2. CASE \E kind \in Kinds : PassEmit(kind) \/ AppendSettled(kind)
  BY <1>2 DEF PassEmit, AppendSettled, procVars, prodVars, envVars
<1>3. CASE \E i \in Installs, state \in UserStates : Configure(i, state)
  BY <1>3, RunnerAssumption DEF Configure, procVars, prodVars, InstallState
<1>4. CASE StartServe \/ StartWait
  BY <1>4 DEF StartServe, StartWait, prodVars, envVars
<1>6. CASE Stop
  BY <1>6, <1>a DEF Stop, Exit, prodVars, envVars
<1>7. CASE RunnerCrash
  <2>1. \A w \in Workers : worker[w].pc = "exec" => worker[w].run \in Runs
    BY DEF ClaimOwnership, Running, LogTypes
  <2>2. orphans' \subseteq Runs /\ crashes' \in Nat
    BY <1>7, <2>1 DEF RunnerCrash
  <2>3. QED BY <1>7, <1>a, <2>2 DEF RunnerCrash, Exit, prodVars
<1>8. CASE RunnerStep
  <2>1. CASE Recover
    BY <2>1, <1>a DEF Recover, prodVars, envVars
  <2>2. CASE IntakeRead
    BY <2>2 DEF IntakeRead, UnconsumedSettled, LogTypes, prodVars, envVars
  <2>3. CASE IntakeWrite
    BY <2>3 DEF IntakeWrite, prodVars, envVars
  <2>4. CASE RunPending
    <3>1. [Idle EXCEPT !.pc = "claim"] \in [pc : {"claim"}, run : Nat \X (Installs \cup {NoInstall})]
      BY <1>a
    <3>2. QED BY <2>4, <3>1 DEF RunPending, prodVars, envVars
  <2>5. CASE PoolDrained
    BY <2>5, <1>a DEF PoolDrained, Exit, prodVars, envVars
  <2>6. CASE Sweep \/ Wake
    BY <2>6 DEF Sweep, Wake, prodVars, envVars
  <2>7. QED BY <1>8, <2>1, <2>2, <2>3, <2>4, <2>5, <2>6 DEF RunnerStep
<1>9. CASE \E w \in Workers : WorkerStep(w) \/ Raise(w)
  <2> PICK w \in Workers : WorkerStep(w) \/ Raise(w)
    BY <1>9
  <2>1. CASE Claim(w)
    <3>1. \A r \in Claimable : [pc |-> "exec", run |-> r]
             \in [pc : {"exec"}, run : Nat \X (Installs \cup {NoInstall})]
      BY <1>b DEF Claimable, LogTypes
    <3>2. QED BY <2>1, <3>1, <1>a DEF Claim, Oldest, prodVars, envVars
  <2>2. CASE FailGone(w)
    BY <2>2, <1>c DEF FailGone, prodVars, envVars
  <2>3. CASE Execute(w)
    BY <2>3, <1>c DEF Execute, prodVars, envVars
  <2>4. CASE Raise(w)
    BY <2>4 DEF Raise, prodVars
  <2>5. QED BY <2>1, <2>2, <2>3, <2>4 DEF WorkerStep
<1>10. CASE \E r \in orphans : OrphanExits(r)
  BY <1>10 DEF OrphanExits, procVars, prodVars
<1>11. CASE Tick
  BY <1>11 DEF Tick, procVars, prodVars, envVars
<1>12. QED BY <1>1, <1>2, <1>3, <1>4, <1>6, <1>7, <1>8, <1>9, <1>10, <1>11 DEF Next

------------------------------------------------------------------------------
(* Threads and the rows they own *)

\* How replacing a row changes what is running.
LEMMA RunningAfterSetRun ==
    ASSUME NEW r \in DOMAIN run, NEW row, SetRun(r, row)
    PROVE  /\ row.status = "running" => Running' = Running \cup {r}
           /\ row.status # "running" => Running' = Running \ {r}
<1>1. run' = [q \in DOMAIN run |-> IF q = r THEN row ELSE run[q]]
  BY DEF SetRun
<1>2. QED BY <1>1 DEF Running

\* A finalised or rescheduled row is not running any more.
LEMMA RunningAfterEnd ==
    ASSUME LogTypes, NEW r \in DOMAIN run,
           SetTerminal(r, "success") \/ SetTerminal(r, "failed") \/ Reschedule(r)
    PROVE  Running' = Running \ {r}
<1>1. run[r] \in RunRow
  BY DEF LogTypes
<1>2. CASE \E status \in {"success", "failed"} : SetTerminal(r, status)
  <2> PICK status \in {"success", "failed"} : SetTerminal(r, status)
    BY <1>2
  <2>1. [run[r] EXCEPT !.status = status, !.old = FALSE].status # "running"
    BY <1>1 DEF RunRow
  <2>2. QED BY <2>1, RunningAfterSetRun DEF SetTerminal
<1>3. CASE \E n : FinalizeRetry(r, n)
  <2> PICK n : FinalizeRetry(r, n)
    BY <1>3
  <2>1. [run[r] EXCEPT !.status = "retry", !.attempt = n, !.due = FALSE, !.old = FALSE].status # "running"
    BY <1>1 DEF RunRow
  <2>2. QED BY <2>1, RunningAfterSetRun DEF FinalizeRetry
<1>4. QED BY <1>2, <1>3 DEF Reschedule

\* Intake, sweep and clock start nothing, and a backoff ends nothing either.
LEMMA RunningUntouched ==
    ASSUME LogTypes
    PROVE  /\ Intake(Batch, upto) \/ SweepLog \/ RetentionElapses => Running' \subseteq Running
           /\ (\E r \in DOMAIN run : BackoffElapses(r)) => Running' = Running
<1>1. ASSUME Intake(Batch, upto) PROVE Running' \subseteq Running
  <2>1. \A r \in Batch : QueuedRow(PathOf(r), InsertedStatus(r, Batch)).status # "running"
    BY DEF QueuedRow, InsertedStatus
  <2>2. \A r \in DOMAIN run : Supersede(r, Batch).status = "running" => run[r].status = "running"
    BY DEF Supersede, LogTypes, RunRow
  <2>3. QED BY <1>1, <2>1, <2>2 DEF Intake, Running
<1>2. ASSUME SweepLog PROVE Running' \subseteq Running
  <2>1. DOMAIN run' \subseteq DOMAIN run /\ \A r \in DOMAIN run' : run'[r] = run[r]
    BY <1>2 DEF SweepLog
  <2>2. QED BY <2>1 DEF Running
<1>3. ASSUME RetentionElapses PROVE Running' \subseteq Running
  <2>1. \A r \in DOMAIN run : [run[r] EXCEPT !.old = Finished(run[r])].status = run[r].status
    BY DEF LogTypes, RunRow
  <2>2. QED BY <1>3, <2>1 DEF RetentionElapses, Running
<1>4. ASSUME \E r \in DOMAIN run : BackoffElapses(r) PROVE Running' = Running
  <2> PICK r \in DOMAIN run : BackoffElapses(r)
    BY <1>4
  <2>1. run[r] \in RunRow
    BY DEF LogTypes
  <2>2. SetRun(r, [run[r] EXCEPT !.due = TRUE]) /\ [run[r] EXCEPT !.due = TRUE].status # "running"
    BY <2>1 DEF BackoffElapses, RunRow
  <2>3. Running' = Running \ {r} /\ r \notin Running
    BY <2>2, RunningAfterSetRun DEF BackoffElapses, Running
  <2>4. QED BY <2>3
<1>5. QED BY <1>1, <1>2, <1>3, <1>4

\* Threads are started in the pool and gone when it has drained or the process ends.
LEMMA ThreadsInPoolKept ==
    ASSUME ProcTypes, ThreadsInPool, Next
    PROVE  ThreadsInPool'
<1> USE DEF ThreadsInPool
<1>1. CASE UNCHANGED procVars
  BY <1>1 DEF procVars
<1>2. CASE Exit
  BY <1>2 DEF Exit, Idle
<1>3. CASE StartServe \/ StartWait
  BY <1>3 DEF StartServe, StartWait
<1>4. CASE RunnerStep
  <2>1. CASE Recover
    BY <2>1 DEF Recover
  <2>2. CASE IntakeRead
    BY <2>2 DEF IntakeRead
  <2>3. CASE IntakeWrite
    BY <2>3 DEF IntakeWrite
  <2>4. CASE RunPending
    BY <2>4 DEF RunPending
  <2>5. CASE PoolDrained
    BY <2>5, <1>2 DEF PoolDrained
  <2>6. CASE Sweep \/ Wake
    BY <2>6 DEF Sweep, Wake
  <2>7. QED BY <1>4, <2>1, <2>2, <2>3, <2>4, <2>5, <2>6 DEF RunnerStep
<1>5. CASE \E w \in Workers : WorkerStep(w) \/ Raise(w)
  <2>1. PICK w \in Workers : worker[w].pc # "off" /\ UNCHANGED <<proc, pc>>
    BY <1>5 DEF WorkerStep, Claim, FailGone, Execute, Raise
  <2>2. QED BY <2>1
<1>6. QED
  BY <1>1, <1>2, <1>3, <1>4, <1>5
  DEF Next, PassStart, PassEnd, PassCrash, PassEmit, AppendSettled, Configure, Stop, RunnerCrash,
      OrphanExits, Tick

\* What a thread has claimed stays its own: ClaimOwnership is inductive.
LEMMA ClaimOwnershipKept ==
    ASSUME LogTypes, ProcTypes, ThreadsInPool, ClaimOwnership, Next
    PROVE  ClaimOwnership'
<1> DEFINE Busy(w) == worker[w].pc \in {"exec", "raised"}
<1>a. ASSUME Running' = Running, UNCHANGED <<proc, pc, worker>>
      PROVE  ClaimOwnership'
  BY <1>a DEF ClaimOwnership
<1>b. ASSUME \A w \in Workers : worker'[w].pc \in {"off", "claim"},
             proc' = "serve" /\ pc' # "recover" => Running' = {}
      PROVE  ClaimOwnership'
  BY <1>b DEF ClaimOwnership
\* With idle threads, nothing runs once serve has recovered.
<1>c. ASSUME \A w \in Workers : ~Busy(w), proc = "serve", pc # "recover"
      PROVE  Running = {}
  BY <1>c DEF ClaimOwnership
<1>1. CASE PassStart \/ PassEnd \/ PassCrash
  <2>1. run' = run /\ UNCHANGED <<proc, pc, worker>>
    BY <1>1 DEF PassStart, PassEnd, PassCrash, SettleOrphans, SettlePass, SettleAll, logVars, procVars
  <2>2. QED BY <2>1, <1>a DEF Running
<1>2. CASE \E kind \in Kinds : PassEmit(kind) \/ AppendSettled(kind)
  <2>1. run' = run /\ UNCHANGED <<proc, pc, worker>>
    BY <1>2 DEF PassEmit, AppendSettled, Insert, procVars
  <2>2. QED BY <2>1, <1>a DEF Running
<1>3. CASE (\E i \in Installs, state \in UserStates : Configure(i, state))
           \/ (\E r \in orphans : OrphanExits(r))
  <2>1. run' = run /\ UNCHANGED <<proc, pc, worker>>
    BY <1>3 DEF Configure, OrphanExits, logVars, procVars
  <2>2. QED BY <2>1, <1>a DEF Running
<1>4. CASE Tick
  <2>1. UNCHANGED <<proc, pc, worker>>
    BY <1>4 DEF Tick, procVars
  <2>2. CASE RetentionElapses /\ pc \in {"down", "idle"}
    BY <2>1, <2>2, <1>b, <1>c, RunningUntouched DEF ThreadsInPool
  <2>3. CASE \E r \in DOMAIN run : BackoffElapses(r)
    BY <2>1, <2>3, <1>a, RunningUntouched
  <2>4. QED BY <1>4, <2>2, <2>3 DEF Tick
<1>5. CASE StartServe \/ StartWait
  BY <1>5, <1>b DEF StartServe, StartWait, ThreadsInPool
<1>6. CASE Stop \/ RunnerCrash
  BY <1>6, <1>b DEF Stop, RunnerCrash, Exit, Idle
<1>7. CASE RunnerStep
  <2>1. CASE Recover
    <3>1. \A w \in Workers : worker'[w].pc = "off"
      BY <2>1 DEF Recover, ThreadsInPool
    <3>2. pc' # "recover" => Running' = {}
      BY <2>1 DEF Recover, Running, logVars
    <3>3. QED BY <3>1, <3>2, <1>b
  <2>2. CASE IntakeRead \/ Wake
    BY <2>2, <1>b, <1>c DEF IntakeRead, Wake, logVars, Running, ThreadsInPool
  <2>3. CASE IntakeWrite
    BY <2>3, <1>b, <1>c, RunningUntouched DEF IntakeWrite, Batch, ThreadsInPool
  <2>4. CASE RunPending
    BY <2>4, <1>b, <1>c DEF RunPending, logVars, Running, ThreadsInPool, Idle
  <2>5. CASE PoolDrained
    <3>1. Running' = Running
      BY <2>5 DEF PoolDrained, logVars, Running
    <3>2. CASE Exit
      BY <3>2, <1>b DEF Exit, Idle
    <3>3. CASE ~Exit
      BY <2>5, <3>1, <3>3, <1>b, <1>c DEF PoolDrained
    <3>4. QED BY <3>2, <3>3
  <2>6. CASE Sweep
    BY <2>6, <1>b, <1>c, RunningUntouched DEF Sweep, ThreadsInPool, logVars, Running
  <2>7. QED BY <1>7, <2>1, <2>2, <2>3, <2>4, <2>5, <2>6 DEF RunnerStep
<1>8. CASE \E w \in Workers : WorkerStep(w) \/ Raise(w)
  <2> PICK w \in Workers : WorkerStep(w) \/ Raise(w)
    BY <1>8
  <2>1. CASE Claim(w)
    <3>1. CASE Claimable = {}
      <4>1. Running' = Running /\ UNCHANGED <<proc, pc>> /\ worker[w].pc = "claim"
        BY <2>1, <3>1 DEF Claim, Oldest, logVars, Running
      <4>2. worker'[w].pc = "off" /\ \A v \in Workers \ {w} : worker'[v] = worker[v]
        BY <2>1, <3>1 DEF Claim, Oldest, Idle, ProcTypes
      <4>3. QED BY <4>1, <4>2 DEF ClaimOwnership
    <3>2. CASE Claimable # {}
      <4>1. PICK r \in Claimable :
               /\ MarkRunning(r)
               /\ worker' = [worker EXCEPT ![w] = [pc |-> "exec", run |-> r]]
               /\ UNCHANGED <<proc, pc>>
        BY <2>1, <3>2 DEF Claim, Oldest
      <4>2. r \in DOMAIN run /\ r \notin Running
        BY DEF Claimable, Running
      <4>3. Running' = Running \cup {r}
        <5>1. run[r] \in RunRow
          BY <4>2 DEF LogTypes
        <5>2. [run[r] EXCEPT !.status = "running"].status = "running"
          BY <5>1 DEF RunRow
        <5>3. QED BY <4>1, <4>2, <5>2, RunningAfterSetRun DEF MarkRunning
      <4>4. worker'[w] = [pc |-> "exec", run |-> r] /\ \A v \in Workers \ {w} : worker'[v] = worker[v]
        BY <4>1 DEF ProcTypes
      <4>5. worker[w].pc = "claim"
        BY <2>1 DEF Claim
      <4>6. QED BY <4>1, <4>2, <4>3, <4>4, <4>5 DEF ClaimOwnership
    <3>3. QED BY <3>1, <3>2
  <2>2. CASE FailGone(w) \/ Execute(w)
    <3> DEFINE r == worker[w].run
    <3>1. r \in Running /\ worker[w].pc = "exec"
      BY <2>2 DEF FailGone, Execute, ClaimOwnership
    <3>2. Running' = Running \ {r}
      BY <2>2, <3>1, RunningAfterEnd DEF FailGone, Execute, Running
    <3>3. worker'[w].pc = "claim" /\ \A v \in Workers \ {w} : worker'[v] = worker[v]
      BY <2>2 DEF FailGone, Execute, NextClaim, Idle, ProcTypes
    <3>4. UNCHANGED <<proc, pc>>
      BY <2>2 DEF FailGone, Execute
    <3>5. QED BY <3>1, <3>2, <3>3, <3>4 DEF ClaimOwnership
  <2>3. CASE Raise(w)
    <3>1. Running' = Running /\ UNCHANGED <<proc, pc>>
      BY <2>3 DEF Raise, logVars, Running
    <3>2. worker'[w].pc = "raised" /\ worker'[w].run = worker[w].run /\ worker[w].pc = "exec"
          /\ \A v \in Workers \ {w} : worker'[v] = worker[v]
      BY <2>3 DEF Raise, ProcTypes
    <3>3. QED BY <3>1, <3>2 DEF ClaimOwnership
  <2>4. QED BY <2>1, <2>2, <2>3 DEF WorkerStep
<1>9. QED BY <1>1, <1>2, <1>3, <1>4, <1>5, <1>6, <1>7, <1>8 DEF Next

------------------------------------------------------------------------------
(* The cursor, the batch and the pass *)

\* Settled rows stay settled, and new ones get the next id.
LEMMA SettledStays ==
    ASSUME LogTypes, LogStep
    PROVE  /\ \A e \in DOMAIN event \cap DOMAIN event' : event[e].settled => event'[e].settled
           /\ \A e \in DOMAIN event' \ DOMAIN event : e = nextEvent
<1>1. CASE UNCHANGED event
  BY <1>1
<1>2. CASE \E kind, p, settled : Insert(kind, p, settled)
  <2>1. nextEvent \notin DOMAIN event
    BY DEF LogTypes
  <2>2. QED BY <1>2, <2>1 DEF Insert
<1>3. CASE \E rows : SettleAll(rows)
  <2>1. \A e \in DOMAIN event : [event[e] EXCEPT !.settled = TRUE].settled
    BY DEF LogTypes, EventRow
  <2>2. QED BY <1>3, <2>1 DEF SettleAll
<1>4. CASE SweepLog
  BY <1>4 DEF SweepLog
<1>5. CASE RetentionElapses
  <2>1. \A e \in DOMAIN event : [event[e] EXCEPT !.old = TRUE].settled = event[e].settled
    BY DEF LogTypes, EventRow
  <2>2. QED BY <1>5, <2>1 DEF RetentionElapses
<1>6. QED
  BY <1>1, <1>2, <1>3, <1>4, <1>5
  DEF LogStep, logVars, Intake, MarkRunning, SetTerminal, Reschedule, FinalizeRetry, BackoffElapses, SetRun

\* Only the intake moves the cursor.
LEMMA CursorMoves ==
    ASSUME LogStep
    PROVE  cursor' = cursor \/ (IntakeWrite /\ cursor' = upto)
BY DEF LogStep, logVars, Insert, SettleAll, Intake, MarkRunning, SetTerminal, Reschedule, FinalizeRetry,
       BackoffElapses, SetRun, SweepLog, RetentionElapses

\* upto is set by intake_step's read only.
LEMMA UptoMoves ==
    ASSUME ProcTypes, Next
    PROVE  \/ IntakeRead
           \/ upto' = 0 /\ pc' # "fanout"
           \/ upto' = upto /\ (pc' = "fanout" => pc = "fanout")
<1>1. CASE RunnerStep
  <2>1. CASE Recover
    BY <2>1 DEF Recover
  <2>2. CASE IntakeWrite
    BY <2>2 DEF IntakeWrite
  <2>3. CASE RunPending
    BY <2>3 DEF RunPending
  <2>4. CASE PoolDrained
    BY <2>4 DEF PoolDrained, Exit
  <2>5. CASE Sweep
    BY <2>5 DEF Sweep
  <2>6. CASE Wake
    BY <2>6 DEF Wake
  <2>7. QED BY <1>1, <2>1, <2>2, <2>3, <2>4, <2>5, <2>6 DEF RunnerStep
<1>2. CASE \E w \in Workers : WorkerStep(w) \/ Raise(w)
  <2>1. UNCHANGED <<pc, upto>>
    BY <1>2 DEF WorkerStep, Claim, FailGone, Execute, Raise
  <2>2. QED BY <2>1
<1>3. QED
  BY <1>1, <1>2
  DEF Next, PassStart, PassEnd, PassCrash, PassEmit, AppendSettled, Configure, Stop, RunnerCrash,
      OrphanExits, Tick, StartServe, StartWait, Exit, procVars

\* What is consumed is settled, and stays so while it waits in upto.
LEMMA BatchIsSettledKept ==
    ASSUME LogTypes, ProcTypes, BatchIsSettled, LogStep, Next
    PROVE  BatchIsSettled'
<1>a. nextEvent <= nextEvent' /\ LogTypes'
  BY LogTypesKept DEF ProcTypes
<1>1. CASE IntakeRead
  <2>1. UNCHANGED <<event, cursor, nextEvent>>
    BY <1>1 DEF IntakeRead, logVars
  <2>2. CASE UnconsumedSettled = {}
    BY <1>1, <2>1, <2>2 DEF IntakeRead, BatchIsSettled
  <2>3. CASE UnconsumedSettled # {}
    <3>1. PICK u \in UnconsumedSettled : upto' = u
      BY <1>1, <2>3 DEF IntakeRead
    <3>2. u \in DOMAIN event /\ cursor < u /\ u \in Nat /\ u < nextEvent
      BY DEF UnconsumedSettled, LogTypes
    <3>3. \A e \in DOMAIN event : e \in Nat
      BY DEF LogTypes
    <3>4. \A e \in DOMAIN event : e <= cursor \/ e <= u => event[e].settled
      <4>1. \A e \in DOMAIN event : cursor < e /\ e <= u => event[e].settled
        BY DEF UnconsumedSettled
      <4>2. QED BY <3>3, <4>1 DEF BatchIsSettled, LogTypes
    <3>5. QED BY <2>1, <3>1, <3>2, <3>4 DEF BatchIsSettled
  <2>4. QED BY <2>2, <2>3
<1>2. CASE ~IntakeRead
  <2>1. (upto' = 0 /\ pc' # "fanout") \/ (upto' = upto /\ (pc' = "fanout" => pc = "fanout"))
    BY <1>2, UptoMoves
  <2>2. cursor' <= cursor \/ cursor' <= upto
    BY CursorMoves DEF LogTypes, ProcTypes
  <2>3. upto' < nextEvent' /\ upto' <= upto /\ upto' \in Nat
    BY <1>a, <2>1 DEF BatchIsSettled, ProcTypes, LogTypes
  <2>4. pc' = "fanout" => cursor' < upto'
    <3>1. IntakeWrite => pc' # "fanout"
      BY DEF IntakeWrite
    <3>2. QED BY <2>1, <3>1, CursorMoves DEF BatchIsSettled
  <2>5. ASSUME NEW e \in DOMAIN event', e <= cursor' \/ e <= upto'
        PROVE  event'[e].settled
    <3>1. e \in Nat /\ cursor' \in Nat
      BY <1>a DEF LogTypes
    <3>2. e <= cursor \/ e <= upto
      BY <2>2, <2>3, <2>5, <3>1 DEF LogTypes, ProcTypes
    <3>3. e < nextEvent
      BY <3>1, <3>2 DEF BatchIsSettled, LogTypes, ProcTypes
    <3>4. e \in DOMAIN event
      BY <3>1, <3>3, SettledStays DEF LogTypes
    <3>5. event[e].settled
      BY <3>2, <3>4 DEF BatchIsSettled
    <3>6. QED BY <3>4, <3>5, SettledStays
  <2>6. QED BY <2>3, <2>4, <2>5 DEF BatchIsSettled
<1>3. QED BY <1>1, <1>2

\* While a pass runs its rows stay unsettled: only a PassStart, a PassEnd or a
\* PassCrash changes which pass that is.
LEMMA PassUnsettledKept ==
    ASSUME LogTypes, ProcTypes, PassUnsettled, LogStep, Next
    PROVE  PassUnsettled'
<1>a. \A e \in DOMAIN event : event[e].pass \in Nat
  BY DEF LogTypes, EventRow
<1>b. ASSUME NEW rows, SettleAll(rows)
      PROVE  DOMAIN event' = DOMAIN event /\ \A e \in DOMAIN event : event'[e].pass = event[e].pass
  <2>1. \A e \in DOMAIN event : [event[e] EXCEPT !.settled = TRUE].pass = event[e].pass
    BY DEF LogTypes, EventRow
  <2>2. QED BY <1>b, <2>1 DEF SettleAll
<1>1. CASE PassStart
  <2>1. passUp' /\ pass' = pass + 1 /\ pass \in Nat
    BY <1>1 DEF PassStart, ProcTypes
  <2>2. DOMAIN event' = DOMAIN event /\ \A e \in DOMAIN event : event'[e].pass = event[e].pass
    BY <1>1, <1>b DEF PassStart, SettleOrphans
  <2>3. QED BY <1>a, <2>1, <2>2 DEF PassUnsettled
<1>2. CASE PassEnd
  <2>1. ~passUp' /\ pass' = pass
    BY <1>2 DEF PassEnd
  <2>2. DOMAIN event' = DOMAIN event /\ \A e \in DOMAIN event : event'[e].pass = event[e].pass
    BY <1>2, <1>b DEF PassEnd, SettlePass
  <2>3. QED BY <2>1, <2>2 DEF PassUnsettled
<1>3. CASE PassCrash
  BY <1>3 DEF PassCrash, logVars, PassUnsettled
<1>4. CASE ~PassStart /\ ~PassEnd /\ ~PassCrash
  <2>1. passUp' = passUp /\ pass' = pass
    <3>1. CASE RunnerStep
      BY <3>1 DEF RunnerStep, Recover, IntakeRead, IntakeWrite, RunPending, PoolDrained, Sweep, Wake, prodVars
    <3>2. CASE \E w \in Workers : WorkerStep(w) \/ Raise(w)
      BY <3>2 DEF WorkerStep, Claim, FailGone, Execute, Raise, prodVars
    <3>3. QED BY <1>4, <3>1, <3>2
          DEF Next, PassEmit, AppendSettled, Configure, Stop, RunnerCrash, OrphanExits, Tick,
              StartServe, StartWait, prodVars
  <2>2. CASE event' = event
    BY <2>1, <2>2 DEF PassUnsettled
  <2>3. CASE \E kind \in Kinds : Insert(kind, pass, FALSE) \/ Insert(kind, 0, TRUE)
    <3>1. nextEvent \notin DOMAIN event
      BY DEF LogTypes
    <3>2. CASE \E kind \in Kinds : Insert(kind, pass, FALSE)
      BY <2>1, <3>1, <3>2 DEF Insert, PassUnsettled, ProcTypes
    <3>3. CASE \E kind \in Kinds : Insert(kind, 0, TRUE)
      BY <2>1, <3>1, <3>3 DEF Insert, PassUnsettled, ProcTypes
    <3>4. QED BY <2>3, <3>2, <3>3
  <2>4. CASE SweepLog
    BY <2>1, <2>4 DEF SweepLog, SweptEvents, PassUnsettled
  <2>5. CASE RetentionElapses
    <3>1. \A e \in DOMAIN event : /\ [event[e] EXCEPT !.old = TRUE].settled = event[e].settled
                                  /\ [event[e] EXCEPT !.old = TRUE].pass = event[e].pass
      BY DEF LogTypes, EventRow
    <3>2. QED BY <2>1, <2>5, <3>1 DEF RetentionElapses, PassUnsettled
  <2>6. QED
    BY <1>4, <2>2, <2>3, <2>4, <2>5
    DEF LogStep, logVars, Intake, MarkRunning, SetTerminal, Reschedule, FinalizeRetry, BackoffElapses, SetRun
<1>5. QED BY <1>1, <1>2, <1>3, <1>4

------------------------------------------------------------------------------
(* What a step does to one run *)

\* The batch lies past the cursor, the runs do not: an intake inserts only.
LEMMA BatchIsNew ==
    ASSUME LogTypes, RunsConsumed
    PROVE  Batch \cap DOMAIN run = {}
<1>1. \A r \in Batch : cursor < r[1] /\ r[1] \in Nat
  BY DEF Batch, FanOut, LogTypes
<1>2. \A r \in DOMAIN run : r[1] <= cursor
  BY DEF RunsConsumed
<1>3. QED BY <1>1, <1>2 DEF LogTypes

\* A run appears by an intake, as the row it inserts.
LEMMA RunsAppear ==
    ASSUME LogTypes, LogStep, NEW r \in DOMAIN run' \ DOMAIN run
    PROVE  /\ IntakeWrite /\ Intake(Batch, upto) /\ r \in Batch
           /\ run'[r] = QueuedRow(PathOf(r), InsertedStatus(r, Batch))
<1>1. CASE IntakeWrite /\ Intake(Batch, upto)
  BY <1>1 DEF Intake
<1>2. CASE ~(IntakeWrite /\ Intake(Batch, upto))
  <2>1. DOMAIN run' \subseteq DOMAIN run
    BY <1>2
    DEF LogStep, logVars, Insert, SettleAll, MarkRunning, SetTerminal, Reschedule, FinalizeRetry,
        BackoffElapses, SetRun, SweepLog, RetentionElapses
  <2>2. QED BY <2>1
<1>3. QED BY <1>1, <1>2

\* The life of a run: waiting, claimed, waiting again or ended.
LEMMA RunMoves ==
    ASSUME LogTypes, RunsConsumed, LogStep, NEW r \in DOMAIN run \cap DOMAIN run'
    PROVE  /\ run'[r].path = run[r].path
           /\ \/ run'[r].status = run[r].status
              \/ run[r].status \in Pending /\ run'[r].status = "superseded"
              \/ r \in Claimable /\ run'[r].status = "running" /\ Running' = Running \cup {r}
              \/ run[r].status = "running" /\ run'[r].status \in {"success", "failed", "retry"}
           /\ \/ run'[r].attempt = run[r].attempt
              \/ run[r].attempt < Attempts(r[2]) /\ run'[r].attempt = run[r].attempt + 1
<1>0. run[r] \in RunRow
  BY DEF LogTypes
<1>1. CASE run' = run
  BY <1>1
<1>2. CASE IntakeWrite /\ Intake(Batch, upto)
  <2>1. run'[r] = Supersede(r, Batch)
    BY <1>2, BatchIsNew DEF Intake
  <2>2. QED BY <1>0, <2>1 DEF Supersede, RunRow
<1>3. CASE \E q \in Claimable : MarkRunning(q)
  <2> PICK q \in Claimable : MarkRunning(q)
    BY <1>3
  <2>1. q \in DOMAIN run /\ run[q] \in RunRow
    BY DEF Claimable, LogTypes
  <2>2. [run[q] EXCEPT !.status = "running"].status = "running"
        /\ [run[q] EXCEPT !.status = "running"].path = run[q].path
        /\ [run[q] EXCEPT !.status = "running"].attempt = run[q].attempt
    BY <2>1 DEF RunRow
  <2>3. Running' = Running \cup {q}
    BY <2>1, <2>2, RunningAfterSetRun DEF MarkRunning
  <2>4. QED BY <2>1, <2>2, <2>3 DEF MarkRunning, SetRun
<1>4. CASE \E q \in Running : SetTerminal(q, "success") \/ SetTerminal(q, "failed") \/ Reschedule(q)
  <2> PICK q \in Running : SetTerminal(q, "success") \/ SetTerminal(q, "failed") \/ Reschedule(q)
    BY <1>4
  <2>1. q \in DOMAIN run /\ run[q] \in RunRow /\ run[q].status = "running"
    BY DEF Running, LogTypes
  <2>2. CASE r # q
    BY <2>1, <2>2 DEF SetTerminal, Reschedule, FinalizeRetry, SetRun
  <2>3. CASE r = q /\ \E status \in {"success", "failed"} : SetTerminal(r, status)
    <3> PICK status \in {"success", "failed"} : SetTerminal(r, status)
      BY <2>3
    <3>1. run'[r] = [run[r] EXCEPT !.status = status, !.old = FALSE]
      BY DEF SetTerminal, SetRun
    <3>2. run'[r].status = status /\ run'[r].path = run[r].path /\ run'[r].attempt = run[r].attempt
      BY <1>0, <3>1 DEF RunRow
    <3>3. QED BY <2>1, <2>3, <3>2
  <2>4. CASE r = q /\ FinalizeRetry(r, run[r].attempt + 1) /\ ~(run[r].attempt >= Attempts(r[2]))
    <3>1. run'[r] = [run[r] EXCEPT !.status = "retry", !.attempt = run[r].attempt + 1,
                                   !.due = FALSE, !.old = FALSE]
      BY <2>4 DEF FinalizeRetry, SetRun
    <3>2. run'[r].status = "retry" /\ run'[r].path = run[r].path
          /\ run'[r].attempt = run[r].attempt + 1
      BY <1>0, <3>1 DEF RunRow
    <3>3. run[r].attempt < Attempts(r[2])
      <4>1. run[r].attempt \in Nat /\ Attempts(r[2]) \in Nat
        BY <1>0, RunnerAssumption DEF RunRow, Attempts, LogTypes, Runs
      <4>2. QED BY <2>4, <4>1
    <3>4. QED BY <2>1, <2>4, <3>2, <3>3
  <2>5. QED BY <2>2, <2>3, <2>4 DEF Reschedule
<1>5. CASE SweepLog
  BY <1>5 DEF SweepLog
<1>6. CASE \E q \in DOMAIN run : BackoffElapses(q)
  <2> PICK q \in DOMAIN run : BackoffElapses(q)
    BY <1>6
  <2>1. run[q] \in RunRow
    BY DEF LogTypes
  <2>2. [run[q] EXCEPT !.due = TRUE].status = run[q].status
        /\ [run[q] EXCEPT !.due = TRUE].path = run[q].path
        /\ [run[q] EXCEPT !.due = TRUE].attempt = run[q].attempt
    BY <2>1 DEF RunRow
  <2>3. QED BY <2>2 DEF BackoffElapses, SetRun
<1>7. CASE RetentionElapses
  <2>1. run'[r] = [run[r] EXCEPT !.old = Finished(run[r])]
    BY <1>7 DEF RetentionElapses
  <2>2. QED BY <1>0, <2>1 DEF RunRow
<1>8. QED
  BY <1>1, <1>2, <1>3, <1>4, <1>5, <1>6, <1>7 DEF LogStep, logVars, Insert, SettleAll

\* Runs are queued when the cursor passes their event.
LEMMA RunsConsumedKept ==
    ASSUME LogTypes, ProcTypes, BatchIsSettled, RunsConsumed, LogStep
    PROVE  RunsConsumed'
<1>1. ASSUME NEW r \in DOMAIN run' PROVE r[1] <= cursor'
  <2>1. cursor <= cursor'
    <3>1. IntakeWrite => cursor < upto
      BY DEF IntakeWrite, BatchIsSettled
    <3>2. QED BY <3>1, CursorMoves DEF LogTypes, ProcTypes
  <2>2. CASE r \in DOMAIN run
    <3>1. r[1] \in Nat /\ r[1] <= cursor
      BY <2>2 DEF RunsConsumed, LogTypes, Runs
    <3>2. cursor' \in Nat
      BY CursorMoves DEF LogTypes, ProcTypes
    <3>3. QED BY <2>1, <3>1, <3>2 DEF LogTypes
  <2>3. CASE r \notin DOMAIN run
    <3>1. Intake(Batch, upto) /\ r \in Batch
      BY <1>1, <2>3, RunsAppear
    <3>2. QED BY <3>1 DEF Intake, Batch, FanOut
  <2>4. QED BY <2>2, <2>3
<1>2. QED BY <1>1 DEF RunsConsumed

\* One running row per pair: only a claim starts one, and it looks for another.
LEMMA SerialPerPairKept ==
    ASSUME LogTypes, RunsConsumed, SerialPerPair, LogStep
    PROVE  SerialPerPair'
<1>1. ASSUME NEW r \in Running'
      PROVE  /\ r \in DOMAIN run /\ run'[r].path = run[r].path
             /\ r \in Running \/ (r \in Claimable /\ Running' = Running \cup {r})
  <2>1. r \in DOMAIN run' /\ run'[r].status = "running"
    BY <1>1 DEF Running
  <2>2. r \in DOMAIN run
    <3>1. CASE r \notin DOMAIN run
      <4>1. run'[r] = QueuedRow(PathOf(r), InsertedStatus(r, Batch))
        BY <2>1, <3>1, RunsAppear
      <4>2. QED BY <2>1, <4>1 DEF QueuedRow, InsertedStatus
    <3>2. QED BY <3>1
  <2>3. QED BY <2>1, <2>2, RunMoves DEF Running
<1>2. ASSUME NEW r \in Running', NEW q \in Running', r[2] = q[2], run'[r].path = run'[q].path
      PROVE  r = q
  <2>1. CASE r \in Running /\ q \in Running
    BY <1>1, <1>2, <2>1 DEF SerialPerPair
  <2>2. CASE r \in Claimable /\ Running' = Running \cup {r}
    BY <1>1, <1>2, <2>2 DEF Claimable, Running
  <2>3. CASE q \in Claimable /\ Running' = Running \cup {q}
    BY <1>1, <1>2, <2>3 DEF Claimable, Running
  <2>4. QED BY <1>1, <2>1, <2>2, <2>3
<1>3. QED BY <1>2 DEF SerialPerPair

\* The sweep takes the events no remaining run needs; an intake reads its own.
LEMMA RunsKeepTheirEventKept ==
    ASSUME LogTypes, RunsKeepTheirEvent, LogStep
    PROVE  RunsKeepTheirEvent'
<1>1. ASSUME NEW r \in DOMAIN run' PROVE r[1] \in DOMAIN event'
  <2>1. CASE r \notin DOMAIN run
    BY <1>1, <2>1, RunsAppear DEF Intake, Batch, FanOut
  <2>2. CASE r \in DOMAIN run /\ SweepLog
    BY <1>1, <2>2 DEF RunsKeepTheirEvent, SweepLog, SweptEvents
  <2>3. CASE r \in DOMAIN run /\ ~SweepLog
    <3>1. DOMAIN event \subseteq DOMAIN event'
      BY <2>3
      DEF LogStep, logVars, Insert, SettleAll, Intake, MarkRunning, SetTerminal, Reschedule,
          FinalizeRetry, BackoffElapses, SetRun, RetentionElapses
    <3>2. QED BY <2>3, <3>1 DEF RunsKeepTheirEvent
  <2>4. QED BY <2>1, <2>2, <2>3
<1>2. QED BY <1>1 DEF RunsKeepTheirEvent

\* A retry is scheduled while attempts are left, and counts the next one.
LEMMA AttemptsWithinLimitKept ==
    ASSUME LogTypes, ProcTypes, RunsConsumed, AttemptsWithinLimit, LogStep
    PROVE  AttemptsWithinLimit'
<1>1. ASSUME NEW r \in DOMAIN run'
      PROVE  run'[r].attempt <= MaxAttempts[r[2]] \/ run'[r].attempt <= DefaultMaxAttempts
  <2>1. CASE r \notin DOMAIN run
    <3>1. run'[r].attempt = 1
      BY <1>1, <2>1, RunsAppear DEF QueuedRow
    <3>2. QED BY <3>1, RunnerAssumption
  <2>2. CASE r \in DOMAIN run
    <3>1. run[r].attempt \in Nat /\ r[2] \in Installs
      BY <2>2 DEF LogTypes, RunRow, Runs
    <3>2. CASE run'[r].attempt = run[r].attempt
      BY <2>2, <3>2 DEF AttemptsWithinLimit
    <3>3. CASE run[r].attempt < Attempts(r[2]) /\ run'[r].attempt = run[r].attempt + 1
      <4>1. Attempts(r[2]) \in {MaxAttempts[r[2]], DefaultMaxAttempts}
        BY DEF Attempts
      <4>2. MaxAttempts[r[2]] \in Nat /\ DefaultMaxAttempts \in Nat
        BY <3>1, RunnerAssumption
      <4>3. QED BY <3>1, <3>3, <4>1, <4>2
    <3>4. QED BY <1>1, <2>2, <3>2, <3>3, RunMoves
  <2>3. QED BY <2>1, <2>2
<1>2. QED BY <1>1 DEF AttemptsWithinLimit

\* A batch supersedes what is waiting for the pairs it holds; its own newest
\* row of a pair is the one that waits.
LEMMA QueuedIsNewestKept ==
    ASSUME LogTypes, RunsConsumed, QueuedIsNewest, LogStep
    PROVE  QueuedIsNewest'
<1>1. ASSUME NEW r \in DOMAIN run', NEW q \in DOMAIN run',
             run'[r].status = "queued", r[2] = q[2], run'[r].path = run'[q].path
      PROVE  q[1] <= r[1]
  <2>0. \A x \in DOMAIN run : x[1] \in Nat /\ x[1] <= cursor
    BY DEF RunsConsumed, LogTypes, Runs
  <2>1. CASE IntakeWrite /\ Intake(Batch, upto)
    <3>1. \A x \in Batch : /\ run'[x] = QueuedRow(PathOf(x), InsertedStatus(x, Batch))
                           /\ run'[x].path = PathOf(x) /\ run'[x].status = InsertedStatus(x, Batch)
                           /\ cursor < x[1] /\ x[1] \in Nat
      BY <2>1 DEF Intake, QueuedRow, Batch, FanOut, LogTypes
    <3>2. CASE r \in Batch /\ q \in Batch
      <4>1. ~(q[1] > r[1])
        BY <1>1, <3>1, <3>2 DEF InsertedStatus
      <4>2. QED BY <3>1, <3>2, <4>1
    <3>3. CASE r \in Batch /\ q \notin Batch
      <4>1. q \in DOMAIN run
        BY <1>1, <2>1, <3>3 DEF Intake
      <4>2. QED BY <2>0, <3>1, <3>3, <4>1 DEF LogTypes
    <3>4. CASE r \notin Batch
      <4>1. r \in DOMAIN run /\ run'[r] = Supersede(r, Batch) /\ run[r] \in RunRow
        BY <1>1, <2>1, <3>4 DEF Intake, LogTypes
      <4>2. ~\E x \in Batch : x[2] = r[2] /\ PathOf(x) = run[r].path
        BY <1>1, <4>1 DEF Supersede, Pending, RunRow
      <4>3. run[r].status = "queued" /\ run'[r] = run[r]
        BY <1>1, <4>1, <4>2 DEF Supersede
      <4>4. q \notin Batch
        BY <1>1, <3>1, <4>2, <4>3
      <4>5. q \in DOMAIN run /\ run'[q].path = run[q].path
        BY <1>1, <2>1, <4>4, RunMoves DEF Intake
      <4>6. QED BY <1>1, <4>1, <4>3, <4>5 DEF QueuedIsNewest
    <3>5. QED BY <3>2, <3>3, <3>4
  <2>2. CASE ~(IntakeWrite /\ Intake(Batch, upto))
    <3>1. r \in DOMAIN run /\ q \in DOMAIN run
      BY <1>1, <2>2, RunsAppear
    <3>2. run'[r].path = run[r].path /\ run'[q].path = run[q].path
      BY <1>1, <3>1, RunMoves
    <3>3. run[r].status = "queued"
      BY <1>1, <3>1, RunMoves
    <3>4. QED BY <1>1, <3>1, <3>2, <3>3 DEF QueuedIsNewest
  <2>3. QED BY <2>1, <2>2
<1>2. QED BY <1>1 DEF QueuedIsNewest

\* An intake leaves a pair its running row and one that waits; no other step
\* brings a run back from its end.
LEMMA BacklogBoundedKept ==
    ASSUME LogTypes, RunsConsumed, SerialPerPair, BacklogBounded, LogStep
    PROVE  BacklogBounded'
<1> DEFINE Same(r, q)  == r[2] = q[2] /\ run[r].path = run[q].path
           SameX(r, q) == r[2] = q[2] /\ run'[r].path = run'[q].path
           Open  == {x \in DOMAIN run : run[x].status \in Unfinished}
           OpenX == {x \in DOMAIN run' : run'[x].status \in Unfinished}
<1>1. CASE IntakeWrite /\ Intake(Batch, upto)
  <2>1. \A x \in Batch : /\ run'[x].path = PathOf(x) /\ run'[x].status = InsertedStatus(x, Batch)
                         /\ x[1] \in Nat
    BY <1>1 DEF Intake, QueuedRow, Batch, FanOut, LogTypes
  <2>2. ASSUME NEW x \in OpenX \cap Batch, NEW y \in OpenX \cap Batch, SameX(x, y)
        PROVE  x = y
    <3>1. ~(x[1] > y[1]) /\ ~(y[1] > x[1])
      BY <2>1, <2>2 DEF InsertedStatus, Unfinished, Pending
    <3>2. x[1] = y[1]
      BY <2>1, <3>1
    <3>3. x \in Runs /\ y \in Runs
      BY DEF Batch, FanOut, Runs, LogTypes
    <3>4. QED BY <2>2, <3>2, <3>3 DEF Runs
  <2>3. ASSUME NEW x \in OpenX \cap Batch, NEW y \in OpenX, y \notin Batch, SameX(x, y)
        PROVE  y \in Running /\ run'[y].path = run[y].path
    <3>1. y \in DOMAIN run /\ run'[y] = Supersede(y, Batch) /\ run[y] \in RunRow
      BY <1>1, <2>3 DEF Intake, LogTypes
    <3>2. run'[y].path = run[y].path
      BY <1>1, <3>1, RunMoves DEF Intake
    <3>3. PathOf(x) = run[y].path /\ x[2] = y[2]
      BY <2>1, <2>3, <3>2
    <3>4. run[y].status \notin Pending
      <4>1. ASSUME run[y].status \in Pending PROVE FALSE
        <5>1. run'[y].status = "superseded"
          BY <3>1, <3>3, <4>1 DEF Supersede, RunRow
        <5>2. QED BY <2>3, <5>1 DEF Unfinished, Pending
      <4>2. QED BY <4>1
    <3>5. run'[y] = run[y]
      BY <3>1, <3>4 DEF Supersede
    <3>6. QED BY <2>3, <3>1, <3>2, <3>4, <3>5 DEF Running, Unfinished
  <2>4. ASSUME NEW y \in OpenX, y \notin Batch
        PROVE  y \in Open /\ run'[y].path = run[y].path
    <3>1. y \in DOMAIN run
      BY <1>1, <2>4 DEF Intake
    <3>2. run'[y].path = run[y].path
      BY <2>4, <3>1, RunMoves
    <3>3. run[y].status \in Unfinished
      BY <2>4, <3>1, RunMoves DEF Unfinished, Pending, Claimable
    <3>4. QED BY <3>1, <3>2, <3>3
  <2>5. ASSUME NEW r \in OpenX, NEW q \in OpenX, NEW s \in OpenX, SameX(r, q), SameX(q, s)
        PROVE  r = q \/ q = s \/ r = s
    <3>1. CASE r \notin Batch /\ q \notin Batch /\ s \notin Batch
      BY <2>4, <2>5, <3>1 DEF BacklogBounded
    <3>2. CASE r \in Batch
      <4>1. CASE q \in Batch
        BY <2>2, <2>5, <3>2, <4>1
      <4>2. CASE s \in Batch
        BY <2>2, <2>5, <3>2, <4>2
      <4>3. CASE q \notin Batch /\ s \notin Batch
        BY <2>3, <2>5, <3>2, <4>3 DEF SerialPerPair
      <4>4. QED BY <4>1, <4>2, <4>3
    <3>3. CASE q \in Batch
      <4>1. CASE r \in Batch
        BY <2>2, <2>5, <3>3, <4>1
      <4>2. CASE s \in Batch
        BY <2>2, <2>5, <3>3, <4>2
      <4>3. CASE r \notin Batch /\ s \notin Batch
        BY <2>3, <2>5, <3>3, <4>3 DEF SerialPerPair
      <4>4. QED BY <4>1, <4>2, <4>3
    <3>4. CASE s \in Batch
      <4>1. CASE q \in Batch
        BY <2>2, <2>5, <3>4, <4>1
      <4>2. CASE r \in Batch
        BY <2>2, <2>5, <3>4, <4>2
      <4>3. CASE q \notin Batch /\ r \notin Batch
        BY <2>3, <2>5, <3>4, <4>3 DEF SerialPerPair
      <4>4. QED BY <4>1, <4>2, <4>3
    <3>5. QED BY <3>1, <3>2, <3>3, <3>4
  <2>6. QED BY <2>5 DEF BacklogBounded
<1>2. CASE ~(IntakeWrite /\ Intake(Batch, upto))
  <2>1. ASSUME NEW x \in OpenX PROVE x \in Open /\ run'[x].path = run[x].path
    <3>1. x \in DOMAIN run
      BY <1>2, <2>1, RunsAppear
    <3>2. QED BY <2>1, <3>1, RunMoves DEF Unfinished, Pending, Claimable
  <2>2. QED BY <2>1 DEF BacklogBounded
<1>3. QED BY <1>1, <1>2

------------------------------------------------------------------------------
(* The inductive invariant and the theorems *)

IInv ==
    /\ LogTypes /\ ProcTypes
    /\ BatchIsSettled /\ ThreadsInPool /\ RunsConsumed /\ PassUnsettled
    /\ ClaimOwnership /\ SerialPerPair /\ RunsKeepTheirEvent
    /\ AttemptsWithinLimit /\ QueuedIsNewest /\ BacklogBounded

\* It holds of the empty log with no process.
LEMMA IInvInit ==
    ASSUME Init
    PROVE  IInv
<1>1. DOMAIN event = {} /\ DOMAIN run = {} /\ event = [e \in {} |-> {}] /\ run = [r \in {} |-> {}]
  BY DEF Init, EventLogInit
<1>2. cursor = 0 /\ nextEvent = 1
  BY DEF Init, EventLogInit
<1>3. LogTypes
  <2>1. event \in [DOMAIN event -> EventRow] /\ run \in [DOMAIN run -> RunRow]
    BY <1>1
  <2>2. QED BY <1>1, <1>2, <2>1 DEF LogTypes
<1>4. ProcTypes
  <2>1. Idle \in [pc : {"off", "claim", "exec", "raised"}, run : Nat \X (Installs \cup {NoInstall})]
    BY DEF Idle
  <2>2. worker \in [Workers -> [pc : {"off", "claim", "exec", "raised"},
                                run : Nat \X (Installs \cup {NoInstall})]]
    BY <2>1 DEF Init
  <2>3. installed \in [Installs -> InstallState] /\ snap \in [Installs -> InstallState]
    BY DEF Init, NoSnap, InstallState
  <2>4. passUp \in BOOLEAN /\ pass \in Nat
    BY DEF Init
  <2>5. upto \in Nat /\ crashes \in Nat /\ orphans \subseteq Runs
    BY DEF Init
  <2>6. proc = "none" /\ pc = "down"
    BY DEF Init
  <2>7. QED BY <2>2, <2>3, <2>4, <2>5, <2>6 DEF ProcTypes
<1>5. Running = {}
  BY <1>1 DEF Running
<1>6. BatchIsSettled /\ RunsConsumed /\ PassUnsettled
  BY <1>1, <1>2 DEF Init, BatchIsSettled, RunsConsumed, PassUnsettled
<1>7. ThreadsInPool /\ ClaimOwnership
  BY <1>5 DEF Init, Idle, ThreadsInPool, ClaimOwnership
<1>8. SerialPerPair
  BY <1>5 DEF SerialPerPair
<1>9. RunsKeepTheirEvent /\ AttemptsWithinLimit /\ QueuedIsNewest /\ BacklogBounded
  BY <1>1 DEF RunsKeepTheirEvent, AttemptsWithinLimit, QueuedIsNewest, BacklogBounded
<1>10. QED BY <1>3, <1>4, <1>6, <1>7, <1>8, <1>9 DEF IInv

\* Its types are those of TypeOK.
LEMMA TypesTogether == TypeOK <=> LogTypes /\ ProcTypes
BY DEF TypeOK, LogTypes, ProcTypes

\* Every step keeps it, and a step that changes nothing too.
LEMMA IInvKept ==
    ASSUME IInv, [Next]_vars
    PROVE  IInv'
<1>1. CASE Next
  <2>1. LogStep
    BY <1>1, StepsOfTheLog, TypesTogether DEF IInv
  <2>2. LogTypes' /\ ProcTypes'
    BY <1>1, <2>1, LogTypesKept, ProcTypesKept DEF IInv, ProcTypes
  <2>3. BatchIsSettled'
    BY <1>1, <2>1, BatchIsSettledKept DEF IInv
  <2>4. ThreadsInPool'
    BY <1>1, ThreadsInPoolKept DEF IInv
  <2>5. RunsConsumed'
    BY <2>1, RunsConsumedKept DEF IInv
  <2>6. PassUnsettled'
    BY <1>1, <2>1, PassUnsettledKept DEF IInv
  <2>7. ClaimOwnership'
    BY <1>1, ClaimOwnershipKept DEF IInv
  <2>8. SerialPerPair'
    BY <2>1, SerialPerPairKept DEF IInv
  <2>9. RunsKeepTheirEvent'
    BY <2>1, RunsKeepTheirEventKept DEF IInv
  <2>10. AttemptsWithinLimit'
    BY <2>1, AttemptsWithinLimitKept DEF IInv
  <2>11. QueuedIsNewest'
    BY <2>1, QueuedIsNewestKept DEF IInv
  <2>12. BacklogBounded'
    BY <2>1, BacklogBoundedKept DEF IInv
  <2>13. QED
    BY <2>2, <2>3, <2>4, <2>5, <2>6, <2>7, <2>8, <2>9, <2>10, <2>11, <2>12 DEF IInv
<1>2. CASE UNCHANGED vars
  <2>1. UNCHANGED <<event, run, cursor, nextEvent, passUp, pass, installed, proc, pc, upto, snap,
                    worker, orphans, crashes>>
    BY <1>2 DEF vars, logVars, procVars, prodVars, envVars
  <2>2. LogTypes' /\ ProcTypes'
    BY <2>1 DEF IInv, LogTypes, ProcTypes
  <2>3. BatchIsSettled' /\ ThreadsInPool' /\ RunsConsumed' /\ PassUnsettled'
    BY <2>1 DEF IInv, BatchIsSettled, ThreadsInPool, RunsConsumed, PassUnsettled
  <2>4. ClaimOwnership' /\ SerialPerPair'
    BY <2>1 DEF IInv, ClaimOwnership, SerialPerPair, Running
  <2>5. RunsKeepTheirEvent' /\ AttemptsWithinLimit' /\ QueuedIsNewest' /\ BacklogBounded'
    BY <2>1 DEF IInv, RunsKeepTheirEvent, AttemptsWithinLimit, QueuedIsNewest, BacklogBounded
  <2>6. QED BY <2>2, <2>3, <2>4, <2>5 DEF IInv
<1>3. QED BY <1>1, <1>2

\* IInv is an invariant of the runner.
THEOREM Inductive == Spec => []IInv
<1>1. Init => IInv
  BY IInvInit
<1>2. IInv /\ [Next]_vars => IInv'
  BY IInvKept
<1>3. QED BY <1>1, <1>2, PTL DEF Spec

\* Every variable keeps its type, whatever the installs, the events and the crashes.
THEOREM TypeCorrect == Spec => []TypeOK
<1>1. IInv => TypeOK
  BY TypesTogether DEF IInv
<1>2. QED BY <1>1, Inductive, PTL

\* The cursor never passes a row that is not settled, whichever passes and
\* commands write beside the runner: no event is skipped for good.
THEOREM CursorSafe == Spec => []CursorOverSettled
<1>1. IInv => CursorOverSettled
  BY DEF IInv, BatchIsSettled, CursorOverSettled
<1>2. QED BY <1>1, Inductive, PTL

\* No workflow is queued for, or runs on, an event of a pass still going on.
THEOREM PassesAreHidden == Spec => []HalfSyncedHidden
<1>1. ASSUME IInv PROVE HalfSyncedHidden
  <2>1. ASSUME NEW r \in DOMAIN run, r[1] \in DOMAIN event, passUp
        PROVE  event[r[1]].pass # pass
    <3>1. r[1] <= cursor
      BY <1>1 DEF IInv, RunsConsumed
    <3>2. event[r[1]].settled
      BY <1>1, <2>1, <3>1 DEF IInv, BatchIsSettled
    <3>3. QED BY <1>1, <2>1, <3>2 DEF IInv, PassUnsettled
  <2>2. QED BY <2>1 DEF HalfSyncedHidden
<1>2. QED BY <1>1, Inductive, PTL

\* At most one running row per (install, rel_path), through crashes and
\* restarts, for any number of threads.
THEOREM Serial == Spec => []SerialPerPair
<1>1. IInv => SerialPerPair
  BY DEF IInv
<1>2. QED BY <1>1, Inductive, PTL

\* A claimed row belongs to one thread until that thread finalises it.
THEOREM ClaimsAreOwned == Spec => []ClaimOwnership
<1>1. IInv => ClaimOwnership
  BY DEF IInv
<1>2. QED BY <1>1, Inductive, PTL

\* Retention never takes an event that a run still needs.
THEOREM EventsOutliveRuns == Spec => []RunsKeepTheirEvent
<1>1. IInv => RunsKeepTheirEvent
  BY DEF IInv
<1>2. QED BY <1>1, Inductive, PTL

\* Retries and crash recoveries together stay within max_attempts.
THEOREM AttemptsAreLimited == Spec => []AttemptsWithinLimit
<1>1. IInv => AttemptsWithinLimit
  BY DEF IInv
<1>2. QED BY <1>1, Inductive, PTL

\* Coalescing: what waits for its first attempt is the pair's newest event.
THEOREM Coalescing == Spec => []QueuedIsNewest
<1>1. IInv => QueuedIsNewest
  BY DEF IInv
<1>2. QED BY <1>1, Inductive, PTL

\* A pair has two unfinished runs at most, whatever it has been through.
THEOREM BacklogStaysShort == Spec => []BacklogBounded
<1>1. IInv => BacklogBounded
  BY DEF IInv
<1>2. QED BY <1>1, Inductive, PTL

\* A run that ended stays ended.
THEOREM EndsAreFinal == Spec => TerminalIsFinal
<1>1. ASSUME IInv, [Next]_vars
      PROVE  [\A r \in DOMAIN run \cap DOMAIN run' :
                run[r].status \in Terminal => run'[r].status = run[r].status]_vars
  <2>1. CASE Next
    <3>1. LogStep
      BY <1>1, <2>1, StepsOfTheLog, TypesTogether DEF IInv
    <3>2. ASSUME NEW r \in DOMAIN run \cap DOMAIN run', run[r].status \in Terminal
          PROVE  run'[r].status = run[r].status
      BY <1>1, <3>1, <3>2, RunMoves DEF IInv, Terminal, Pending, Claimable
    <3>3. QED BY <3>2
  <2>2. CASE UNCHANGED vars
    BY <2>2
  <2>3. QED BY <1>1, <2>1, <2>2
<1>2. QED BY <1>1, Inductive, PTL DEF Spec, TerminalIsFinal
==============================================================================
