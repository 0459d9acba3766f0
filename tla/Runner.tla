------------------------------- MODULE Runner -------------------------------
(* The workflow runner over events.db: `workflows serve` and                 *)
(* `workflows run --wait` (workflows/runner.py, workflows/cli.py), together  *)
(* with the processes that write event rows beside it: the sync passes and   *)
(* the `run` / `backfill` commands.                                          *)
(*                                                                           *)
(* One process holds runner.lock at a time (proc); its main thread is at pc, *)
(* its pool threads are worker.  A crash ends the process between any two    *)
(* transactions: the flock goes with it, the rows stay, and the job          *)
(* subprocesses it spawned live on (orphans).                                *)
EXTENDS EventLog

CONSTANTS
    Workers,             \* the ThreadPoolExecutor's threads (max_parallel)
    Kinds,               \* the events producers may append
    Matches,             \* <<install, path>>: the install's globs match the path
    On,                  \* per install: its `on` types (EventTypes when unset)
    SkipOwn,             \* installs with skip_own_changes
    MaxAttempts,         \* per install: manifest retry.max_attempts
    DefaultMaxAttempts,  \* RetrySpec() of an install that is gone
    UserStates,          \* what the user may turn an install into
    RowsAge,             \* whether retention_days may pass
    MaxEvents, MaxPasses, MaxCrashes   \* bounds on the environment

ASSUME RunnerAssumption ==
    /\ NoInstall \notin Installs
    /\ Kinds \subseteq EventKind
    /\ Matches \subseteq Installs \X Paths
    /\ On \in [Installs -> SUBSET EventTypes]
    /\ SkipOwn \subseteq Installs
    /\ MaxAttempts \in [Installs -> Nat \ {0}]
    /\ DefaultMaxAttempts \in Nat \ {0}
    /\ UserStates \subseteq {"enabled", "disabled", "gone"} /\ RowsAge \in BOOLEAN
    /\ MaxEvents \in Nat /\ MaxPasses \in Nat /\ MaxCrashes \in Nat

VARIABLES
    passUp, pass,        \* a sync pass is running; its number (sync_pass uuid)
    installed,           \* per install: "enabled", "disabled" or "gone"
    proc,                \* who holds runner.lock: "none", "serve" or "wait"
    pc,                  \* where its main thread is
    upto,                \* the new cursor intake_step computed
    snap,                \* `discovered` of the current batch or recovery
    worker,              \* per thread: [pc, run]
    orphans,             \* runs whose subprocess outlived the process
    crashes

procVars == <<proc, pc, upto, snap, worker>>
prodVars == <<passUp, pass>>
envVars  == <<installed, orphans, crashes>>
vars     == <<logVars, procVars, prodVars, envVars>>

InstallState == {"enabled", "disabled", "gone"}
Idle         == [pc |-> "off", run |-> <<0, NoInstall>>]
NoSnap       == [i \in Installs |-> "gone"]     \* no `discovered` in scope

Init ==
    /\ EventLogInit
    /\ passUp = FALSE /\ pass = 0
    /\ installed = [i \in Installs |-> "enabled"]
    /\ proc = "none" /\ pc = "down" /\ upto = 0
    /\ snap = NoSnap
    /\ worker = [w \in Workers |-> Idle]
    /\ orphans = {} /\ crashes = 0

------------------------------------------------------------------------------
(* Producers: SyncEngine.run_once and the CLI commands *)

\* Mutant: orphaned rows are left unsettled.
PassStart_NoOrphans ==
    /\ ~passUp /\ pass < MaxPasses
    /\ passUp' = TRUE /\ pass' = pass + 1
    /\ UNCHANGED <<logVars, procVars, envVars>>

PassStart ==
    /\ ~passUp /\ pass < MaxPasses
    /\ SettleOrphans
    /\ passUp' = TRUE /\ pass' = pass + 1
    /\ UNCHANGED <<procVars, envVars>>

\* Mutant: a sync event is settled at insert.
PassEmit_Settled(kind) ==
    /\ passUp /\ nextEvent <= MaxEvents
    /\ kind.source = "sync"
    /\ Insert(kind, pass, TRUE)
    /\ UNCHANGED <<procVars, prodVars, envVars>>

PassEmit(kind) ==
    /\ passUp /\ nextEvent <= MaxEvents
    /\ kind.source = "sync"
    /\ Insert(kind, pass, FALSE)
    /\ UNCHANGED <<procVars, prodVars, envVars>>

\* The finally of run_once: the pass succeeded or raised.
PassEnd ==
    /\ passUp
    /\ SettlePass(pass)
    /\ passUp' = FALSE
    /\ UNCHANGED <<pass, procVars, envVars>>

\* The bound leaves room for one more pass after a crash.
PassCrash ==
    /\ passUp /\ pass < MaxPasses
    /\ crashes < MaxCrashes
    /\ passUp' = FALSE /\ crashes' = crashes + 1
    /\ UNCHANGED <<logVars, pass, procVars, installed, orphans>>

\* `workflows run` and `workflows backfill`; they belong to no pass.
AppendSettled(kind) ==
    /\ nextEvent <= MaxEvents
    /\ kind.source \in {"manual", "backfill"}
    /\ Insert(kind, 0, TRUE)
    /\ UNCHANGED <<procVars, prodVars, envVars>>

\* enable, disable, remove, install: the user edits the install's files.
Configure(i, state) ==
    /\ installed[i] # state
    /\ installed' = [installed EXCEPT ![i] = state]
    /\ UNCHANGED <<logVars, procVars, prodVars, orphans, crashes>>

------------------------------------------------------------------------------
(* The runner process *)

\* Mutant: serve does not look for what a dead runner left.
StartServe_NoRecovery ==
    /\ proc = "none"
    /\ proc' = "serve" /\ pc' = "intake"
    /\ UNCHANGED <<logVars, upto, snap, worker, prodVars, envVars>>

\* serve recovers first; run --wait goes straight to its one intake step.
StartServe ==
    /\ proc = "none"
    /\ proc' = "serve" /\ pc' = "recover" /\ snap' = installed
    /\ UNCHANGED <<logVars, upto, worker, prodVars, envVars>>

StartWait ==
    /\ proc = "none"
    /\ proc' = "wait" /\ pc' = "intake"
    /\ UNCHANGED <<logVars, upto, snap, worker, prodVars, envVars>>

Running == {r \in DOMAIN run : run[r].status = "running"}

Attempts(i) == IF snap[i] = "gone" THEN DefaultMaxAttempts ELSE MaxAttempts[i]

\* Mutant: one attempt too many.
Reschedule_OneMore(r) ==
    IF run[r].attempt > Attempts(r[2])
    THEN SetTerminal(r, "failed")
    ELSE FinalizeRetry(r, run[r].attempt + 1)

\* _reschedule_or_exhaust
Reschedule(r) ==
    IF run[r].attempt >= Attempts(r[2])
    THEN SetTerminal(r, "failed")
    ELSE FinalizeRetry(r, run[r].attempt + 1)

\* recover_crashed: one commit per running row, oldest first.
Recover ==
    /\ pc = "recover"
    /\ \/ /\ \E r \in Oldest(Running) : Reschedule(r)
          /\ UNCHANGED <<pc, snap>>
       \/ /\ Running = {}
          /\ pc' = "intake" /\ snap' = NoSnap
          /\ UNCHANGED logVars
    /\ UNCHANGED <<proc, upto, worker, prodVars, envVars>>

\* intake_step reads the settled rows first ...
IntakeRead ==
    /\ pc = "intake"
    /\ \/ /\ UnconsumedSettled = {}
          /\ pc' = "pending" /\ UNCHANGED upto
       \/ \E u \in UnconsumedSettled :
             /\ \A e \in UnconsumedSettled : e <= u
             /\ upto' = u /\ pc' = "fanout"
    /\ UNCHANGED <<logVars, proc, snap, worker, prodVars, envVars>>

\* _passes_type_filter, _should_queue
PassesTypeFilter(kind, i) == kind.type \in On[i]

ShouldQueue(kind, i) ==
    /\ ~(i \in SkipOwn /\ kind.own)
    /\ \/ kind.target = i /\ (kind.source = "manual" \/ PassesTypeFilter(kind, i))
       \/ kind.target = NoInstall /\ <<i, kind.path>> \in Matches /\ PassesTypeFilter(kind, i)

FanOut(batch) ==
    {r \in batch \X Installs :
        installed[r[2]] = "enabled" /\ ShouldQueue(event[r[1]].kind, r[2])}

\* ... then discovers the installs and queues, over the rows it read.
IntakeWrite ==
    /\ pc = "fanout"
    /\ Intake(FanOut({e \in DOMAIN event : cursor < e /\ e <= upto}), upto)
    /\ pc' = "pending" /\ upto' = 0
    /\ UNCHANGED <<proc, snap, worker, prodVars, envVars>>

\* run_pending discovers once for the whole batch and starts the threads.
RunPending ==
    /\ pc = "pending"
    /\ pc' = "pool" /\ snap' = installed
    /\ worker' = [w \in Workers |-> [Idle EXCEPT !.pc = "claim"]]
    /\ UNCHANGED <<logVars, proc, upto, prodVars, envVars>>

\* Mutant: a thread with nothing to claim waits for more instead of returning.
Claim_Waits(w) ==
    /\ worker[w].pc = "claim"
    /\ \E r \in Oldest(Claimable) :
          /\ MarkRunning(r)
          /\ worker' = [worker EXCEPT ![w] = [pc |-> "exec", run |-> r]]
    /\ UNCHANGED <<proc, pc, upto, snap, prodVars, envVars>>

Claim(w) ==
    /\ worker[w].pc = "claim"
    /\ \/ \E r \in Oldest(Claimable) :
             /\ MarkRunning(r)
             /\ worker' = [worker EXCEPT ![w] = [pc |-> "exec", run |-> r]]
       \/ /\ Claimable = {}
          /\ worker' = [worker EXCEPT ![w] = Idle]
          /\ UNCHANGED logVars
    /\ UNCHANGED <<proc, pc, upto, snap, prodVars, envVars>>

NextClaim(w) == worker' = [worker EXCEPT ![w] = [Idle EXCEPT !.pc = "claim"]]

\* The install vanished or broke between queueing and claiming.
FailGone(w) ==
    /\ worker[w].pc = "exec"
    /\ snap[worker[w].run[2]] = "gone"
    /\ SetTerminal(worker[w].run, "failed")
    /\ NextClaim(w)
    /\ UNCHANGED <<proc, pc, upto, snap, prodVars, envVars>>

\* execute and _finalize_outcome: exit 0, exit 75 or a timeout, other exits.
Execute(w) ==
    /\ worker[w].pc = "exec"
    /\ snap[worker[w].run[2]] # "gone"
    /\ \/ SetTerminal(worker[w].run, "success")
       \/ SetTerminal(worker[w].run, "failed")
       \/ Reschedule(worker[w].run)
    /\ NextClaim(w)
    /\ UNCHANGED <<proc, pc, upto, snap, prodVars, envVars>>

\* prepare_job or the spawn raises (no `uv`, a full disk, an input JSON cannot
\* carry): the thread ends and its row is left running.
Raise(w) ==
    /\ worker[w].pc = "exec"
    /\ snap[worker[w].run[2]] # "gone"
    /\ crashes < MaxCrashes /\ crashes' = crashes + 1
    /\ worker' = [worker EXCEPT ![w].pc = "raised"]
    /\ UNCHANGED <<logVars, proc, pc, upto, snap, prodVars, installed, orphans>>

Exit ==
    /\ proc' = "none" /\ pc' = "down" /\ upto' = 0 /\ snap' = NoSnap
    /\ worker' = [w \in Workers |-> Idle]

\* The pool has drained.  A raised thread's exception comes out of run_pending
\* and ends the process; otherwise serve goes on and run --wait is done.
PoolDrained ==
    /\ pc = "pool"
    /\ \A w \in Workers : worker[w].pc \in {"off", "raised"}
    /\ IF proc = "wait" \/ \E w \in Workers : worker[w].pc = "raised"
       THEN Exit
       ELSE pc' = "sweep" /\ snap' = NoSnap /\ UNCHANGED <<proc, upto, worker>>
    /\ UNCHANGED <<logVars, prodVars, envVars>>

\* Housekeeping when a day has gone by since the last one, then wake.wait.
Sweep ==
    /\ pc = "sweep"
    /\ SweepLog \/ UNCHANGED logVars
    /\ pc' = "idle"
    /\ UNCHANGED <<proc, upto, snap, worker, prodVars, envVars>>

\* The poll interval passes, or the watcher sets wake.
Wake ==
    /\ pc = "idle"
    /\ pc' = "intake"
    /\ UNCHANGED <<logVars, proc, upto, snap, worker, prodVars, envVars>>

Stop ==
    /\ pc = "idle"
    /\ Exit
    /\ UNCHANGED <<logVars, prodVars, envVars>>

\* The process is killed; a job it had spawned goes on by itself.
RunnerCrash ==
    /\ proc # "none"
    /\ crashes < MaxCrashes /\ crashes' = crashes + 1
    /\ \E alive \in SUBSET {worker[w].run : w \in {v \in Workers :
                               worker[v].pc = "exec" /\ snap[worker[v].run[2]] # "gone"}} :
          orphans' = orphans \cup alive
    /\ Exit
    /\ UNCHANGED <<logVars, prodVars, installed>>

OrphanExits(r) ==
    /\ r \in orphans
    /\ orphans' = orphans \ {r}
    /\ UNCHANGED <<logVars, procVars, prodVars, installed, crashes>>

\* retention_days go by while nothing but the polling goes on: no pass and no
\* tick of serve lasts that long.
Tick ==
    /\ \/ /\ RowsAge /\ ~passUp /\ pc \in {"down", "idle"}
          /\ RetentionElapses
       \/ \E r \in DOMAIN run : BackoffElapses(r)
    /\ UNCHANGED <<procVars, prodVars, envVars>>

------------------------------------------------------------------------------
RunnerStep == Recover \/ IntakeRead \/ IntakeWrite \/ RunPending \/ PoolDrained \/ Sweep \/ Wake

WorkerStep(w) == Claim(w) \/ FailGone(w) \/ Execute(w)

Next ==
    \/ PassStart \/ PassEnd \/ PassCrash
    \/ \E kind \in Kinds : PassEmit(kind) \/ AppendSettled(kind)
    \/ \E i \in Installs, state \in UserStates : Configure(i, state)
    \/ StartServe \/ StartWait \/ Stop \/ RunnerCrash
    \/ RunnerStep
    \/ \E w \in Workers : WorkerStep(w) \/ Raise(w)
    \/ \E r \in orphans : OrphanExits(r)
    \/ Tick

Spec == Init /\ [][Next]_vars
------------------------------------------------------------------------------
(* Properties *)

TypeOK ==
    /\ event \in [DOMAIN event -> EventRow] /\ DOMAIN event \subseteq 1..(nextEvent - 1)
    /\ run \in [DOMAIN run -> RunRow] /\ DOMAIN run \subseteq Runs
    /\ cursor \in Nat /\ nextEvent \in Nat \ {0}
    /\ cursor < nextEvent
    /\ passUp \in BOOLEAN /\ pass \in Nat
    /\ installed \in [Installs -> InstallState] /\ snap \in [Installs -> InstallState]
    /\ proc \in {"none", "serve", "wait"}
    /\ pc \in {"down", "recover", "intake", "fanout", "pending", "pool", "sweep", "idle"}
    /\ upto \in Nat
    /\ worker \in [Workers -> [pc : {"off", "claim", "exec", "raised"},
                               run : Nat \X (Installs \cup {NoInstall})]]
    /\ orphans \subseteq Runs /\ crashes \in Nat

\* The cursor has passed settled rows only (events.py unconsumed_settled: a
\* row skipped while unsettled would never satisfy id > cursor again).
CursorOverSettled == \A e \in DOMAIN event : e <= cursor => event[e].settled

\* No workflow sees an event of a pass that is still going on
\* (workflow-spec section 1, "never exposes a half-synced state").
HalfSyncedHidden ==
    \A r \in DOMAIN run : r[1] \in DOMAIN event /\ passUp => event[r[1]].pass # pass

\* Two runs of one (install, rel_path) are never running at once, neither by
\* two threads nor by a thread and a row a dead process left behind
\* (events.py claim_next).
SerialPerPair ==
    \A r, q \in Running : r[2] = q[2] /\ run[r].path = run[q].path => r = q

\* A thread's claimed row stays its own until it finalises it: still running,
\* and no other thread's.  Once serve has recovered, there is no running row
\* without a thread (events.py claim_next, runner.py recover_crashed).
ClaimOwnership ==
    /\ \A w \in Workers : worker[w].pc \in {"exec", "raised"} => worker[w].run \in Running
    /\ \A v, w \in Workers :
          v # w /\ {worker[v].pc, worker[w].pc} \subseteq {"exec", "raised"}
             => worker[v].run # worker[w].run
    /\ (proc = "serve" /\ pc # "recover") =>
          \A r \in Running : \E w \in Workers :
             worker[w].pc \in {"exec", "raised"} /\ worker[w].run = r

\* A pair never has more than two unfinished runs, however many events, retries
\* and crashes it has been through (events.py intake's coalescing).
BacklogBounded ==
    \A r, q, s \in {x \in DOMAIN run : run[x].status \in Unfinished} :
       /\ r[2] = q[2] /\ run[r].path = run[q].path
       /\ q[2] = s[2] /\ run[q].path = run[s].path
       => r = q \/ q = s \/ r = s

\* A run waiting for its first attempt is for the pair's newest event
\* (workflow-spec section 6, Coalescing).
QueuedIsNewest ==
    \A r, q \in DOMAIN run :
       run[r].status = "queued" /\ r[2] = q[2] /\ run[r].path = run[q].path => q[1] <= r[1]

\* The event a run was queued for is kept as long as the run: claim_next joins
\* the two, a run without its event would never be claimed (events.py sweep).
RunsKeepTheirEvent == \A r \in DOMAIN run : r[1] \in DOMAIN event

\* No attempt beyond the install's max_attempts, whatever mix of retries and
\* crash recoveries the run went through (runner.py _reschedule_or_exhaust).
AttemptsWithinLimit ==
    \A r \in DOMAIN run :
       run[r].attempt <= MaxAttempts[r[2]] \/ run[r].attempt <= DefaultMaxAttempts

\* A run that ended is never queued, claimed or finalised again; the one thing
\* that may happen to it is the sweep (events.py intake, claim_next).
TerminalIsFinal ==
    [][\A r \in DOMAIN run \cap DOMAIN run' :
          run[r].status \in Terminal => run'[r].status = run[r].status]_vars

\* The runner implements the abstract queue.
Phase(status) ==
    IF status \in Pending THEN "waiting" ELSE IF status = "running" THEN "running" ELSE "ended"

Queue == INSTANCE RunQueue WITH
    backlog <- [r \in DOMAIN run |-> [path |-> run[r].path, phase |-> Phase(run[r].status)]],
    horizon <- cursor

ImplementsRunQueue == Queue!Spec

\* The daemon pass loop, serve's loop, its threads (a job ends or times out),
\* and the clock for a scheduled retry.  Nobody need start serve or a command.
Fairness ==
    /\ WF_vars(PassStart) /\ WF_vars(PassEnd)
    /\ WF_vars(RunnerStep)
    /\ \A w \in Workers : WF_vars(WorkerStep(w))
    /\ WF_vars(Tick)

FairSpec == Spec /\ Fairness

\* While a serve stays up, an event that is settled and not behind an unsettled
\* one is handed over.
SettledIsHandedOver ==
    <>[](proc = "serve") =>
        \A e \in 1..MaxEvents : (e \in UnconsumedSettled) ~> (e <= cursor)

\* While a serve stays up, every queued run ends: by success, failure,
\* exhausted retries or a newer event.
EveryRunEnds ==
    <>[](proc = "serve") =>
        \A e \in 1..MaxEvents, i \in Installs :
            [](<<e, i>> \in DOMAIN run /\ run[<<e, i>>].status \in Unfinished
               => <>(<<e, i>> \notin DOMAIN run \/ run[<<e, i>>].status \in Terminal))

\* The events of a pass that died are settled by a later one.
OrphansSettle ==
    \A e \in 1..MaxEvents :
        (e \in DOMAIN event) ~> (e \in DOMAIN event => event[e].settled)

------------------------------------------------------------------------------
(* What the documentation says and the code does not do *)

\* "only the newest event per path runs" (workflow-spec section 6): no thread
\* executes a run when a newer event of its pair has had its run already.
OnlyNewestEventRuns ==
    \A w \in Workers : worker[w].pc = "exec" =>
       \A q \in DOMAIN run :
          q[2] = worker[w].run[2] /\ run[q].path = run[worker[w].run].path
          /\ q[1] > worker[w].run[1] => run[q].status \in {"queued", "retry"}

\* "Per (install, rel_path): strictly serial" (workflow-spec section 6): the
\* job processes themselves, those of a dead runner included.
JobsSerial ==
    \A w \in Workers, r \in orphans :
       worker[w].pc = "exec" /\ snap[worker[w].run[2]] # "gone" =>
          ~(r \in DOMAIN run /\ r[2] = worker[w].run[2]
            /\ run[r].path = run[worker[w].run].path)
==============================================================================
