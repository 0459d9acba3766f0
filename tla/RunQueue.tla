------------------------------ MODULE RunQueue ------------------------------
(* What the runner promises to workflows, without tables, threads or crashes *)
(* (docs/workflow-spec.md section 6): events are handed over once each, in   *)
(* log order; a newer event of a pair replaces the runs still waiting; runs  *)
(* of one (install, rel_path) pair never overlap; a run that has ended never *)
(* comes back.                                                               *)
EXTENDS Naturals

CONSTANTS Installs, Paths

VARIABLES
    backlog,    \* the runs known: <<event, install>> -> [path, phase]
    horizon     \* every event up to here has been handed over

qvars == <<backlog, horizon>>

Phases == {"waiting", "running", "ended"}

Init ==
    /\ backlog = [r \in {} |-> {}]
    /\ horizon = 0

\* A batch of events is handed over, with its new runs.  The newest run of a
\* pair waits; the new and the waiting ones it overtakes have ended.
HandOver ==
    LET fresh == DOMAIN backlog' \ DOMAIN backlog
        Overtaken(r, path) ==
            \E q \in fresh : q[2] = r[2] /\ backlog'[q].path = path /\ q[1] > r[1]
    IN
    /\ horizon' \in Nat /\ horizon' >= horizon
    /\ DOMAIN backlog \subseteq DOMAIN backlog'
    /\ fresh \subseteq (horizon + 1 .. horizon') \X Installs
    /\ \A r \in fresh :
          \E path \in Paths :
             backlog'[r] = [path  |-> path,
                            phase |-> IF Overtaken(r, path) THEN "ended" ELSE "waiting"]
    /\ \A r \in DOMAIN backlog :
          backlog'[r] =
             IF backlog[r].phase = "waiting" /\ Overtaken(r, backlog[r].path)
             THEN [backlog[r] EXCEPT !.phase = "ended"]
             ELSE backlog[r]

Start(r) ==
    /\ backlog[r].phase = "waiting"
    /\ \A q \in DOMAIN backlog :
          q[2] = r[2] /\ backlog[q].path = backlog[r].path => backlog[q].phase # "running"
    /\ backlog' = [backlog EXCEPT ![r].phase = "running"]
    /\ UNCHANGED horizon

\* It ends for good, or is put back to be retried.
Stop(r, phase) ==
    /\ backlog[r].phase = "running" /\ phase \in {"waiting", "ended"}
    /\ backlog' = [backlog EXCEPT ![r].phase = phase]
    /\ UNCHANGED horizon

Forget ==
    /\ DOMAIN backlog' \subseteq DOMAIN backlog
    /\ \A r \in DOMAIN backlog \ DOMAIN backlog' : backlog[r].phase = "ended"
    /\ backlog' = [r \in DOMAIN backlog' |-> backlog[r]]
    /\ UNCHANGED horizon

Next ==
    \/ HandOver \/ Forget
    \/ \E r \in DOMAIN backlog : Start(r) \/ \E phase \in Phases : Stop(r, phase)

Spec == Init /\ [][Next]_qvars
==============================================================================
