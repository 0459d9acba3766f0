------------------------------ MODULE SyncLock -------------------------------
(* The server's single-device sync lock (files/sync_service.py over the      *)
(* sync_session table) and the requests it is there for: syncStart, syncEnd  *)
(* and the mutations _guard_sync checks.                                     *)
(*                                                                           *)
(* A request is a call the server's threads are busy with, and a query and   *)
(* the commit that follows it are two steps: syncStart asks who else is      *)
(* active, reads the device's own rows and commits; a mutation asks and      *)
(* commits.  Calls of one device overlap as those of several do: a client    *)
(* that gave up on an answer, or was killed, sends the next one while the    *)
(* server still works on the last.                                           *)
EXTENDS Naturals

CONSTANTS
    Devices,
    Calls      \* bounds the calls of one device the server works on at once

VARIABLES
    session,     \* per device: its active rows of sync_session
    starting,    \* per device and call: where that syncStart stands
    changing     \* the mutations past _guard_sync and not committed

lockvars == <<session, starting, changing>>

Mutation == Devices \X Calls

\* call: the syncStart that left the row; fresh: started_at is within the ttl; closing: the
\* syncStarts that have read the row and will close it.  Kept for the properties, when the
\* row was committed: over, the syncStarts of its device that had read their rows already;
\* past, the mutations that were past their guard.
SyncSession == [call : Calls, fresh : BOOLEAN, closing : SUBSET Calls,
                over : SUBSET Calls, past : SUBSET Mutation]
NewSession(d, t) ==
    [call |-> t, fresh |-> TRUE, closing |-> {},
     over |-> {u \in Calls \ {t} : starting[d][u] = "read"}, past |-> changing]

LockInit ==
    /\ session = [d \in Devices |-> {}]
    /\ starting = [d \in Devices |-> [t \in Calls |-> "none"]]
    /\ changing = {}

Free(d) == {t \in Calls : starting[d][t] = "none" /\ <<d, t>> \notin changing}
Fresh(e) == \E r \in session[e] : r.fresh

\* Mutant: an abandoned session blocks for ever.
ActiveOther_NoTtl(d) == {e \in Devices \ {d} : session[e] # {}}
ActiveOther(d) == {e \in Devices \ {d} : Fresh(e)}

Refused(d) == ActiveOther(d) # {}    \* E0078, E0079

\* A syncStart of the device that is still under way holds up no other of its own.
AskToStart(d, t) ==
    /\ t \in Free(d) /\ ~Refused(d)
    /\ starting' = [starting EXCEPT ![d][t] = "granted"]
    /\ UNCHANGED <<session, changing>>

ReadPriors(d, t) ==
    /\ starting[d][t] = "granted"
    /\ starting' = [starting EXCEPT ![d][t] = "read"]
    /\ session' = [session EXCEPT ![d] = {[r EXCEPT !.closing = @ \cup {t}] : r \in @}]
    /\ UNCHANGED changing

\* Mutant: prior rows of the device stay active.
BeginSync_KeepsPriors(d, t) ==
    /\ starting[d][t] = "read"
    /\ session' = [session EXCEPT ![d] = @ \cup {NewSession(d, t)}]
    /\ starting' = [starting EXCEPT ![d][t] = "none"]
    /\ UNCHANGED changing

\* One commit closes the rows that were read and inserts the new one.
BeginSync(d, t) ==
    /\ starting[d][t] = "read"
    /\ session' = [session EXCEPT ![d] = {r \in @ : t \notin r.closing} \cup {NewSession(d, t)}]
    /\ starting' = [starting EXCEPT ![d][t] = "none"]
    /\ UNCHANGED changing

\* The newest of the device's active rows, if there is one: a fresh one if any is.  Rows of
\* overlapping syncStarts have their started_at in any order.
EndSync(d) ==
    /\ \/ session[d] = {} /\ UNCHANGED session
       \/ \E r \in session[d] : /\ Fresh(d) => r.fresh
                                /\ session' = [session EXCEPT ![d] = @ \ {r}]
    /\ UNCHANGED <<starting, changing>>

Expire(d) ==
    /\ \E r \in session[d] :
          /\ r.fresh
          /\ session' = [session EXCEPT ![d] = (@ \ {r}) \cup {[r EXCEPT !.fresh = FALSE]}]
    /\ UNCHANGED <<starting, changing>>

\* Mutant: a device that has a session of its own is not held up.
Guard_OwnSession(d, t) ==
    /\ t \in Free(d) /\ (~Refused(d) \/ session[d] # {})
    /\ changing' = changing \cup {<<d, t>>}
    /\ UNCHANGED <<session, starting>>

Guard(d, t) ==
    /\ t \in Free(d) /\ ~Refused(d)
    /\ changing' = changing \cup {<<d, t>>}
    /\ UNCHANGED <<session, starting>>

\* The mutation's commit, or its failure.
Leave(d, t) ==
    /\ <<d, t>> \in changing
    /\ changing' = changing \ {<<d, t>>}
    /\ UNCHANGED <<session, starting>>

LockNext ==
    \E d \in Devices :
        \/ \E t \in Calls : \/ AskToStart(d, t) \/ ReadPriors(d, t) \/ BeginSync(d, t)
                            \/ Guard(d, t) \/ Leave(d, t)
        \/ EndSync(d) \/ Expire(d)

LockSpec == LockInit /\ [][LockNext]_lockvars

------------------------------------------------------------------------------
(* Properties *)

LockTypeOK ==
    /\ session \in [Devices -> SUBSET SyncSession]
    /\ starting \in [Devices -> [Calls -> {"none", "granted", "read"}]]
    /\ changing \subseteq Mutation

\* A device has two active rows only from syncStarts that overlapped, each past its read of
\* the prior rows before the other's was there: no lost answer, no missing syncEnd and no
\* order of the calls leaves one otherwise.
OnlyOverlapsLeak ==
    \A d \in Devices : \A r, s \in session[d] : r = s \/ r.call \in s.over \/ s.call \in r.over

\* What the comment of begin_sync claims ("can't leak active rows", sync_service.py:38-39).
\* It holds while a device makes one syncStart at a time.
OneRowPerDevice == \A d \in Devices : \A r, s \in session[d] : r = s

\* While a device's session lasts no other device changes the tree, even when two
\* syncStarts overlapped and both were granted; only a mutation that was past its guard
\* when the session began may still be committed.
TurnsAreRespected ==
    [][\A c \in changing \ changing', e \in Devices : \A r \in session[e] :
          e # c[1] /\ r.fresh => c \in r.past]_lockvars
==============================================================================
