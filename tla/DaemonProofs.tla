---------------------------- MODULE DaemonProofs -----------------------------
(* What the sync lock keeps for any set of devices and any number of calls   *)
(* at once: two active rows of a device come from syncStarts that overlapped *)
(* and from nothing else, and no mutation is committed in another device's   *)
(* session but one that was past its guard when the session began.  And of   *)
(* the daemon: its steps are steps of the lock, so that what is proved of    *)
(* the lock holds of the daemon's system; and no wake-up is lost, for any    *)
(* devices, limit of the feed and bounds.                                    *)
EXTENDS Daemon, TLAPS

------------------------------------------------------------------------------
(* The lock alone *)

\* A syncStart past its read of the device's rows will close all there are, but those
\* another one committed since.
PriorsRead ==
    \A d \in Devices, t \in Calls : starting[d][t] = "read" =>
        \A r \in session[d] : t \in r.closing \/ t \in r.over

\* Whoever is past its guard found the sessions that last to have begun later.
GuardsSaw ==
    \A c \in changing, e \in Devices : \A r \in session[e] : e # c[1] /\ r.fresh => c \in r.past

LockInv == LockTypeOK /\ OnlyOverlapsLeak /\ PriorsRead /\ GuardsSaw

\* The row syncStart inserts.
LEMMA NewRow ==
    ASSUME LockTypeOK, NEW d \in Devices, NEW t \in Calls
    PROVE  /\ NewSession(d, t) \in SyncSession /\ NewSession(d, t).call = t
           /\ NewSession(d, t).over = {u \in Calls \ {t} : starting[d][u] = "read"}
           /\ NewSession(d, t).past = changing
  BY DEF NewSession, SyncSession, LockTypeOK

\* A device's syncStarts disturb only its own rows and the place they stand at.
LEMMA StartStep ==
    ASSUME LockInv, NEW d \in Devices, NEW t \in Calls,
           AskToStart(d, t) \/ ReadPriors(d, t) \/ BeginSync(d, t)
    PROVE  LockInv'
  <1> USE DEF LockInv, LockTypeOK
  <1>1. CASE AskToStart(d, t)
    <2>1. /\ session' = session /\ changing' = changing
          /\ starting' = [starting EXCEPT ![d][t] = "granted"]
      BY <1>1 DEF AskToStart
    <2>2. LockTypeOK'
      BY <2>1
    <2>3. \A e \in Devices, u \in Calls : starting'[e][u] = "read" => starting[e][u] = "read"
      BY <2>1
    <2> QED BY <2>1, <2>2, <2>3 DEF OnlyOverlapsLeak, PriorsRead, GuardsSaw
  <1>2. CASE ReadPriors(d, t)
    <2> DEFINE Marked(r) == [r EXCEPT !.closing = r.closing \cup {t}]
    <2>1. /\ session' = [session EXCEPT ![d] = {Marked(r) : r \in session[d]}]
          /\ starting' = [starting EXCEPT ![d][t] = "read"] /\ changing' = changing
      BY <1>2 DEF ReadPriors
    <2>2. \A r \in SyncSession :
             /\ Marked(r) \in SyncSession /\ Marked(r).closing = r.closing \cup {t}
             /\ Marked(r).call = r.call /\ Marked(r).over = r.over /\ Marked(r).past = r.past
             /\ Marked(r).fresh = r.fresh
      BY DEF SyncSession
    <2> HIDE DEF Marked
    <2>3. \A e \in Devices : session'[e] = IF e = d THEN {Marked(r) : r \in session[d]} ELSE session[e]
      BY <2>1
    <2>4. LockTypeOK'
      BY <2>1, <2>2
    <2>5. \A e \in Devices : \A x \in session'[e] : \E r \in session[e] :
             (e = d /\ x = Marked(r)) \/ (e # d /\ x = r)
      BY <2>3
    <2>6. OnlyOverlapsLeak'
      BY <2>2, <2>5 DEF OnlyOverlapsLeak
    <2>7. PriorsRead'
      <3> SUFFICES ASSUME NEW e \in Devices, NEW u \in Calls, starting'[e][u] = "read", NEW x \in session'[e]
                   PROVE  u \in x.closing \/ u \in x.over
        BY DEF PriorsRead
      <3>1. PICK r \in session[e] : (e = d /\ x = Marked(r)) \/ (e # d /\ x = r)
        BY <2>5
      <3>2. CASE e = d /\ u = t
        BY <2>2, <3>1, <3>2
      <3>3. CASE ~(e = d /\ u = t)
        <4>1. starting[e][u] = "read"
          BY <2>1, <3>3
        <4>2. u \in r.closing \/ u \in r.over
          BY <4>1 DEF PriorsRead
        <4> QED BY <2>2, <3>1, <4>2
      <3> QED BY <3>2, <3>3
    <2>8. GuardsSaw'
      BY <2>1, <2>2, <2>5 DEF GuardsSaw
    <2> QED BY <2>4, <2>6, <2>7, <2>8
  <1>3. CASE BeginSync(d, t)
    <2> DEFINE new == NewSession(d, t)
    <2>1. /\ session' = [session EXCEPT ![d] = {r \in session[d] : t \notin r.closing} \cup {new}]
          /\ starting' = [starting EXCEPT ![d][t] = "none"] /\ changing' = changing
          /\ starting[d][t] = "read"
      BY <1>3 DEF BeginSync
    <2>2. /\ new \in SyncSession /\ new.call = t /\ new.past = changing
          /\ new.over = {u \in Calls \ {t} : starting[d][u] = "read"}
      BY NewRow
    <2> HIDE DEF new
    <2>3. LockTypeOK'
      BY <2>1, <2>2
    <2>4. \A e \in Devices : \A x \in session'[e] :
             (x \in session[e] /\ (e = d => t \notin x.closing)) \/ (e = d /\ x = new)
      BY <2>1
    <2>5. \A r \in session[d] : t \notin r.closing => new.call \in r.over
      BY <2>1, <2>2 DEF PriorsRead
    <2>6. OnlyOverlapsLeak'
      BY <2>4, <2>5 DEF OnlyOverlapsLeak
    <2>7. PriorsRead'
      <3>1. \A e \in Devices, u \in Calls :
               starting'[e][u] = "read" => starting[e][u] = "read" /\ (e = d => u # t)
        BY <2>1
      <3> QED BY <2>2, <2>4, <3>1 DEF PriorsRead
    <2>8. GuardsSaw'
      BY <2>1, <2>2, <2>4 DEF GuardsSaw
    <2> QED BY <2>3, <2>6, <2>7, <2>8
  <1> QED BY <1>1, <1>2, <1>3

\* Every step of the lock keeps the invariant.
LEMMA LockStep == LockInv /\ [LockNext]_lockvars => LockInv'
  <1> SUFFICES ASSUME LockInv, [LockNext]_lockvars PROVE LockInv'
    OBVIOUS
  <1> USE DEF LockInv, LockTypeOK
  <1>1. ASSUME NEW d \in Devices, EndSync(d) PROVE LockInv'
    <2>1. \A e \in Devices : session'[e] \subseteq session[e]
      BY <1>1 DEF EndSync
    <2>2. session' \in [Devices -> SUBSET SyncSession] /\ starting' = starting /\ changing' = changing
      BY <1>1 DEF EndSync
    <2> QED BY <2>1, <2>2 DEF OnlyOverlapsLeak, PriorsRead, GuardsSaw
  <1>2. ASSUME NEW d \in Devices, Expire(d) PROVE LockInv'
    <2>1. PICK r \in session[d] :
             session' = [session EXCEPT ![d] = (session[d] \ {r}) \cup {[r EXCEPT !.fresh = FALSE]}]
      BY <1>2 DEF Expire
    <2> DEFINE old == [r EXCEPT !.fresh = FALSE]
    <2>2. /\ old \in SyncSession /\ old.call = r.call /\ old.closing = r.closing
          /\ old.over = r.over /\ ~old.fresh
      <3>1. r \in SyncSession
        OBVIOUS
      <3> QED BY <3>1 DEF SyncSession
    <2>3. session' = [session EXCEPT ![d] = (session[d] \ {r}) \cup {old}]
      BY <2>1
    <2> HIDE DEF old
    <2>4. starting' = starting /\ changing' = changing
      BY <1>2 DEF Expire
    <2>5. LockTypeOK'
      BY <2>2, <2>3, <2>4
    <2>6. \A e \in Devices : \A x \in session'[e] :
             (x \in session[e] /\ (e = d => x # r)) \/ (e = d /\ x = old)
      BY <2>3
    <2>7. OnlyOverlapsLeak' /\ PriorsRead' /\ GuardsSaw'
      BY <2>2, <2>4, <2>6 DEF OnlyOverlapsLeak, PriorsRead, GuardsSaw
    <2> QED BY <2>5, <2>7
  <1>3. ASSUME NEW d \in Devices, NEW t \in Calls, Guard(d, t) PROVE LockInv'
    <2>1. /\ session' = session /\ starting' = starting /\ changing' = changing \cup {<<d, t>>}
          /\ \A e \in Devices \ {d} : \A r \in session[e] : ~r.fresh
      BY <1>3 DEF Guard, Refused, ActiveOther, Fresh
    <2>2. LockTypeOK'
      BY <2>1 DEF Mutation
    <2> QED BY <2>1, <2>2 DEF OnlyOverlapsLeak, PriorsRead, GuardsSaw
  <1>4. ASSUME NEW d \in Devices, NEW t \in Calls, Leave(d, t) PROVE LockInv'
    BY <1>4 DEF Leave, OnlyOverlapsLeak, PriorsRead, GuardsSaw
  <1>5. CASE UNCHANGED lockvars
    BY <1>5 DEF lockvars, OnlyOverlapsLeak, PriorsRead, GuardsSaw
  <1> QED BY <1>1, <1>2, <1>3, <1>4, <1>5, StartStep DEF LockNext

\* The lock's invariant holds throughout.
THEOREM LockInvariant == LockSpec => []LockInv
  <1>1. LockInit => LockInv
    BY DEF LockInit, LockInv, LockTypeOK, OnlyOverlapsLeak, PriorsRead, GuardsSaw
  <1> QED BY <1>1, LockStep, PTL DEF LockSpec

\* Two active rows of a device come from syncStarts that overlapped, whatever is lost, given
\* up or repeated.
THEOREM LeaksNeedOverlap == LockSpec => []OnlyOverlapsLeak
  <1>1. LockInv => OnlyOverlapsLeak
    BY DEF LockInv
  <1> QED BY <1>1, LockInvariant, PTL

\* A device has one syncStart under way at a time.
OneAtATime == \A d \in Devices, t, u \in Calls : t # u => starting[d][t] = "none" \/ starting[d][u] = "none"

NoneOver == \A d \in Devices : \A r \in session[d] : r.over = {}

\* Without overlaps no row is committed beside another syncStart of its device.
LEMMA NoneOverStep == LockInv /\ OneAtATime /\ NoneOver /\ [LockNext]_lockvars => NoneOver'
  <1> SUFFICES ASSUME LockInv, OneAtATime, NoneOver, [LockNext]_lockvars PROVE NoneOver'
    OBVIOUS
  <1> USE DEF LockInv, LockTypeOK
  <1>1. ASSUME NEW d \in Devices, NEW t \in Calls, ReadPriors(d, t) PROVE NoneOver'
    <2>1. \A r \in SyncSession : [r EXCEPT !.closing = r.closing \cup {t}].over = r.over
      BY DEF SyncSession
    <2>2. session' = [session EXCEPT ![d] = {[r EXCEPT !.closing = r.closing \cup {t}] : r \in session[d]}]
      BY <1>1 DEF ReadPriors
    <2> QED BY <2>1, <2>2 DEF NoneOver
  <1>2. ASSUME NEW d \in Devices, NEW t \in Calls, BeginSync(d, t) PROVE NoneOver'
    <2>1. NewSession(d, t).over = {}
      <3>1. starting[d][t] = "read"
        BY <1>2 DEF BeginSync
      <3>2. NewSession(d, t).over = {u \in Calls \ {t} : starting[d][u] = "read"}
        BY NewRow
      <3> QED BY <3>1, <3>2 DEF OneAtATime
    <2>2. session' = [session EXCEPT ![d] = {r \in session[d] : t \notin r.closing} \cup {NewSession(d, t)}]
      BY <1>2 DEF BeginSync
    <2> QED BY <2>1, <2>2 DEF NoneOver
  <1>3. ASSUME NEW d \in Devices, EndSync(d) PROVE NoneOver'
    BY <1>3 DEF EndSync, NoneOver
  <1>4. ASSUME NEW d \in Devices, Expire(d) PROVE NoneOver'
    <2>1. PICK r \in session[d] :
             session' = [session EXCEPT ![d] = (session[d] \ {r}) \cup {[r EXCEPT !.fresh = FALSE]}]
      BY <1>4 DEF Expire
    <2>2. [r EXCEPT !.fresh = FALSE].over = r.over
      BY DEF SyncSession
    <2> QED BY <2>1, <2>2 DEF NoneOver
  <1>5. ASSUME NEW d \in Devices, NEW t \in Calls, AskToStart(d, t) \/ Guard(d, t) \/ Leave(d, t)
        PROVE  NoneOver'
    BY <1>5 DEF AskToStart, Guard, Leave, NoneOver
  <1>6. CASE UNCHANGED lockvars
    BY <1>6 DEF lockvars, NoneOver
  <1> QED BY <1>1, <1>2, <1>3, <1>4, <1>5, <1>6 DEF LockNext

\* A device that has one syncStart under way at a time never has two active rows, so that
\* its syncEnd frees the others: what begin_sync closes its prior rows for.
THEOREM NoRowLeaks == LockSpec /\ []OneAtATime => []OneRowPerDevice
  <1>1. LockInit => NoneOver
    BY DEF LockInit, NoneOver
  <1>2. LockInv /\ NoneOver => OneRowPerDevice
    BY DEF LockInv, OnlyOverlapsLeak, NoneOver, OneRowPerDevice
  <1> QED BY <1>1, <1>2, NoneOverStep, LockInvariant, PTL DEF LockSpec

\* No device changes the tree in another's session, however syncStarts overlap.
THEOREM Exclusion == LockSpec => TurnsAreRespected
  <1>1. LockInv /\ [LockNext]_lockvars =>
          [\A c \in changing \ changing', e \in Devices : \A r \in session[e] :
              e # c[1] /\ r.fresh => c \in r.past]_lockvars
    BY DEF LockInv, GuardsSaw
  <1> QED BY <1>1, LockInvariant, PTL DEF LockSpec, TurnsAreRespected

------------------------------------------------------------------------------
(* The lock in the daemon's system *)

\* Every step of the system is a step of the lock or leaves it alone.
LEMMA StepsOfTheLock == [Next]_vars => [LockNext]_lockvars
  <1> SUFFICES ASSUME [Next]_vars PROVE [LockNext]_lockvars
    OBVIOUS
  <1> USE DaemonAssumption
  <1>1. ASSUME NEW d \in Others, OtherStarts(d) \/ OtherSyncs(d) \/ OtherAsks(d) \/ OtherChanges(d)
        PROVE  LockNext
    <2>1. d \in Devices
      BY DEF Others
    <2>2. \A t : AskToStart(d, t) \/ Guard(d, t) => t \in Calls
      BY DEF AskToStart, Guard, Free
    <2> QED BY <1>1, <2>1, <2>2 DEF OtherStarts, OtherSyncs, OtherAsks, OtherChanges, LockNext
  <1>2. ASSUME NEW d \in Devices, SessionExpires(d) PROVE LockNext
    BY <1>2 DEF SessionExpires, LockNext
  <1>3. CASE Edit \/ WatchLoop \/ FeedLoop \/ FeedStops \/ PollTimer \/ Triggered \/ Clear \/ Scan
             \/ List \/ Pull \/ Restart
    BY <1>3 DEF Edit, WatchLoop, FeedLoop, FeedStops, PollTimer, Triggered, Clear, Scan, List, Pull,
                Restart, lockvars
  <1>4. CASE StartPass \/ StartGoesOn \/ Push \/ LateStart \/ LatePush \/ LateEnd
             \/ PushRefused \/ EndPass \/ PassFails
    <2>1. \A t : AskToStart(Me, t) \/ Guard(Me, t) => t \in Calls
      BY DEF AskToStart, Guard, Free
    <2>2. Me \in Devices
      OBVIOUS
    <2>3. CASE StartPass \/ StartGoesOn \/ Push \/ LateStart \/ LatePush
      BY <2>1, <2>2, <2>3 DEF StartPass, StartGoesOn, Push, LateStart, LatePush, LockNext, lockvars
    <2>4. CASE LateEnd \/ PushRefused \/ EndPass \/ PassFails
      BY <2>4 DEF LateEnd, PushRefused, EndPass, PassFails, LockNext, lockvars
    <2> QED BY <1>4, <2>3, <2>4
  <1>5. CASE UNCHANGED vars
    BY <1>5 DEF vars, lockvars
  <1> QED BY <1>1, <1>2, <1>3, <1>4, <1>5 DEF Next, Loop

\* The daemon and the other devices use the lock as SyncLock has it.
THEOREM UsesTheLock == Spec => LockSpec
  <1>1. Init => LockInit
    BY DEF Init
  <1> QED BY <1>1, StepsOfTheLock, PTL DEF Spec, LockSpec

\* In the daemon's system too a row leaks only from overlapping syncStarts: those of a
\* daemon that gave up or was started again beside its own older one.
THEOREM LeaksNeedOverlapHere == Spec => []OnlyOverlapsLeak
  BY UsesTheLock, LeaksNeedOverlap, PTL

\* Passes are not disturbed by changes of other devices, whatever triggers them.
THEOREM ExclusionHere == Spec => TurnsAreRespected
  BY UsesTheLock, Exclusion, PTL

------------------------------------------------------------------------------
(* The wake-ups *)

\* A pass ends when all it scanned is pushed.
EndsPushed == pc = "end" => pushed = scanned

WakeInv == FeedTypeOK /\ EndsPushed /\ NoLostWakeup

\* The loop waits for calls of the server, and gives up on requests there are.
LEMMA CallsTyped ==
    ASSUME FeedTypeOK, Next
    PROVE  waits' \subseteq Calls /\ late' \subseteq {"start", "change", "end"}
  <1> USE DaemonAssumption
  <1>1. waits \subseteq Calls /\ late \subseteq {"start", "change", "end"}
    BY DEF FeedTypeOK
  <1>2. CASE \E d \in Others : OtherStarts(d) \/ OtherSyncs(d) \/ OtherAsks(d) \/ OtherChanges(d)
    BY <1>1, <1>2 DEF OtherStarts, OtherSyncs, OtherAsks, OtherChanges, local
  <1>3. CASE (\E d \in Devices : SessionExpires(d)) \/ Edit \/ WatchLoop \/ FeedLoop \/ FeedStops
    BY <1>1, <1>3 DEF SessionExpires, Edit, WatchLoop, FeedLoop, FeedStops, local
  <1>4. CASE Loop
    <2>1. AskToStart(Me, FreeCall(Me)) \/ Guard(Me, FreeCall(Me)) => FreeCall(Me) \in Calls
      BY DEF AskToStart, Guard, Free
    <2>2. late' = late
      BY <1>4 DEF Loop, PollTimer, Triggered, Clear, StartPass, StartGoesOn, Scan, List, Pull, Push,
                  PushRefused, EndPass
    <2>3. waits' = waits \/ waits' = {} \/ (waits' = {FreeCall(Me)} /\ FreeCall(Me) \in Calls)
      BY <1>4, <2>1 DEF Loop, PollTimer, Triggered, Clear, StartPass, StartGoesOn, Scan, List, Pull, Push,
                  PushRefused, EndPass
    <2> QED BY <1>1, <2>2, <2>3
  <1>5. CASE LateStart \/ LatePush \/ LateEnd
    BY <1>1, <1>5 DEF LateStart, LatePush, LateEnd, local
  <1>6. CASE PassFails \/ Restart
    BY <1>1, <1>6 DEF PassFails, Restart, GivesUp, InFlight
  <1> QED BY <1>2, <1>3, <1>4, <1>5, <1>6 DEF Next

\* The change table after a change: its old rows are what they were.
LEMMA Appended ==
    ASSUME FeedTypeOK, NEW d \in Devices, Record(d)
    PROVE  /\ changes' \in Seq(Devices) /\ Len(changes') = Len(changes) + 1
           /\ Len(changes) \in Nat
           /\ \A n \in 1..Len(changes) : changes'[n] = changes[n]
  BY DEF FeedTypeOK, Record

\* What the feed has told of is not more than before, if the cursor stays and what has
\* been pulled stays.
LEMMA ToldStays ==
    ASSUME FeedTypeOK, feed' = feed, pulled' = pulled,
           changes' = changes \/ \E d \in Devices : Record(d)
    PROVE  Told' \subseteq Told
  <1>1. feed.cursor <= Len(changes) /\ feed.cursor \in Nat /\ feed.boot \in Nat /\ Len(changes) \in Nat
    BY DEF FeedTypeOK, Feed
  <1> SUFFICES ASSUME NEW n \in Told' PROVE n \in Told
    OBVIOUS
  <1>2. /\ n \in DOMAIN changes' /\ changes'[n] # Me /\ feed.boot < n /\ n <= feed.cursor /\ n > pulled
    BY DEF Told, Foreign
  <1>3. CASE changes' = changes
    BY <1>2, <1>3 DEF Told, Foreign
  <1>4. ASSUME NEW d \in Devices, Record(d) PROVE n \in Told
    <2>1. n \in 1..Len(changes) /\ changes'[n] = changes[n] /\ DOMAIN changes = 1..Len(changes)
      BY <1>1, <1>2, <1>4, Appended DEF FeedTypeOK
    <2> QED BY <1>2, <2>1 DEF Told, Foreign
  <1> QED BY <1>3, <1>4

\* The other devices and the clock: only the change table grows.
LEMMA WorldStep ==
    ASSUME WakeInv,
           \/ \E d \in Others : OtherStarts(d) \/ OtherSyncs(d) \/ OtherAsks(d) \/ OtherChanges(d)
           \/ \E d \in Devices : SessionExpires(d)
           \/ LateStart \/ LatePush \/ LateEnd
    PROVE  WakeInv'
  <1> USE DaemonAssumption DEF WakeInv
  <1>1. UNCHANGED <<local, watched, wake, feed, edits, faults>>
    BY DEF OtherStarts, OtherSyncs, OtherAsks, OtherChanges, SessionExpires, LateStart, LatePush, LateEnd, world
  <1>2. changes' = changes \/ \E d \in Devices : Record(d)
    BY DEF OtherStarts, OtherSyncs, OtherAsks, OtherChanges, SessionExpires, LateStart, LatePush, LateEnd, world, Others
  <1>3. starts' \in 0..MaxStarts
    BY DEF OtherStarts, OtherSyncs, OtherAsks, OtherChanges, SessionExpires, LateStart, LatePush,
           LateEnd, world, FeedTypeOK
  <1>4. changes' \in Seq(Devices) /\ Len(changes') >= Len(changes) /\ Len(changes) \in Nat /\ Len(changes') \in Nat
    BY <1>2, Appended DEF FeedTypeOK
  <1>5. FeedTypeOK'
    <2>1. Next
      BY DEF Next
    <2> QED BY <1>1, <1>3, <1>4, <2>1, CallsTyped DEF FeedTypeOK, local, watched, Feed
  <1>6. EndsPushed'
    BY <1>1 DEF EndsPushed, local
  <1>7. Told' \subseteq Told
    BY <1>1, <1>2, ToldStays DEF local
  <1>8. NoLostWakeup'
    BY <1>1, <1>7 DEF NoLostWakeup, Coming, local, watched
  <1> QED BY <1>5, <1>6, <1>8

\* The user, the watcher and the feed: whatever they tell of sets the event.
LEMMA TriggersStep ==
    ASSUME WakeInv, Edit \/ WatchLoop \/ FeedLoop \/ FeedStops
    PROVE  WakeInv'
  <1> USE DaemonAssumption DEF WakeInv
  <1>1. UNCHANGED <<changes, starts, local>>
    BY DEF Edit, WatchLoop, FeedLoop, FeedStops, world
  <1>2. EndsPushed' /\ waits' \subseteq Calls /\ late' \subseteq {"start", "change", "end"}
    <2>1. Next
      BY DEF Next
    <2> QED BY <1>1, <2>1, CallsTyped DEF EndsPushed, local
  <1>3. CASE Edit
    <2>1. FeedTypeOK'
      BY <1>1, <1>2, <1>3 DEF Edit, FeedTypeOK, local
    <2>2. NoLostWakeup'
      BY <1>1, <1>3, ToldStays DEF Edit, NoLostWakeup, Coming, local
    <2> QED BY <1>2, <2>1, <2>2
  <1>4. CASE WatchLoop
    <2>1. FeedTypeOK'
      <3>1. touched' \in BOOLEAN /\ wake' \in BOOLEAN
        BY <1>4 DEF WatchLoop
      <3>2. noticed' = edits /\ edits' = edits /\ faults' = faults /\ feed' = feed
        BY <1>4 DEF WatchLoop, world
      <3> QED BY <1>1, <1>2, <3>1, <3>2 DEF FeedTypeOK, local
    <2>2. NoLostWakeup'
      BY <1>4 DEF WatchLoop, NoLostWakeup, Coming
    <2> QED BY <1>2, <2>1, <2>2
  <1>5. CASE FeedStops
    <2>1. /\ feed' \in Feed /\ feed'.cursor = feed.cursor /\ feed'.boot = feed.boot
          /\ faults' \in 0..MaxFaults
      <3>1. feed \in Feed /\ feed' = [feed EXCEPT !.on = FALSE]
        BY <1>5 DEF FeedStops, FeedTypeOK
      <3>2. faults \in 0..MaxFaults /\ faults < MaxFaults /\ faults' = faults + 1
        BY <1>5 DEF FeedStops, Fault, FeedTypeOK
      <3>3. faults' \in 0..MaxFaults
        BY <3>2
      <3>4. feed' \in Feed /\ feed'.cursor = feed.cursor /\ feed'.boot = feed.boot
        BY <3>1 DEF Feed
      <3> QED BY <3>3, <3>4
    <2>2. FeedTypeOK'
      <3>1. UNCHANGED <<edits, watched, wake>>
        BY <1>5 DEF FeedStops
      <3>2. feed' \in Feed /\ feed'.cursor <= Len(changes')
        BY <1>1, <2>1 DEF FeedTypeOK
      <3>3. touched' \in BOOLEAN /\ wake' \in BOOLEAN /\ failed' \in BOOLEAN
        BY <1>1, <3>1 DEF FeedTypeOK, watched, local
      <3> QED BY <1>1, <1>2, <2>1, <3>1, <3>2, <3>3 DEF FeedTypeOK, local, watched
    <2>3. Told' = Told
      BY <1>1, <2>1 DEF Told, Foreign, local
    <2>4. NoLostWakeup'
      BY <1>1, <1>5, <2>3 DEF FeedStops, NoLostWakeup, Coming, local, watched
    <2> QED BY <1>2, <2>2, <2>4
  <1>6. CASE FeedLoop
    <2> DEFINE boots == feed.cursor = 0
               cursor == IF boots THEN LatestCursor ELSE LastRow(feed.cursor)
    <2>1. /\ feed \in Feed /\ feed.cursor <= Len(changes) /\ Len(changes) \in Nat
          /\ feed.cursor \in Nat /\ feed.boot \in Nat /\ Limit \in Nat
      BY DEF FeedTypeOK, Feed
    <2>2. cursor \in Nat /\ cursor <= Len(changes)
      BY <2>1 DEF LatestCursor, LastRow
    <2>3. /\ feed' = [feed EXCEPT !.cursor = cursor, !.boot = IF boots THEN LatestCursor ELSE feed.boot]
          /\ wake' = (wake \/ (~boots /\ Foreign(Since(feed.cursor)) # {}))
          /\ UNCHANGED <<watched, edits, faults>>
      BY <1>6 DEF FeedLoop, world
    <2>4. feed'.cursor = cursor /\ feed'.boot = (IF boots THEN LatestCursor ELSE feed.boot)
      BY <2>1, <2>3 DEF Feed
    <2>5. feed' \in Feed
      BY <2>1, <2>2, <2>3 DEF Feed, LatestCursor
    <2>6. FeedTypeOK'
      <3>1. wake' \in BOOLEAN
        BY <2>3 DEF FeedTypeOK
      <3> QED BY <1>1, <1>2, <2>2, <2>3, <2>4, <2>5, <3>1 DEF FeedTypeOK, local, watched
    <2>7. CASE boots
      <3>1. Told' = {}
        <4>1. DOMAIN changes' = 1..Len(changes)
          BY <1>1 DEF FeedTypeOK
        <4>2. feed'.cursor = Len(changes) /\ feed'.boot = Len(changes)
          BY <2>4, <2>7 DEF LatestCursor
        <4> QED BY <2>1, <4>1, <4>2 DEF Told, Foreign
      <3> QED BY <1>1, <1>2, <2>3, <2>6, <2>7, <3>1 DEF NoLostWakeup, Coming, local, watched
    <2>8. CASE ~boots /\ Foreign(Since(feed.cursor)) = {}
      <3>1. Told' \subseteq Told
        <4> SUFFICES ASSUME NEW n \in Told' PROVE n \in Told
          OBVIOUS
        <4>1. /\ n \in DOMAIN changes /\ changes[n] # Me /\ feed.boot < n /\ n <= cursor /\ n > pulled
          BY <1>1, <2>4, <2>8 DEF Told, Foreign, local
        <4>2. DOMAIN changes = 1..Len(changes)
          BY DEF FeedTypeOK
        <4>3. n <= feed.cursor
          BY <4>1, <4>2, <2>1, <2>8 DEF Since, Foreign
        <4> QED BY <4>1, <4>3 DEF Told, Foreign
      <3>2. wake' = wake
        BY <2>3, <2>8 DEF FeedTypeOK
      <3> QED BY <1>1, <1>2, <2>3, <2>6, <3>1, <3>2 DEF NoLostWakeup, Coming, local, watched
    <2>9. CASE ~boots /\ Foreign(Since(feed.cursor)) # {}
      <3>1. wake'
        BY <2>3, <2>9
      <3> QED BY <1>2, <2>6, <3>1 DEF NoLostWakeup, Coming
    <2> QED BY <2>7, <2>8, <2>9
  <1> QED BY <1>3, <1>4, <1>5, <1>6

\* The loop: between the clearing of the event and the scan a pass is on its way, and
\* what comes in later sets the event again.
LEMMA LoopStep ==
    ASSUME WakeInv, Loop
    PROVE  WakeInv'
  <1> USE DaemonAssumption DEF WakeInv
  <1>1. UNCHANGED <<starts, edits, faults, feed, noticed>>
    BY DEF Loop, PollTimer, Triggered, Clear, StartPass, StartGoesOn, Scan, List, Pull, Push,
           PushRefused, EndPass, world, watched
  <1>2. changes' = changes \/ \E d \in Devices : Record(d)
    BY DEF Loop, PollTimer, Triggered, Clear, StartPass, StartGoesOn, Scan, List, Pull, Push,
           PushRefused, EndPass, world
  <1>3. /\ changes' \in Seq(Devices) /\ Len(changes') >= Len(changes)
        /\ Len(changes) \in Nat /\ Len(changes') \in Nat
    BY <1>2, Appended DEF FeedTypeOK
  <1>4. touched' \in BOOLEAN /\ wake' \in BOOLEAN /\ failed' \in BOOLEAN
    BY DEF Loop, PollTimer, Triggered, Clear, StartPass, StartGoesOn, Scan, List, Pull, Push,
           PushRefused, EndPass, Fails, watched, FeedTypeOK
  <1>5. pc' \in {"wait", "clear", "begin", "start", "scan", "list", "work", "end"}
    BY DEF Loop, PollTimer, Triggered, Clear, StartPass, StartGoesOn, Scan, List, Pull, Push,
           PushRefused, EndPass, Fails, Goes, FeedTypeOK
  <1>6. /\ pushed' <= scanned' /\ scanned' <= edits /\ pulled' <= listed' /\ listed' <= Len(changes')
        /\ scanned' \in Nat /\ listed' \in Nat /\ pushed' \in Nat /\ pulled' \in Nat
    <2>1. CASE Scan
      BY <1>3, <2>1 DEF Scan, FeedTypeOK, world
    <2>2. CASE List
      BY <1>3, <2>2 DEF List, LatestCursor, FeedTypeOK, world
    <2>3. CASE Push
      BY <1>3, <2>3 DEF Push, FeedTypeOK
    <2>4. CASE EndPass
      BY <1>3, <2>4 DEF EndPass, FeedTypeOK
    <2>5. CASE PollTimer \/ Triggered \/ Clear \/ StartPass \/ StartGoesOn \/ Pull \/ PushRefused
      BY <1>3, <2>5 DEF PollTimer, Triggered, Clear, StartPass, StartGoesOn, Pull, PushRefused, FeedTypeOK
    <2> QED BY <2>1, <2>2, <2>3, <2>4, <2>5 DEF Loop
  <1>7. FeedTypeOK'
    <2>1. edits' = edits /\ starts' = starts /\ faults' = faults /\ noticed' = noticed /\ feed' = feed
      BY <1>1
    <2>2. noticed' \in 0..edits' /\ starts' \in 0..MaxStarts /\ faults' \in 0..MaxFaults
             /\ edits' \in 0..MaxEdits
      BY <2>1 DEF FeedTypeOK
    <2>3. feed' \in Feed /\ feed'.cursor <= Len(changes')
      <3>1. feed.cursor \in Nat /\ feed.cursor <= Len(changes) /\ feed \in Feed
        BY DEF FeedTypeOK, Feed
      <3> QED BY <2>1, <3>1, <1>3
    <2>4. scanned' <= edits'
      BY <2>1, <1>6
    <2>5. Next
      BY DEF Next
    <2> QED BY <2>2, <2>3, <2>4, <2>5, <1>3, <1>4, <1>5, <1>6, CallsTyped DEF FeedTypeOK
  <1>8. EndsPushed' /\ NoLostWakeup'
    <2>1. CASE PollTimer \/ Triggered \/ Clear \/ StartPass \/ PushRefused
      <3>1. pc' \in {"begin", "clear", "start"} \/ (pc' = "wait" /\ failed')
        BY <2>1 DEF PollTimer, Triggered, Clear, StartPass, PushRefused, Goes, Fails
      <3> QED BY <3>1 DEF EndsPushed, NoLostWakeup, Coming
    <2>2. CASE StartGoesOn
      <3>1. UNCHANGED <<changes, wake, feed, noticed, failed, scanned, listed, pushed, pulled>>
        BY <2>2 DEF StartGoesOn, world, watched
      <3>2. pc' = pc \/ pc' = "scan"
        BY <2>2 DEF StartGoesOn
      <3>3. Told' = Told
        BY <3>1 DEF Told, Foreign
      <3> QED BY <3>1, <3>2, <3>3 DEF EndsPushed, NoLostWakeup, Coming
    <2>3. CASE Scan
      BY <2>3 DEF Scan, Goes, EndsPushed, NoLostWakeup, Coming, watched, FeedTypeOK
    <2>4. CASE List
      <3>1. UNCHANGED <<changes, wake, feed, noticed, failed, scanned, pushed, pulled>>
        BY <2>4 DEF List, world, watched
      <3>2. pc = "list" /\ pc' = "work" /\ listed' = Len(changes)
        BY <2>4 DEF List, Goes, LatestCursor
      <3>3. \A n \in Told' : n <= listed'
        BY <1>3, <3>1, <3>2 DEF Told, Foreign, FeedTypeOK, Feed
      <3> QED BY <3>1, <3>2, <3>3 DEF EndsPushed, NoLostWakeup, Coming
    <2>5. CASE Pull
      <3>1. UNCHANGED <<changes, wake, feed, noticed, failed, scanned, listed, pushed, pulled>>
        BY <2>5 DEF Pull, world
      <3>2. pc = "work" /\ pc' = "end" /\ scanned = pushed
        BY <2>5 DEF Pull, Goes
      <3>3. Told' = Told
        BY <3>1 DEF Told, Foreign
      <3> QED BY <3>1, <3>2, <3>3 DEF EndsPushed, NoLostWakeup, Coming
    <2>6. CASE Push
      <3>1. /\ UNCHANGED <<wake, feed, noticed, failed, scanned, listed, pulled, pc>> /\ pc = "work"
            /\ pushed' = pushed \/ pushed' = scanned
        BY <2>6 DEF Push, watched
      <3>2. Told' \subseteq Told
        BY <1>2, <3>1, ToldStays
      <3>3. noticed > pushed' => noticed > pushed
        BY <3>1 DEF FeedTypeOK
      <3> QED BY <3>1, <3>2, <3>3 DEF EndsPushed, NoLostWakeup, Coming
    <2>7. CASE EndPass
      <3>1. /\ UNCHANGED <<changes, wake, feed, noticed, scanned, pushed>>
            /\ pc = "end" /\ pc' = "wait" /\ pulled' = listed
        BY <2>7 DEF EndPass, Goes, world, watched
      <3>2. \A n \in Told' : n \in Told /\ n > listed /\ n \in Nat
        BY <1>3, <3>1 DEF Told, Foreign, FeedTypeOK
      <3>3. \A n \in Told' : wake
        BY <3>1, <3>2 DEF NoLostWakeup, Coming, FeedTypeOK
      <3>4. noticed > pushed => wake
        BY <3>1 DEF NoLostWakeup, Coming, EndsPushed, FeedTypeOK
      <3> QED BY <3>1, <3>3, <3>4 DEF EndsPushed, NoLostWakeup, Coming
    <2> QED BY <2>1, <2>2, <2>3, <2>4, <2>5, <2>6, <2>7 DEF Loop
  <1> QED BY <1>7, <1>8

\* Every step keeps the invariant: a pass that fails says so, a restart begins a pass.
LEMMA WakeStep == WakeInv /\ [Next]_vars => WakeInv'
  <1> SUFFICES ASSUME WakeInv, [Next]_vars PROVE WakeInv'
    OBVIOUS
  <1> USE DaemonAssumption DEF WakeInv
  <1>1. CASE PassFails \/ Restart
    <2>1. /\ UNCHANGED <<changes, starts, edits, scanned, listed, pushed, pulled>>
          /\ pc' = "begin" \/ (pc' = "wait" /\ failed')
      BY <1>1 DEF PassFails, Restart, Fails
    <2>2. faults' \in 0..MaxFaults
      BY <1>1 DEF PassFails, Restart, Fault, FeedTypeOK
    <2>3. touched' \in BOOLEAN /\ wake' \in BOOLEAN /\ failed' \in BOOLEAN
      BY <1>1 DEF PassFails, Restart, Fails, watched, FeedTypeOK
    <2>4. noticed' \in 0..edits /\ feed' \in Feed /\ feed'.cursor <= Len(changes)
      <3>1. CASE PassFails
        BY <3>1 DEF PassFails, watched, FeedTypeOK
      <3>2. CASE Restart
        <4>1. noticed' = 0 /\ feed' = FeedStarts
          BY <3>2 DEF Restart
        <4>2. FeedStarts \in Feed /\ FeedStarts.cursor = 0
          BY DEF Feed, FeedStarts
        <4> QED BY <4>1, <4>2 DEF FeedTypeOK
      <3> QED BY <1>1, <3>1, <3>2
    <2>5. FeedTypeOK'
      <3>1. Next
        BY <1>1 DEF Next
      <3> QED BY <2>1, <2>2, <2>3, <2>4, <3>1, CallsTyped DEF FeedTypeOK
    <2> QED BY <2>1, <2>5 DEF EndsPushed, NoLostWakeup, Coming
  <1>2. CASE UNCHANGED vars
    BY <1>2 DEF vars, local, world, watched, FeedTypeOK, EndsPushed, NoLostWakeup, Coming, Told, Foreign
  <1> QED BY <1>1, <1>2, WorldStep, TriggersStep, LoopStep DEF Next

\* At first nothing has been told.
LEMMA WakeInit == Init => WakeInv
  <1> SUFFICES ASSUME Init PROVE WakeInv
    OBVIOUS
  <1>1. FeedStarts \in Feed /\ FeedStarts.cursor = 0
    BY DEF Feed, FeedStarts
  <1>2. changes \in Seq(Devices) /\ Len(changes) = 0
    BY DEF Init
  <1>3. touched \in BOOLEAN /\ wake \in BOOLEAN /\ failed \in BOOLEAN
    BY DEF Init
  <1>4. FeedTypeOK
    BY <1>1, <1>2, <1>3, DaemonAssumption DEF Init, FeedTypeOK
  <1>5. pc = "begin"
    BY DEF Init
  <1> QED BY <1>4, <1>5 DEF WakeInv, EndsPushed, NoLostWakeup, Coming

\* What the watcher or the feed has told of is never forgotten, whatever the order of the
\* threads, the restarts, the limit of an answer and the other devices' turns.
THEOREM NoWakeupIsLost == Spec => []NoLostWakeup
  <1>1. WakeInv => NoLostWakeup
    BY DEF WakeInv
  <1> QED BY <1>1, WakeInit, WakeStep, PTL DEF Spec

\* The daemon's variables have their types, the lock's among them.
THEOREM DaemonTypeCorrect == Spec => []TypeOK
  <1>1. WakeInv /\ LockInv => TypeOK
    BY DEF WakeInv, LockInv, TypeOK
  <1> QED BY <1>1, WakeInit, WakeStep, UsesTheLock, LockInvariant, PTL DEF Spec
==============================================================================
