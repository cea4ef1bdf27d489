-------------------------- MODULE RuleEngineProofs --------------------------
(***************************************************************************)
(* Proofs about RuleEngine, for every set of instances, any sharing of     *)
(* PIDs and images among them, and any limits.                             *)
(***************************************************************************)
EXTENDS RuleEngine, TLAPS

USE InstancesAssumption, LimitsAssumption

(* The inductive invariant. *)

(* Who holds the gate has the scan, the visit and the batch to itself. *)
GateShape ==
    /\ gate \in {"free", "pass"} => todo = {} /\ visit = NoVisit
    /\ gate # "apply" => expected = NoInstance
    /\ batch # {} => gate = "pass"
    /\ batch \subseteq Pending

(* Counters with bounds, and the event that only shutdown sets. *)
Limits ==
    /\ owed["power"] <= generation
    /\ shutdown_event => shutting_down

(* The PID of a running instance stands for it; entries, visits and stop    *)
(* events are of instances that did start; what is stopped is not running.  *)
Identity ==
    /\ \A i \in alive : occupant[PidOf[i]] = i
    /\ \A p \in Pids : occupant[p] \in born \cup {NoInstance}
    /\ applied \subseteq born /\ removable \subseteq born
    /\ visit # NoVisit => visit.instance \in born
    /\ \A i \in Instances : <<"stop", i>> \in events => i \in born \ alive

(* A profile that changed after a visit read it has a scan coming. *)
VisitIsCurrent ==
    shutting_down \/ visit = NoVisit \/ visit.generation = generation \/ owed["power"] > 0

(* A full scan still has to visit every running instance it may remove. *)
ScanCovers ==
    gate = "scan" => \A i \in removable \cap alive :
        PidOf[i] \in todo \/ visit.instance = i \/ i \in excused

(* NoProcessMissed, where a visit counts only for the instance it expects. *)
VisitReaches(i) ==
    \/ ~etw \/ owed["startup"] > 0 \/ owed["lost"] > 0 \/ <<"start", i>> \in events
    \/ PidOf[i] \in todo /\ expected \in {NoInstance, i}
    \/ visit.instance = i

EveryProcessReached ==
    shutting_down \/ \A i \in alive :
        HasRule(i) => i \in applied \/ i \in excused \/ VisitReaches(i)

IInv ==
    /\ TypeOK /\ GateShape /\ Limits /\ Identity /\ VisitIsCurrent /\ ScanCovers
    /\ EntryIsWatched /\ StaleSignatureIsRescanned /\ OnlyOwnPolicy /\ EveryProcessReached
-----------------------------------------------------------------------------
(* What the delivery of an event does, whatever the visit makes of it. *)
Delivered(kind, i) ==
    /\ gate = "free" /\ ~shutting_down
    /\ <<kind, i>> \in events /\ events' = events \ {<<kind, i>>}
    /\ UNCHANGED <<windows, etw, profile, watchers, pass, stop, foreign>>

(* Route reduces the kinds of event and the fields that can be read to a    *)
(* visit of a start, a removal for a stop, or nothing.                      *)
LEMMA EventCases ==
    ASSUME NEW kind \in {"start", "stop"}, NEW i \in Instances, HandleEvent(kind, i)
    PROVE  /\ Delivered(kind, i)
           /\ \/ kind = "start" /\ \E exact \in BOOLEAN : ApplyToPid(i, exact)
              \/ kind = "stop" /\ RemoveProcessKey(i)
              \/ IgnoreEvent(kind, i)
<1>1. PICK provider \in {"classic", "modern"}, fields \in SUBSET EventFields :
          LET action == Route(kind, provider, Decoded(provider, fields)) IN
          \/ action = "ApplyClassic" /\ ApplyToPid(i, FALSE)
          \/ action = "ApplyExact" /\ ApplyToPid(i, TRUE)
          \/ action = "RemoveExact" /\ RemoveProcessKey(i)
          \/ action = "Ignore" /\ IgnoreEvent(kind, i)
  BY DEF HandleEvent
<1>2. ASSUME NEW d \in BOOLEAN
      PROVE  /\ Route(kind, provider, d) \in {"ApplyClassic", "ApplyExact"} => kind = "start"
             /\ Route(kind, provider, d) = "RemoveExact" => kind = "stop"
  BY DEF Route
<1>3. Decoded(provider, fields) \in BOOLEAN
  BY DEF Decoded
<1> QED BY <1>1, <1>2, <1>3 DEF HandleEvent, Delivered, MayEnter

(* Types, with the batch that keeps counters at their limit. *)
LEMMA NextTypeOK == TypeOK /\ GateShape /\ Limits /\ [Next]_vars => TypeOK'
<1> SUFFICES ASSUME TypeOK, GateShape, Limits, [Next]_vars PROVE TypeOK'
  OBVIOUS
<1> USE DEF TypeOK, GateShape, Limits, Pids, Reasons, Visits, NoVisit, Events, Pending, shutting_down,
            windows, trace, profile, table, op, pass, stop, history
<1>1. ASSUME NEW i \in Instances, StartProcess(i) PROVE TypeOK'
  BY <1>1 DEF StartProcess
<1>2. ASSUME NEW i \in Instances, ExitProcess(i) PROVE TypeOK'
  BY <1>2 DEF ExitProcess
<1>3. ASSUME NEW e \in Events, LoseEvent(e) PROVE TypeOK'
  BY <1>3 DEF LoseEvent
<1>4. CASE StartMonitor
  BY <1>4 DEF StartMonitor
<1>5. CASE SetPowerProfile
  BY <1>5 DEF SetPowerProfile
<1>6. CASE BeginShutdown
  BY <1>6 DEF BeginShutdown
<1>7. ASSUME NEW i \in Instances, NEW kind \in {"start", "stop"}, HandleEvent(kind, i)
      PROVE  TypeOK'
  <2> Delivered(kind, i)
    BY <1>7, EventCases
  <2>1. CASE kind = "start" /\ \E exact \in BOOLEAN : ApplyToPid(i, exact)
    BY <2>1 DEF Delivered, ApplyToPid
  <2>2. CASE kind = "stop" /\ RemoveProcessKey(i)
    BY <2>2 DEF Delivered, RemoveProcessKey, RemoveKey
  <2>3. CASE IgnoreEvent(kind, i)
    BY <2>3 DEF Delivered, IgnoreEvent
  <2> QED BY <1>7, <2>1, <2>2, <2>3, EventCases
<1>8. ASSUME NEW r \in Reasons, BeginScan(r) PROVE TypeOK'
  BY <1>8 DEF BeginScan, Snapshot, MayEnter
<1>9. ASSUME NEW r \in Reasons, ScanFails(r) PROVE TypeOK'
  BY <1>9 DEF ScanFails
<1>10. ASSUME NEW r \in Reasons, ScanRefused(r) PROVE TypeOK'
  BY <1>10 DEF ScanRefused
<1>11. CASE LeaveGate
  BY <1>11 DEF LeaveGate
<1>12. CASE EndPass
  BY <1>12 DEF EndPass, Snapshot
<1>13. ASSUME NEW p \in Pids, ResolvePid(p) PROVE TypeOK'
  <2>1. PICK rule \in {HasRule(occupant[p]), FALSE} :
            visit' = [instance |-> occupant[p], generation |-> generation, rule |-> rule]
    BY <1>13 DEF ResolvePid
  <2>2. occupant[p] \in Instances
    BY <1>13 DEF ResolvePid
  <2>3. HasRule(occupant[p]) \in BOOLEAN
    BY DEF HasRule
  <2>4. rule \in BOOLEAN
    BY <2>3, Zenon
  <2>5. visit' \in Visits
    BY <2>1, <2>2, <2>4
  <2> QED BY <1>13, <2>5 DEF ResolvePid
<1>14. ASSUME NEW p \in Pids, SkipPid(p) PROVE TypeOK'
  BY <1>14 DEF SkipPid
<1>15. ASSUME NEW i \in Instances, EndVisit(i) PROVE TypeOK'
  <2> visit.instance = i /\ visit # NoVisit
    BY <1>15 DEF EndVisit
  <2>1. CASE UpdateEntry(i)
    BY <1>15, <2>1 DEF EndVisit, UpdateEntry, Observed
  <2>2. CASE InsertEntry(i)
    BY <1>15, <2>2 DEF EndVisit, InsertEntry, Observed
  <2>3. CASE WatchFails(i)
    BY <1>15, <2>3 DEF EndVisit, WatchFails
  <2>4. CASE UntrackIfNoActiveRule(i)
    BY <1>15, <2>4 DEF EndVisit, UntrackIfNoActiveRule, RemoveKey, Observed
  <2> QED BY <1>15, <2>1, <2>2, <2>3, <2>4 DEF EndVisit
<1>16. ASSUME NEW i \in Instances, RemoveUnobserved(i) PROVE TypeOK'
  BY <1>16 DEF RemoveUnobserved, RemoveKey
<1>17. ASSUME NEW i \in Instances, CheckKey(i) PROVE TypeOK'
  <2>1. checks' \in [Instances -> 0..MaxChecks]
    <3>1. i \in Pending
      BY <1>17 DEF CheckKey
    <3>2. checks[i] + 1 \in 0..MaxChecks
      BY <3>1
    <3>3. checks' = [checks EXCEPT ![i] = checks[i] + 1]
      BY <1>17 DEF CheckKey
    <3> QED BY <3>2, <3>3
  <2>2. foreign' \subseteq Instances /\ drift' \in BOOLEAN /\ batch' \subseteq Instances
    BY <1>17 DEF CheckKey, CheckIdentity, Repair
  <2>3. UNCHANGED <<windows, trace, profile, applied, signature, watchers, op, worker, stop, excused, deaf>>
    BY <1>17 DEF CheckKey
  <2> QED BY <2>1, <2>2, <2>3
<1>18. CASE BeginPass
  BY <1>18 DEF BeginPass, MayEnter
<1>19. CASE JoinThreads
  BY <1>19 DEF JoinThreads
<1>20. ASSUME NEW i \in Instances, WatcherSignaled(i) PROVE TypeOK'
  BY <1>20 DEF WatcherSignaled, RemoveKey
<1>21. ASSUME NEW i \in Instances, WatcherShutdown(i) PROVE TypeOK'
  BY <1>21 DEF WatcherShutdown
<1>22. ASSUME NEW i \in Instances, WatcherUnexpected(i) PROVE TypeOK'
  BY <1>22 DEF WatcherUnexpected
<1>23. CASE UNCHANGED vars
  BY <1>23 DEF vars
<1> QED BY <1>1, <1>2, <1>3, <1>4, <1>5, <1>6, <1>7, <1>8, <1>9, <1>10, <1>11, <1>12,
           <1>13, <1>14, <1>15, <1>16, <1>17, <1>18, <1>19, <1>20, <1>21, <1>22, <1>23
       DEF Next, Windows, Callers, GateStep, Watcher

(* The gate, the counters and the shutdown event. *)
LEMMA NextShape ==
    TypeOK /\ GateShape /\ Limits /\ [Next]_vars
    => (GateShape /\ Limits)'
<1> SUFFICES ASSUME TypeOK, GateShape, Limits, [Next]_vars PROVE (GateShape /\ Limits)'
  OBVIOUS
<1> USE DEF TypeOK, GateShape, Limits, Pids, Reasons, NoVisit, Events, Pending, shutting_down,
            windows, trace, profile, table, op, pass, stop, history
<1>1. ASSUME NEW i \in Instances, StartProcess(i) PROVE (GateShape /\ Limits)'
  BY <1>1 DEF StartProcess
<1>2. ASSUME NEW i \in Instances, ExitProcess(i) PROVE (GateShape /\ Limits)'
  BY <1>2 DEF ExitProcess
<1>3. ASSUME NEW e \in Events, LoseEvent(e) PROVE (GateShape /\ Limits)'
  BY <1>3 DEF LoseEvent
<1>4. CASE StartMonitor
  BY <1>4 DEF StartMonitor
<1>5. CASE SetPowerProfile
  BY <1>5 DEF SetPowerProfile
<1>6. CASE BeginShutdown
  BY <1>6 DEF BeginShutdown
<1>7. ASSUME NEW i \in Instances, NEW kind \in {"start", "stop"}, HandleEvent(kind, i)
      PROVE  (GateShape /\ Limits)'
  <2> Delivered(kind, i)
    BY <1>7, EventCases
  <2>1. CASE kind = "start" /\ \E exact \in BOOLEAN : ApplyToPid(i, exact)
    BY <2>1 DEF Delivered, ApplyToPid
  <2>2. CASE kind = "stop" /\ RemoveProcessKey(i)
    BY <2>2 DEF Delivered, RemoveProcessKey, RemoveKey
  <2>3. CASE IgnoreEvent(kind, i)
    BY <2>3 DEF Delivered, IgnoreEvent
  <2> QED BY <1>7, <2>1, <2>2, <2>3, EventCases
<1>8. ASSUME NEW r \in Reasons, BeginScan(r) PROVE (GateShape /\ Limits)'
  BY <1>8 DEF BeginScan, MayEnter
<1>9. ASSUME NEW r \in Reasons, ScanFails(r) PROVE (GateShape /\ Limits)'
  BY <1>9 DEF ScanFails, MayEnter
<1>10. ASSUME NEW r \in Reasons, ScanRefused(r) PROVE (GateShape /\ Limits)'
  BY <1>10 DEF ScanRefused
<1>11. CASE LeaveGate
  BY <1>11 DEF LeaveGate
<1>12. CASE EndPass
  BY <1>12 DEF EndPass
<1>13. ASSUME NEW p \in Pids, ResolvePid(p) PROVE (GateShape /\ Limits)'
  BY <1>13 DEF ResolvePid
<1>14. ASSUME NEW p \in Pids, SkipPid(p) PROVE (GateShape /\ Limits)'
  BY <1>14 DEF SkipPid
<1>15. ASSUME NEW i \in Instances, EndVisit(i) PROVE (GateShape /\ Limits)'
  <2> visit.instance = i /\ visit # NoVisit
    BY <1>15 DEF EndVisit
  <2>1. CASE UpdateEntry(i)
    BY <1>15, <2>1 DEF EndVisit, UpdateEntry, Observed
  <2>2. CASE InsertEntry(i)
    BY <1>15, <2>2 DEF EndVisit, InsertEntry, Observed
  <2>3. CASE WatchFails(i)
    BY <1>15, <2>3 DEF EndVisit, WatchFails
  <2>4. CASE UntrackIfNoActiveRule(i)
    BY <1>15, <2>4 DEF EndVisit, UntrackIfNoActiveRule, RemoveKey, Observed
  <2> QED BY <1>15, <2>1, <2>2, <2>3, <2>4 DEF EndVisit
<1>16. ASSUME NEW i \in Instances, RemoveUnobserved(i) PROVE (GateShape /\ Limits)'
  BY <1>16 DEF RemoveUnobserved, RemoveKey
<1>17. ASSUME NEW i \in Instances, CheckKey(i) PROVE (GateShape /\ Limits)'
  BY <1>17 DEF CheckKey, CheckIdentity, Repair
<1>18. CASE BeginPass
  BY <1>18 DEF BeginPass, MayEnter
<1>19. CASE JoinThreads
  BY <1>19 DEF JoinThreads
<1>20. ASSUME NEW i \in Instances, WatcherSignaled(i) PROVE (GateShape /\ Limits)'
  BY <1>20 DEF WatcherSignaled, RemoveKey
<1>21. ASSUME NEW i \in Instances, WatcherShutdown(i) PROVE (GateShape /\ Limits)'
  BY <1>21 DEF WatcherShutdown
<1>22. ASSUME NEW i \in Instances, WatcherUnexpected(i) PROVE (GateShape /\ Limits)'
  BY <1>22 DEF WatcherUnexpected
<1>23. CASE UNCHANGED vars
  BY <1>23 DEF vars
<1> QED BY <1>1, <1>2, <1>3, <1>4, <1>5, <1>6, <1>7, <1>8, <1>9, <1>10, <1>11, <1>12,
           <1>13, <1>14, <1>15, <1>16, <1>17, <1>18, <1>19, <1>20, <1>21, <1>22, <1>23
       DEF Next, Windows, Callers, GateStep, Watcher

(* Instances and their PIDs. *)
LEMMA NextIdentity ==
    TypeOK /\ GateShape /\ Identity /\ [Next]_vars
    => Identity'
<1> SUFFICES ASSUME TypeOK, GateShape, Identity, [Next]_vars PROVE Identity'
  OBVIOUS
<1> USE DEF TypeOK, GateShape, Identity, Pids, NoVisit, Events, Pending,
            windows, trace, profile, table, op, pass, stop, history
<1>1. ASSUME NEW i \in Instances, StartProcess(i) PROVE Identity'
  BY <1>1 DEF StartProcess
<1>2. ASSUME NEW i \in Instances, ExitProcess(i) PROVE Identity'
  BY <1>2 DEF ExitProcess
<1>3. ASSUME NEW e \in Events, LoseEvent(e) PROVE Identity'
  BY <1>3 DEF LoseEvent
<1>4. CASE StartMonitor
  BY <1>4 DEF StartMonitor
<1>5. CASE SetPowerProfile
  BY <1>5 DEF SetPowerProfile
<1>6. CASE BeginShutdown
  BY <1>6 DEF BeginShutdown
<1>7. ASSUME NEW i \in Instances, NEW kind \in {"start", "stop"}, HandleEvent(kind, i)
      PROVE  Identity'
  <2> Delivered(kind, i)
    BY <1>7, EventCases
  <2>1. CASE kind = "start" /\ \E exact \in BOOLEAN : ApplyToPid(i, exact)
    BY <2>1 DEF Delivered, ApplyToPid
  <2>2. CASE kind = "stop" /\ RemoveProcessKey(i)
    BY <2>2 DEF Delivered, RemoveProcessKey, RemoveKey
  <2>3. CASE IgnoreEvent(kind, i)
    BY <2>3 DEF Delivered, IgnoreEvent
  <2> QED BY <1>7, <2>1, <2>2, <2>3, EventCases
<1>8. ASSUME NEW r \in Reasons, BeginScan(r) PROVE Identity'
  BY <1>8 DEF BeginScan, MayEnter
<1>9. ASSUME NEW r \in Reasons, ScanFails(r) PROVE Identity'
  BY <1>9 DEF ScanFails
<1>10. ASSUME NEW r \in Reasons, ScanRefused(r) PROVE Identity'
  BY <1>10 DEF ScanRefused
<1>11. CASE LeaveGate
  BY <1>11 DEF LeaveGate
<1>12. CASE EndPass
  BY <1>12 DEF EndPass
<1>13. ASSUME NEW p \in Pids, ResolvePid(p) PROVE Identity'
  BY <1>13 DEF ResolvePid
<1>14. ASSUME NEW p \in Pids, SkipPid(p) PROVE Identity'
  BY <1>14 DEF SkipPid
<1>15. ASSUME NEW i \in Instances, EndVisit(i) PROVE Identity'
  <2> visit.instance = i /\ visit # NoVisit
    BY <1>15 DEF EndVisit
  <2>1. CASE UpdateEntry(i)
    BY <1>15, <2>1 DEF EndVisit, UpdateEntry, Observed
  <2>2. CASE InsertEntry(i)
    BY <1>15, <2>2 DEF EndVisit, InsertEntry, Observed
  <2>3. CASE WatchFails(i)
    BY <1>15, <2>3 DEF EndVisit, WatchFails
  <2>4. CASE UntrackIfNoActiveRule(i)
    BY <1>15, <2>4 DEF EndVisit, UntrackIfNoActiveRule, RemoveKey, Observed
  <2> QED BY <1>15, <2>1, <2>2, <2>3, <2>4 DEF EndVisit
<1>16. ASSUME NEW i \in Instances, RemoveUnobserved(i) PROVE Identity'
  BY <1>16 DEF RemoveUnobserved, RemoveKey
<1>17. ASSUME NEW i \in Instances, CheckKey(i) PROVE Identity'
  BY <1>17 DEF CheckKey, CheckIdentity, Repair
<1>18. CASE BeginPass
  BY <1>18 DEF BeginPass, MayEnter
<1>19. CASE JoinThreads
  BY <1>19 DEF JoinThreads
<1>20. ASSUME NEW i \in Instances, WatcherSignaled(i) PROVE Identity'
  BY <1>20 DEF WatcherSignaled, RemoveKey
<1>21. ASSUME NEW i \in Instances, WatcherShutdown(i) PROVE Identity'
  BY <1>21 DEF WatcherShutdown
<1>22. ASSUME NEW i \in Instances, WatcherUnexpected(i) PROVE Identity'
  BY <1>22 DEF WatcherUnexpected
<1>23. CASE UNCHANGED vars
  BY <1>23 DEF vars
<1> QED BY <1>1, <1>2, <1>3, <1>4, <1>5, <1>6, <1>7, <1>8, <1>9, <1>10, <1>11, <1>12,
           <1>13, <1>14, <1>15, <1>16, <1>17, <1>18, <1>19, <1>20, <1>21, <1>22, <1>23
       DEF Next, Windows, Callers, GateStep, Watcher

(* An entry gets its watcher with it and loses it with the entry. *)
LEMMA NextWatched ==
    TypeOK /\ Limits /\ EntryIsWatched /\ [Next]_vars
    => EntryIsWatched'
<1> SUFFICES ASSUME TypeOK, Limits, EntryIsWatched, [Next]_vars PROVE EntryIsWatched'
  OBVIOUS
<1> USE DEF TypeOK, Limits, EntryIsWatched, shutting_down,
            windows, trace, profile, table, op, pass, stop, history
<1>1. ASSUME NEW i \in Instances, StartProcess(i) PROVE EntryIsWatched'
  BY <1>1 DEF StartProcess
<1>2. ASSUME NEW i \in Instances, ExitProcess(i) PROVE EntryIsWatched'
  BY <1>2 DEF ExitProcess
<1>3. ASSUME NEW e \in Events, LoseEvent(e) PROVE EntryIsWatched'
  BY <1>3 DEF LoseEvent
<1>4. CASE StartMonitor
  BY <1>4 DEF StartMonitor
<1>5. CASE SetPowerProfile
  BY <1>5 DEF SetPowerProfile
<1>6. CASE BeginShutdown
  BY <1>6 DEF BeginShutdown
<1>7. ASSUME NEW i \in Instances, NEW kind \in {"start", "stop"}, HandleEvent(kind, i)
      PROVE  EntryIsWatched'
  <2> Delivered(kind, i)
    BY <1>7, EventCases
  <2>1. CASE kind = "start" /\ \E exact \in BOOLEAN : ApplyToPid(i, exact)
    BY <2>1 DEF Delivered, ApplyToPid
  <2>2. CASE kind = "stop" /\ RemoveProcessKey(i)
    BY <2>2 DEF Delivered, RemoveProcessKey, RemoveKey
  <2>3. CASE IgnoreEvent(kind, i)
    BY <2>3 DEF Delivered, IgnoreEvent
  <2> QED BY <1>7, <2>1, <2>2, <2>3, EventCases
<1>8. ASSUME NEW r \in Reasons, BeginScan(r) PROVE EntryIsWatched'
  BY <1>8 DEF BeginScan, MayEnter
<1>9. ASSUME NEW r \in Reasons, ScanFails(r) PROVE EntryIsWatched'
  BY <1>9 DEF ScanFails
<1>10. ASSUME NEW r \in Reasons, ScanRefused(r) PROVE EntryIsWatched'
  BY <1>10 DEF ScanRefused
<1>11. CASE LeaveGate
  BY <1>11 DEF LeaveGate
<1>12. CASE EndPass
  BY <1>12 DEF EndPass
<1>13. ASSUME NEW p \in Pids, ResolvePid(p) PROVE EntryIsWatched'
  BY <1>13 DEF ResolvePid
<1>14. ASSUME NEW p \in Pids, SkipPid(p) PROVE EntryIsWatched'
  BY <1>14 DEF SkipPid
<1>15. ASSUME NEW i \in Instances, EndVisit(i) PROVE EntryIsWatched'
  <2> visit.instance = i /\ visit # NoVisit
    BY <1>15 DEF EndVisit
  <2>1. CASE UpdateEntry(i)
    BY <1>15, <2>1 DEF EndVisit, UpdateEntry, Observed
  <2>2. CASE InsertEntry(i)
    BY <1>15, <2>2 DEF EndVisit, InsertEntry, Observed
  <2>3. CASE WatchFails(i)
    BY <1>15, <2>3 DEF EndVisit, WatchFails
  <2>4. CASE UntrackIfNoActiveRule(i)
    BY <1>15, <2>4 DEF EndVisit, UntrackIfNoActiveRule, RemoveKey, Observed
  <2> QED BY <1>15, <2>1, <2>2, <2>3, <2>4 DEF EndVisit
<1>16. ASSUME NEW i \in Instances, RemoveUnobserved(i) PROVE EntryIsWatched'
  BY <1>16 DEF RemoveUnobserved, RemoveKey
<1>17. ASSUME NEW i \in Instances, CheckKey(i) PROVE EntryIsWatched'
  BY <1>17 DEF CheckKey, CheckIdentity, Repair
<1>18. CASE BeginPass
  BY <1>18 DEF BeginPass, MayEnter
<1>19. CASE JoinThreads
  BY <1>19 DEF JoinThreads
<1>20. ASSUME NEW i \in Instances, WatcherSignaled(i) PROVE EntryIsWatched'
  BY <1>20 DEF WatcherSignaled, RemoveKey
<1>21. ASSUME NEW i \in Instances, WatcherShutdown(i) PROVE EntryIsWatched'
  BY <1>21 DEF WatcherShutdown
<1>22. ASSUME NEW i \in Instances, WatcherUnexpected(i) PROVE EntryIsWatched'
  BY <1>22 DEF WatcherUnexpected
<1>23. CASE UNCHANGED vars
  BY <1>23 DEF vars
<1> QED BY <1>1, <1>2, <1>3, <1>4, <1>5, <1>6, <1>7, <1>8, <1>9, <1>10, <1>11, <1>12,
           <1>13, <1>14, <1>15, <1>16, <1>17, <1>18, <1>19, <1>20, <1>21, <1>22, <1>23
       DEF Next, Windows, Callers, GateStep, Watcher

(* The profile of a visit and the signatures it leaves. *)
LEMMA NextCurrent ==
    TypeOK /\ GateShape /\ Identity /\ VisitIsCurrent /\ StaleSignatureIsRescanned /\ [Next]_vars
    => (VisitIsCurrent /\ StaleSignatureIsRescanned)'
<1> SUFFICES ASSUME TypeOK, GateShape, Identity, VisitIsCurrent, StaleSignatureIsRescanned, [Next]_vars
             PROVE  (VisitIsCurrent /\ StaleSignatureIsRescanned)'
  OBVIOUS
<1> USE DEF TypeOK, GateShape, Identity, VisitIsCurrent, StaleSignatureIsRescanned, NoVisit,
            Reasons, shutting_down, windows, trace, profile, table, op, pass, stop, history
<1>1. ASSUME NEW i \in Instances, StartProcess(i)
      PROVE  (VisitIsCurrent /\ StaleSignatureIsRescanned)'
  BY <1>1 DEF StartProcess
<1>2. ASSUME NEW i \in Instances, ExitProcess(i)
      PROVE  (VisitIsCurrent /\ StaleSignatureIsRescanned)'
  BY <1>2 DEF ExitProcess
<1>3. ASSUME NEW e \in Events, LoseEvent(e)
      PROVE  (VisitIsCurrent /\ StaleSignatureIsRescanned)'
  BY <1>3 DEF LoseEvent
<1>4. CASE StartMonitor
  BY <1>4 DEF StartMonitor
<1>5. CASE SetPowerProfile
  BY <1>5 DEF SetPowerProfile
<1>6. CASE BeginShutdown
  BY <1>6 DEF BeginShutdown
<1>7. ASSUME NEW i \in Instances, NEW kind \in {"start", "stop"}, HandleEvent(kind, i)
      PROVE  (VisitIsCurrent /\ StaleSignatureIsRescanned)'
  <2> Delivered(kind, i)
    BY <1>7, EventCases
  <2>1. CASE kind = "start" /\ \E exact \in BOOLEAN : ApplyToPid(i, exact)
    BY <2>1 DEF Delivered, ApplyToPid
  <2>2. CASE kind = "stop" /\ RemoveProcessKey(i)
    BY <2>2 DEF Delivered, RemoveProcessKey, RemoveKey
  <2>3. CASE IgnoreEvent(kind, i)
    BY <2>3 DEF Delivered, IgnoreEvent
  <2> QED BY <1>7, <2>1, <2>2, <2>3, EventCases
<1>8. ASSUME NEW r \in Reasons, BeginScan(r)
      PROVE  (VisitIsCurrent /\ StaleSignatureIsRescanned)'
  BY <1>8 DEF BeginScan, MayEnter
<1>9. ASSUME NEW r \in Reasons, ScanFails(r)
      PROVE  (VisitIsCurrent /\ StaleSignatureIsRescanned)'
  BY <1>9 DEF ScanFails, MayEnter
<1>10. ASSUME NEW r \in Reasons, ScanRefused(r)
      PROVE  (VisitIsCurrent /\ StaleSignatureIsRescanned)'
  BY <1>10 DEF ScanRefused
<1>11. CASE LeaveGate
  BY <1>11 DEF LeaveGate
<1>12. CASE EndPass
  BY <1>12 DEF EndPass
<1>13. ASSUME NEW p \in Pids, ResolvePid(p)
      PROVE  (VisitIsCurrent /\ StaleSignatureIsRescanned)'
  BY <1>13 DEF ResolvePid
<1>14. ASSUME NEW p \in Pids, SkipPid(p) PROVE (VisitIsCurrent /\ StaleSignatureIsRescanned)'
  BY <1>14 DEF SkipPid
<1>15. ASSUME NEW i \in Instances, EndVisit(i)
      PROVE  (VisitIsCurrent /\ StaleSignatureIsRescanned)'
  <2> visit.instance = i /\ visit # NoVisit
    BY <1>15 DEF EndVisit
  <2>1. CASE UpdateEntry(i)
    BY <1>15, <2>1 DEF EndVisit, UpdateEntry, Observed
  <2>2. CASE InsertEntry(i)
    BY <1>15, <2>2 DEF EndVisit, InsertEntry, Observed
  <2>3. CASE WatchFails(i)
    BY <1>15, <2>3 DEF EndVisit, WatchFails
  <2>4. CASE UntrackIfNoActiveRule(i)
    BY <1>15, <2>4 DEF EndVisit, UntrackIfNoActiveRule, RemoveKey, Observed
  <2> QED BY <1>15, <2>1, <2>2, <2>3, <2>4 DEF EndVisit
<1>16. ASSUME NEW i \in Instances, RemoveUnobserved(i)
      PROVE  (VisitIsCurrent /\ StaleSignatureIsRescanned)'
  BY <1>16 DEF RemoveUnobserved, RemoveKey
<1>17. ASSUME NEW i \in Instances, CheckKey(i)
      PROVE  (VisitIsCurrent /\ StaleSignatureIsRescanned)'
  BY <1>17 DEF CheckKey, CheckIdentity, Repair
<1>18. CASE BeginPass
  BY <1>18 DEF BeginPass, MayEnter
<1>19. CASE JoinThreads
  BY <1>19 DEF JoinThreads
<1>20. ASSUME NEW i \in Instances, WatcherSignaled(i)
      PROVE  (VisitIsCurrent /\ StaleSignatureIsRescanned)'
  BY <1>20 DEF WatcherSignaled, RemoveKey
<1>21. ASSUME NEW i \in Instances, WatcherShutdown(i)
      PROVE  (VisitIsCurrent /\ StaleSignatureIsRescanned)'
  BY <1>21 DEF WatcherShutdown
<1>22. ASSUME NEW i \in Instances, WatcherUnexpected(i)
      PROVE  (VisitIsCurrent /\ StaleSignatureIsRescanned)'
  BY <1>22 DEF WatcherUnexpected
<1>23. CASE UNCHANGED vars
  BY <1>23 DEF vars
<1> QED BY <1>1, <1>2, <1>3, <1>4, <1>5, <1>6, <1>7, <1>8, <1>9, <1>10, <1>11, <1>12,
           <1>13, <1>14, <1>15, <1>16, <1>17, <1>18, <1>19, <1>20, <1>21, <1>22, <1>23
       DEF Next, Windows, Callers, GateStep, Watcher

(* A full scan reaches everything that it may remove. *)
LEMMA NextCovers ==
    TypeOK /\ GateShape /\ Identity /\ ScanCovers /\ [Next]_vars
    => ScanCovers'
<1> SUFFICES ASSUME TypeOK, GateShape, Identity, ScanCovers, [Next]_vars PROVE ScanCovers'
  OBVIOUS
<1> USE DEF TypeOK, GateShape, Identity, ScanCovers, NoVisit, Pids,
            windows, trace, profile, table, op, pass, stop, history
<1>1. ASSUME NEW i \in Instances, StartProcess(i) PROVE ScanCovers'
  BY <1>1 DEF StartProcess
<1>2. ASSUME NEW i \in Instances, ExitProcess(i) PROVE ScanCovers'
  BY <1>2 DEF ExitProcess
<1>3. ASSUME NEW e \in Events, LoseEvent(e) PROVE ScanCovers'
  BY <1>3 DEF LoseEvent
<1>4. CASE StartMonitor
  BY <1>4 DEF StartMonitor
<1>5. CASE SetPowerProfile
  BY <1>5 DEF SetPowerProfile
<1>6. CASE BeginShutdown
  BY <1>6 DEF BeginShutdown
<1>7. ASSUME NEW i \in Instances, NEW kind \in {"start", "stop"}, HandleEvent(kind, i)
      PROVE  ScanCovers'
  <2> Delivered(kind, i)
    BY <1>7, EventCases
  <2>1. CASE kind = "start" /\ \E exact \in BOOLEAN : ApplyToPid(i, exact)
    BY <2>1 DEF Delivered, ApplyToPid
  <2>2. CASE kind = "stop" /\ RemoveProcessKey(i)
    BY <2>2 DEF Delivered, RemoveProcessKey, RemoveKey
  <2>3. CASE IgnoreEvent(kind, i)
    BY <2>3 DEF Delivered, IgnoreEvent
  <2> QED BY <1>7, <2>1, <2>2, <2>3, EventCases
<1>8. ASSUME NEW r \in Reasons, BeginScan(r) PROVE ScanCovers'
  BY <1>8 DEF BeginScan, MayEnter, Snapshot
<1>9. ASSUME NEW r \in Reasons, ScanFails(r) PROVE ScanCovers'
  BY <1>9 DEF ScanFails, MayEnter
<1>10. ASSUME NEW r \in Reasons, ScanRefused(r) PROVE ScanCovers'
  BY <1>10 DEF ScanRefused
<1>11. CASE LeaveGate
  BY <1>11 DEF LeaveGate
<1>12. CASE EndPass
  BY <1>12 DEF EndPass, Snapshot
<1>13. ASSUME NEW p \in Pids, ResolvePid(p) PROVE ScanCovers'
  BY <1>13 DEF ResolvePid
<1>14. ASSUME NEW p \in Pids, SkipPid(p) PROVE ScanCovers'
  BY <1>14 DEF SkipPid
<1>15. ASSUME NEW i \in Instances, EndVisit(i) PROVE ScanCovers'
  <2> visit.instance = i /\ visit # NoVisit
    BY <1>15 DEF EndVisit
  <2>1. CASE UpdateEntry(i)
    BY <1>15, <2>1 DEF EndVisit, UpdateEntry, Observed
  <2>2. CASE InsertEntry(i)
    BY <1>15, <2>2 DEF EndVisit, InsertEntry, Observed
  <2>3. CASE WatchFails(i)
    BY <1>15, <2>3 DEF EndVisit, WatchFails
  <2>4. CASE UntrackIfNoActiveRule(i)
    BY <1>15, <2>4 DEF EndVisit, UntrackIfNoActiveRule, RemoveKey, Observed
  <2> QED BY <1>15, <2>1, <2>2, <2>3, <2>4 DEF EndVisit
<1>16. ASSUME NEW i \in Instances, RemoveUnobserved(i) PROVE ScanCovers'
  BY <1>16 DEF RemoveUnobserved, RemoveKey
<1>17. ASSUME NEW i \in Instances, CheckKey(i) PROVE ScanCovers'
  BY <1>17 DEF CheckKey, CheckIdentity, Repair
<1>18. CASE BeginPass
  BY <1>18 DEF BeginPass, MayEnter
<1>19. CASE JoinThreads
  BY <1>19 DEF JoinThreads
<1>20. ASSUME NEW i \in Instances, WatcherSignaled(i) PROVE ScanCovers'
  BY <1>20 DEF WatcherSignaled, RemoveKey
<1>21. ASSUME NEW i \in Instances, WatcherShutdown(i) PROVE ScanCovers'
  BY <1>21 DEF WatcherShutdown
<1>22. ASSUME NEW i \in Instances, WatcherUnexpected(i) PROVE ScanCovers'
  BY <1>22 DEF WatcherUnexpected
<1>23. CASE UNCHANGED vars
  BY <1>23 DEF vars
<1> QED BY <1>1, <1>2, <1>3, <1>4, <1>5, <1>6, <1>7, <1>8, <1>9, <1>10, <1>11, <1>12,
           <1>13, <1>14, <1>15, <1>16, <1>17, <1>18, <1>19, <1>20, <1>21, <1>22, <1>23
       DEF Next, Windows, Callers, GateStep, Watcher

(* No process falls out of everybody's sight. *)
LEMMA NextReached ==
    TypeOK /\ GateShape /\ Limits /\ Identity /\ ScanCovers /\ EveryProcessReached /\ [Next]_vars
    => EveryProcessReached'
<1> SUFFICES ASSUME TypeOK, GateShape, Limits, Identity, ScanCovers, EveryProcessReached, [Next]_vars
             PROVE  EveryProcessReached'
  OBVIOUS
<1> USE DEF TypeOK, GateShape, Limits, Identity, ScanCovers, EveryProcessReached, VisitReaches, NoVisit, Pids,
            Reasons, shutting_down, windows, trace, profile, table, op, pass, stop, history
<1>1. ASSUME NEW i \in Instances, StartProcess(i) PROVE EveryProcessReached'
  BY <1>1 DEF StartProcess
<1>2. ASSUME NEW i \in Instances, ExitProcess(i) PROVE EveryProcessReached'
  BY <1>2 DEF ExitProcess
<1>3. ASSUME NEW e \in Events, LoseEvent(e) PROVE EveryProcessReached'
  BY <1>3 DEF LoseEvent
<1>4. CASE StartMonitor
  BY <1>4 DEF StartMonitor
<1>5. CASE SetPowerProfile
  BY <1>5 DEF SetPowerProfile
<1>6. CASE BeginShutdown
  BY <1>6 DEF BeginShutdown
<1>7. ASSUME NEW i \in Instances, NEW kind \in {"start", "stop"}, HandleEvent(kind, i)
      PROVE  EveryProcessReached'
  <2> Delivered(kind, i)
    BY <1>7, EventCases
  <2>1. CASE kind = "start" /\ \E exact \in BOOLEAN : ApplyToPid(i, exact)
    BY <2>1 DEF Delivered, ApplyToPid
  <2>2. CASE kind = "stop" /\ RemoveProcessKey(i)
    BY <2>2 DEF Delivered, RemoveProcessKey, RemoveKey
  <2>3. CASE IgnoreEvent(kind, i)
    BY <2>3 DEF Delivered, IgnoreEvent
  <2> QED BY <1>7, <2>1, <2>2, <2>3, EventCases
<1>8. ASSUME NEW r \in Reasons, BeginScan(r) PROVE EveryProcessReached'
  BY <1>8 DEF BeginScan, MayEnter, Snapshot
<1>9. ASSUME NEW r \in Reasons, ScanFails(r) PROVE EveryProcessReached'
  BY <1>9 DEF ScanFails, MayEnter
<1>10. ASSUME NEW r \in Reasons, ScanRefused(r) PROVE EveryProcessReached'
  BY <1>10 DEF ScanRefused
<1>11. CASE LeaveGate
  BY <1>11 DEF LeaveGate
<1>12. CASE EndPass
  BY <1>12 DEF EndPass, Snapshot
<1>13. ASSUME NEW p \in Pids, ResolvePid(p) PROVE EveryProcessReached'
  BY <1>13 DEF ResolvePid
<1>14. ASSUME NEW p \in Pids, SkipPid(p) PROVE EveryProcessReached'
  BY <1>14 DEF SkipPid
<1>15. ASSUME NEW i \in Instances, EndVisit(i) PROVE EveryProcessReached'
  <2> visit.instance = i /\ visit # NoVisit
    BY <1>15 DEF EndVisit
  <2>1. CASE UpdateEntry(i)
    BY <1>15, <2>1 DEF EndVisit, UpdateEntry, Observed
  <2>2. CASE InsertEntry(i)
    BY <1>15, <2>2 DEF EndVisit, InsertEntry, Observed
  <2>3. CASE WatchFails(i)
    BY <1>15, <2>3 DEF EndVisit, WatchFails
  <2>4. CASE UntrackIfNoActiveRule(i)
    BY <1>15, <2>4 DEF EndVisit, UntrackIfNoActiveRule, RemoveKey, Observed
  <2> QED BY <1>15, <2>1, <2>2, <2>3, <2>4 DEF EndVisit
<1>16. ASSUME NEW i \in Instances, RemoveUnobserved(i) PROVE EveryProcessReached'
  BY <1>16 DEF RemoveUnobserved, RemoveKey
<1>17. ASSUME NEW i \in Instances, CheckKey(i) PROVE EveryProcessReached'
  BY <1>17 DEF CheckKey, CheckIdentity, Repair
<1>18. CASE BeginPass
  BY <1>18 DEF BeginPass, MayEnter
<1>19. CASE JoinThreads
  BY <1>19 DEF JoinThreads
<1>20. ASSUME NEW i \in Instances, WatcherSignaled(i) PROVE EveryProcessReached'
  BY <1>20 DEF WatcherSignaled, RemoveKey
<1>21. ASSUME NEW i \in Instances, WatcherShutdown(i) PROVE EveryProcessReached'
  BY <1>21 DEF WatcherShutdown
<1>22. ASSUME NEW i \in Instances, WatcherUnexpected(i) PROVE EveryProcessReached'
  BY <1>22 DEF WatcherUnexpected
<1>23. CASE UNCHANGED vars
  BY <1>23 DEF vars
<1> QED BY <1>1, <1>2, <1>3, <1>4, <1>5, <1>6, <1>7, <1>8, <1>9, <1>10, <1>11, <1>12,
           <1>13, <1>14, <1>15, <1>16, <1>17, <1>18, <1>19, <1>20, <1>21, <1>22, <1>23
       DEF Next, Windows, Callers, GateStep, Watcher

(* A check compares the instance it repairs with the one it resolved for. *)
LEMMA NextForeign == OnlyOwnPolicy /\ [Next]_vars => OnlyOwnPolicy'
<1> SUFFICES ASSUME OnlyOwnPolicy, [Next]_vars PROVE foreign' = foreign
  BY DEF OnlyOwnPolicy
<1>1. ASSUME NEW i \in Instances, CheckKey(i) PROVE foreign' = foreign
  BY <1>1 DEF CheckKey, CheckIdentity, Repair
<1>2. CASE Windows
  BY <1>2 DEF Windows, StartProcess, ExitProcess, LoseEvent, history
<1>3. CASE Callers
  BY <1>3 DEF Callers, StartMonitor, SetPowerProfile, BeginShutdown, HandleEvent,
              BeginScan, ScanFails, ScanRefused, history
<1>4. CASE GateStep
  BY <1>1, <1>4 DEF GateStep, LeaveGate, EndPass, ResolvePid, SkipPid, EndVisit,
                    RemoveUnobserved, history
<1>5. CASE BeginPass \/ JoinThreads
  BY <1>5 DEF BeginPass, JoinThreads, history
<1>6. ASSUME NEW i \in Instances, Watcher(i) \/ WatcherUnexpected(i) PROVE foreign' = foreign
  BY <1>6 DEF Watcher, WatcherSignaled, WatcherShutdown, WatcherUnexpected, history
<1> QED BY <1>2, <1>3, <1>4, <1>5, <1>6 DEF Next, vars, history

-----------------------------------------------------------------------------
(* The engine starts with the invariant. *)
LEMMA InitIInv == Init => IInv
<1> SUFFICES ASSUME Init PROVE IInv
  OBVIOUS
<1> USE DEF Init
<1>1. TypeOK
  <2>1. 0 \in 0..MaxGeneration /\ 0 \in 0..(MaxGeneration + 1) /\ 0 \in 0..MaxChecks /\ 0 \in 0..MaxWatchers
    OBVIOUS
  <2> QED BY <2>1 DEF TypeOK
<1>2. GateShape /\ Limits /\ Identity
  BY DEF GateShape, Limits, Identity, Reasons
<1>3. VisitIsCurrent /\ ScanCovers /\ EntryIsWatched /\ StaleSignatureIsRescanned
  BY DEF VisitIsCurrent, ScanCovers, EntryIsWatched, StaleSignatureIsRescanned
<1>4. OnlyOwnPolicy /\ EveryProcessReached
  BY DEF OnlyOwnPolicy, EveryProcessReached
<1> QED BY <1>1, <1>2, <1>3, <1>4 DEF IInv

(* It holds in every reachable state. *)
LEMMA IInvHolds == Spec => []IInv
<1>1. IInv /\ [Next]_vars => IInv'
  BY NextTypeOK, NextShape, NextIdentity, NextWatched, NextCurrent, NextCovers, NextReached,
     NextForeign DEF IInv
<1> QED BY <1>1, InitIInv, PTL DEF Spec

(* The state keeps its shape, and no counter passes its limit: a key enters *)
(* a batch only with a check to spare, and no batch has a key twice.        *)
THEOREM TypeAlwaysOK == Spec => []TypeOK
BY IInvHolds, PTL DEF IInv

(* Every entry of the table has a watcher thread that will remove it, or    *)
(* had one whose wait failed: no order of visits, scans, events and exits   *)
(* leaves an entry alone.                                                   *)
THEOREM EntryAlwaysWatched == Spec => []EntryIsWatched
BY IInvHolds, PTL DEF IInv

(* An entry that holds the profile of an earlier generation has a full scan *)
(* to come or under way, also when the profile changed between the read of  *)
(* a visit and the insertion of its entry.                                  *)
THEOREM StaleSignatureAlwaysRescanned == Spec => []StaleSignatureIsRescanned
BY IInvHolds, PTL DEF IInv

(* No running process with a policy is missed: it is in the table, excused  *)
(* by a failure, or a visit to it is certain.                               *)
THEOREM NoProcessEverMissed == Spec => []NoProcessMissed
<1>1. IInv => NoProcessMissed
  BY DEF IInv, EveryProcessReached, VisitReaches, NoProcessMissed, VisitComes
<1> QED BY <1>1, IInvHolds, PTL

(* No instance is given the policy of another image, however PIDs are reused. *)
THEOREM AlwaysOwnPolicy == Spec => []OnlyOwnPolicy
BY IInvHolds, PTL DEF IInv
=============================================================================
