----------------------------- MODULE Reconciler -----------------------------
(***************************************************************************)
(* The bounded reconciler of src/engine.rs: the table of applied           *)
(* processes, the coordinator phase, the worker thread with its two wake   *)
(* objects (insertion event, waitable timer), the threads that change the  *)
(* table, and the engine's shutdown.                                       *)
(*                                                                         *)
(* One action is one critical section of the `applied' and `reconciler'    *)
(* mutexes.  Everything that changes the table runs inside the             *)
(* `watcher_activity' mutex (here: gate), so the many threads that do so   *)
(* (ETW callback, power callback, service main, process watchers) are one  *)
(* anonymous caller.  The worker's arm, begin and disable steps and the    *)
(* second half of shutdown run outside the gate and interleave with it.    *)
(***************************************************************************)
EXTENDS Naturals, FiniteSets

CONSTANTS
    Keys,           \* process instances (PID and creation time)
    MaxChecks,      \* MAX_RECONCILIATION_CHECKS
    PriorityJob     \* is the `priority-job' feature compiled in

ASSUME KeysAssumption == IsFiniteSet(Keys)
ASSUME MaxChecksAssumption == MaxChecks \in Nat \ {0}
ASSUME PriorityJobAssumption == PriorityJob \in BOOLEAN

VARIABLES
    applied,          \* instances with an entry in the table
    enforcing,        \* those whose entry has enforcing = true
    checks,           \* reconciliation_checks of each entry (0: no entry)
    phase,            \* ReconcilerPhase, or "Absent" when the worker never started
    insertion_event,  \* auto-reset event
    timer,            \* waitable timer: not set, due late, due soon, signaled
    worker,           \* control state of reconciliation_worker_loop
    batch,            \* keys of the current pass still to be checked
    drift,            \* identity_drift of the current pass
    gate,             \* holder of watcher_activity
    todo,             \* PIDs the gate's holder has still to apply rules to
    removable,        \* candidates of its full scan not observed so far
    inserting,        \* key inserted, not yet watched and announced
    shutting_down,
    shutdown_event,   \* manual-reset event
    stopper           \* control state of RuleEngine::shutdown

table   == <<applied, enforcing, checks>>
signals == <<phase, insertion_event, timer>>
scan    == <<todo, removable, inserting>>
pass    == <<batch, drift>>
stop    == <<shutting_down, shutdown_event, stopper>>
vars    == <<table, signals, worker, pass, gate, scan, stop>>

Phases == {"Absent", "Parked", "WakePending", "TimerArmed", "Running", "Disabled"}
Due    == {"late", "soon"}          \* the timer is set and has not fired
PassStates == {"enter", "check", "global", "rearm", "fail"}
WorkerStates == {"wait", "arm", "begin", "done"} \cup PassStates

(* Definitions that start with Mut are plausible bugs in the code that the  *)
(* definition after them models; the mutation checks swap them in.          *)

MutPendingOffByOne == {k \in enforcing : checks[k] <= MaxChecks}

(* The filter every scheduling decision of the coordinator uses. *)
Pending == {k \in enforcing : checks[k] < MaxChecks}

Init ==
    /\ applied = {} /\ enforcing = {} /\ checks = [k \in Keys |-> 0]
    /\ insertion_event = FALSE /\ timer = "idle"
    /\ \/ phase = "Parked" /\ worker = "wait"
       \/ phase = "Absent" /\ worker = "done"    \* Reconciler::start failed
    /\ batch = {} /\ drift = FALSE
    /\ gate = "free" /\ todo = {} /\ removable = {} /\ inserting = {}
    /\ shutting_down = FALSE /\ shutdown_event = FALSE /\ stopper = "idle"

-----------------------------------------------------------------------------
(* The waitable timer. *)

(* Cancelling stops a timer that has not fired; one that has stays          *)
(* signaled.  The call can fail, which is only logged.                      *)
CancelTimer == timer' = timer \/ (timer \in Due /\ timer' = "idle")

TimerTick ==
    /\ \/ timer = "late" /\ timer' = "soon"
       \/ timer = "soon" /\ timer' = "signaled"
    /\ UNCHANGED <<table, phase, insertion_event, worker, pass, gate, scan, stop>>

-----------------------------------------------------------------------------
(* Changes of the table.  Each one is evaluated with the new table, as the  *)
(* code does: it holds `applied' while it parks the coordinator.            *)

ParkIfNoPending ==
    \/ /\ Pending' # {} \/ phase \notin {"TimerArmed", "WakePending"}
       /\ UNCHANGED <<phase, timer>>
    \/ /\ Pending' = {} /\ phase = "TimerArmed"
       /\ phase' = "Parked" /\ CancelTimer
    \/ /\ Pending' = {} /\ phase = "WakePending"
       /\ phase' = "Parked" /\ UNCHANGED timer

RemoveKeyLocked(k) ==
    /\ applied' = applied \ {k}
    /\ enforcing' = enforcing \ {k}
    /\ checks' = [checks EXCEPT ![k] = 0]
    /\ ParkIfNoPending
    /\ UNCHANGED insertion_event

MutUntrackWithoutParking(k) ==
    /\ applied' = applied \ {k}
    /\ enforcing' = enforcing \ {k}
    /\ checks' = [checks EXCEPT ![k] = 0]
    /\ UNCHANGED signals

(* A retained priority job keeps the entry, with enforcement off. *)
UntrackIfNoActiveRule(k) ==
    \/ RemoveKeyLocked(k)
    \/ /\ PriorityJob /\ k \in applied
       /\ enforcing' = enforcing \ {k}
       /\ UNCHANGED <<applied, checks, insertion_event>>
       /\ ParkIfNoPending

MutUpdateResetsCounter(k) ==
    /\ k \in applied
    /\ enforcing' = enforcing \cup {k}
    /\ checks' = [checks EXCEPT ![k] = 0]
    /\ UNCHANGED <<applied, signals>>

(* The update half of apply_or_update_rule: the coordinator is not told. *)
UpdateEntry(k) ==
    /\ k \in applied
    /\ enforcing' = enforcing \cup {k}
    /\ UNCHANGED <<applied, checks, signals>>

InsertEntry(k) ==
    /\ k \notin applied
    /\ applied' = applied \cup {k}
    /\ enforcing' = enforcing \cup {k}
    /\ checks' = [checks EXCEPT ![k] = 0]
    /\ UNCHANGED signals

MutNotifyForgetsEvent(k) ==
    /\ phase' = IF k \in Pending /\ phase = "Parked" THEN "WakePending" ELSE phase
    /\ UNCHANGED <<table, insertion_event, timer>>

NotifyInsertion(k) ==
    /\ \/ /\ k \in Pending /\ phase = "Parked"
          /\ \/ phase' = "WakePending" /\ insertion_event' = TRUE
             \/ phase' = "Disabled" /\ UNCHANGED insertion_event
       \/ /\ k \notin Pending \/ phase # "Parked"
          /\ UNCHANGED <<phase, insertion_event>>
    /\ UNCHANGED <<table, timer>>

-----------------------------------------------------------------------------
(* What the holder of the gate does: apply_to_pid_inner for each PID, then  *)
(* remove_unobserved.                                                       *)

Scanning == gate = "caller" \/ worker = "global"
ScanDone == todo = {} /\ inserting = {} /\ removable = {}

(* The process cannot be resolved, is another instance than the event       *)
(* named, is the service itself, or has an unusable image name.             *)
SkipPid(k) ==
    /\ inserting = {} /\ k \in todo
    /\ todo' = todo \ {k}
    /\ UNCHANGED <<table, signals, removable, inserting>>

ApplyRule(k) ==
    /\ inserting = {} /\ k \in todo
    /\ todo' = todo \ {k}
    /\ \/ UpdateEntry(k) /\ removable' = removable \ {k} /\ UNCHANGED inserting
       \/ InsertEntry(k) /\ inserting' = {k} /\ UNCHANGED removable

ApplyNoRule(k) ==
    /\ inserting = {} /\ k \in todo
    /\ todo' = todo \ {k} /\ removable' = removable \ {k}
    /\ UntrackIfNoActiveRule(k)
    /\ UNCHANGED inserting

(* watch_process succeeded: announce the entry and report the key observed. *)
Announce(k) ==
    /\ k \in inserting
    /\ inserting' = {} /\ removable' = removable \ {k}
    /\ NotifyInsertion(k)
    /\ UNCHANGED todo

(* The watcher thread could not be started: the entry goes away again. *)
WatchFailed(k) ==
    /\ k \in inserting
    /\ inserting' = {}
    /\ RemoveKeyLocked(k)
    /\ UNCHANGED <<todo, removable>>

RemoveUnobserved(k) ==
    /\ todo = {} /\ inserting = {} /\ k \in removable
    /\ removable' = removable \ {k}
    /\ RemoveKeyLocked(k)
    /\ UNCHANGED <<todo, inserting>>

ScanStep ==
    /\ Scanning
    /\ \E k \in Keys : \/ SkipPid(k) \/ ApplyRule(k) \/ ApplyNoRule(k)
                       \/ Announce(k) \/ WatchFailed(k) \/ RemoveUnobserved(k)
    /\ UNCHANGED <<worker, pass, gate, stop>>

-----------------------------------------------------------------------------
(* Callers of the public operations. *)

CallerMayEnter == gate = "free" /\ ~shutting_down

(* apply_to_pid and apply_to_pid_expected: one PID. *)
ApplyToPid(k) ==
    /\ CallerMayEnter
    /\ gate' = "caller" /\ todo' = {k} /\ removable' = {}
    /\ UNCHANGED <<table, signals, worker, pass, inserting, stop>>

(* reconcile_processes: the PIDs of a system snapshot.  A failed snapshot   *)
(* changes nothing.                                                         *)
ReconcileProcesses ==
    /\ CallerMayEnter
    /\ \E running \in SUBSET Keys :
          gate' = "caller" /\ todo' = running /\ removable' = applied
    /\ UNCHANGED <<table, signals, worker, pass, inserting, stop>>

LeaveGate ==
    /\ gate = "caller" /\ ScanDone
    /\ gate' = "free"
    /\ UNCHANGED <<table, signals, worker, pass, scan, stop>>

(* remove_process_key, and a watcher whose process handle is signaled. *)
RemoveProcessKey(k) ==
    /\ CallerMayEnter
    /\ RemoveKeyLocked(k)
    /\ UNCHANGED <<worker, pass, gate, scan, stop>>

-----------------------------------------------------------------------------
(* The worker.  WaitForMultipleObjects reports the lowest signaled index:   *)
(* shutdown, insertion, timer.                                              *)

WakeShutdown ==
    /\ worker = "wait" /\ shutdown_event
    /\ worker' = "done"
    /\ UNCHANGED <<table, signals, pass, gate, scan, stop>>

WakeInsertion ==
    /\ worker = "wait" /\ ~shutdown_event /\ insertion_event
    /\ insertion_event' = FALSE
    /\ worker' = "arm"
    /\ UNCHANGED <<table, phase, timer, pass, gate, scan, stop>>

WakeTimer ==
    /\ worker = "wait" /\ ~shutdown_event /\ ~insertion_event /\ timer = "signaled"
    /\ timer' = "idle"
    /\ worker' = "begin"
    /\ UNCHANGED <<table, phase, insertion_event, pass, gate, scan, stop>>

(* disable_reconciler; the worker then leaves its loop. *)
Disable ==
    /\ phase' = IF phase = "Absent" THEN phase ELSE "Disabled"
    /\ CancelTimer
    /\ UNCHANGED insertion_event

WaitFailed ==
    /\ worker = "wait"
    /\ Disable
    /\ worker' = "done"
    /\ UNCHANGED <<table, pass, gate, scan, stop>>

MutArmParksAfterPass ==
    /\ phase # "Disabled"
    /\ phase' = IF phase = "Running" \/ Pending = {} THEN "Parked" ELSE "TimerArmed"
    /\ timer' = IF phase' = "TimerArmed" /\ phase # "TimerArmed" THEN "late" ELSE timer
    /\ worker' = "wait"

MutArmSetsTimerAgain ==
    /\ phase # "Disabled"
    /\ IF Pending = {} THEN phase' = "Parked" /\ timer' = "idle"
                       ELSE phase' = "TimerArmed" /\ timer' = "late"
    /\ worker' = "wait"

MutArmRevivesDisabled ==
    /\ IF Pending = {} THEN phase' = "Parked" /\ UNCHANGED timer
                       ELSE phase' = "TimerArmed" /\ timer' = "late"
    /\ worker' = "wait"

ArmIfPending ==
    \/ /\ phase = "Disabled"
       /\ worker' = "done" /\ UNCHANGED <<phase, timer>>
    \/ /\ phase # "Disabled" /\ Pending = {}
       /\ IF phase = "TimerArmed" THEN CancelTimer ELSE UNCHANGED timer
       /\ phase' = "Parked" /\ worker' = "wait"
    \/ /\ phase = "TimerArmed" /\ Pending # {}
       /\ worker' = "wait" /\ UNCHANGED <<phase, timer>>
    \/ /\ phase \notin {"Disabled", "TimerArmed"} /\ Pending # {}
       /\ \/ phase' = "TimerArmed" /\ timer' = "late" /\ worker' = "wait"
          \/ phase' = "Disabled" /\ worker' = "done" /\ UNCHANGED timer

Arm ==
    /\ worker \in {"arm", "rearm"}
    /\ ArmIfPending
    /\ UNCHANGED <<table, insertion_event, pass, gate, scan, stop>>

BeginPass ==
    /\ worker = "begin"
    /\ IF phase = "TimerArmed"
         THEN phase' = "Running" /\ worker' = "enter"
         ELSE worker' = "wait" /\ UNCHANGED phase
    /\ UNCHANGED <<table, insertion_event, timer, pass, gate, scan, stop>>

(* The pass takes the gate; when shutdown came first it does nothing. *)
EnterPass ==
    /\ worker = "enter" /\ gate = "free"
    /\ IF shutting_down
         THEN worker' = "rearm" /\ UNCHANGED <<batch, gate>>
         ELSE worker' = "check" /\ batch' = Pending /\ gate' = "worker"
    /\ drift' = FALSE
    /\ UNCHANGED <<table, signals, scan, stop>>

(* reconcile_tracked_process: the attempt counts whatever its outcome; an   *)
(* exited process or another identity behind the PID reports drift.         *)
CheckKey(k) ==
    /\ worker = "check" /\ k \in batch
    /\ batch' = batch \ {k}
    /\ IF k \in Pending
         THEN /\ checks' = [checks EXCEPT ![k] = @ + 1]
              /\ drift' \in {drift, TRUE}
         ELSE UNCHANGED <<checks, drift>>
    /\ UNCHANGED <<applied, enforcing, signals, worker, gate, scan, stop>>

(* One global scan for all the drift of the batch.  The snapshot can fail,  *)
(* which ends the worker, or be unreadable, which ends the pass.            *)
BatchDone ==
    /\ worker = "check" /\ batch = {}
    /\ \/ /\ ~drift
          /\ worker' = "rearm" /\ gate' = "free" /\ UNCHANGED <<todo, removable>>
       \/ /\ drift /\ \E next \in {"fail", "rearm"} : worker' = next
          /\ gate' = "free" /\ UNCHANGED <<todo, removable>>
       \/ /\ drift /\ worker' = "global" /\ removable' = applied
          /\ \E running \in SUBSET Keys : todo' = running
          /\ UNCHANGED gate
    /\ drift' = FALSE
    /\ UNCHANGED <<table, signals, batch, inserting, stop>>

GlobalDone ==
    /\ worker = "global" /\ ScanDone
    /\ worker' = "rearm" /\ gate' = "free"
    /\ UNCHANGED <<table, signals, pass, scan, stop>>

PassFailed ==
    /\ worker = "fail"
    /\ Disable
    /\ worker' = "done"
    /\ UNCHANGED <<table, pass, gate, scan, stop>>

-----------------------------------------------------------------------------
(* RuleEngine::shutdown.  Failing to signal the event is only logged. *)

MutShutdownKeepsGate ==
    /\ stopper = "idle" /\ gate = "free"
    /\ shutting_down' = TRUE /\ shutdown_event' \in BOOLEAN
    /\ gate' = "stopper" /\ stopper' = "disable"
    /\ UNCHANGED <<table, signals, worker, pass, scan>>

BeginShutdown ==
    /\ stopper = "idle" /\ gate = "free"
    /\ shutting_down' = TRUE
    /\ shutdown_event' \in BOOLEAN
    /\ stopper' = "disable"
    /\ UNCHANGED <<table, signals, worker, pass, gate, scan>>

ShutdownDisable ==
    /\ stopper = "disable"
    /\ Disable
    /\ stopper' = "join"
    /\ UNCHANGED <<table, worker, pass, gate, scan, shutting_down, shutdown_event>>

JoinWorker ==
    /\ stopper = "join" /\ worker = "done"
    /\ stopper' = "done"
    /\ UNCHANGED <<table, signals, worker, pass, gate, scan, shutting_down, shutdown_event>>

-----------------------------------------------------------------------------
Caller ==
    \/ ReconcileProcesses \/ LeaveGate
    \/ \E k \in Keys : ApplyToPid(k) \/ RemoveProcessKey(k)

WorkerStep ==
    \/ WakeShutdown \/ WakeInsertion \/ WakeTimer \/ Arm \/ BeginPass
    \/ BatchDone \/ GlobalDone \/ PassFailed
    \/ \E k \in Keys : CheckKey(k)

ShutdownStep == ShutdownDisable \/ JoinWorker

Next ==
    \/ TimerTick \/ ScanStep \/ Caller \/ WorkerStep \/ EnterPass
    \/ WaitFailed \/ BeginShutdown \/ ShutdownStep

Spec == Init /\ [][Next]_vars

(* Threads that can run do run, and a timer that is set fires.  The gate    *)
(* may be taken by callers between two attempts of the worker, so its       *)
(* acquisition needs strong fairness: every caller lets go of it.           *)
Fairness ==
    /\ WF_vars(TimerTick) /\ WF_vars(ScanStep) /\ WF_vars(LeaveGate)
    /\ WF_vars(WorkerStep) /\ SF_vars(EnterPass)
    /\ WF_vars(ShutdownStep)

FairSpec == Spec /\ Fairness
-----------------------------------------------------------------------------
(* Properties. *)

(* The shape of the state: entries only for known instances, counters that  *)
(* never pass MAX_RECONCILIATION_CHECKS, at most one insertion in progress. *)
TypeOK ==
    /\ applied \subseteq Keys /\ enforcing \subseteq applied
    /\ checks \in [Keys -> 0..MaxChecks]
    /\ phase \in Phases /\ insertion_event \in BOOLEAN
    /\ timer \in {"idle", "signaled"} \cup Due
    /\ worker \in WorkerStates
    /\ batch \subseteq Keys /\ drift \in BOOLEAN
    /\ gate \in {"free", "caller", "worker"}
    /\ todo \subseteq Keys /\ removable \subseteq Keys
    /\ inserting \subseteq Keys /\ \A j, k \in inserting : j = k
    /\ shutting_down \in BOOLEAN /\ shutdown_event \in BOOLEAN
    /\ stopper \in {"idle", "disable", "join", "done"}

(* No lost wakeup.  While the coordinator is parked no instance waits for a *)
(* check, except the one whose insertion is about to be announced by        *)
(* notify_reconciler_of_insertion.                                          *)
NoLostWakeup == phase = "Parked" => Pending \subseteq inserting

(* A phase that promises a wakeup has its cause: WakePending has the event  *)
(* or the worker that consumed it, TimerArmed the timer or the worker that  *)
(* consumed it, Running a worker inside reconcile_tracked_processes.  In    *)
(* particular the worker has not left its loop.                             *)
WakeIsBacked ==
    ~shutdown_event =>
      /\ phase = "WakePending" => \/ insertion_event /\ worker # "done"
                                  \/ worker = "arm"
      /\ phase = "TimerArmed" => \/ timer # "idle" /\ worker # "done"
                                 \/ worker = "begin"
      /\ phase = "Running" => worker \in PassStates

(* The coordinator parks: it never holds a timer or a wakeup for a table in *)
(* which nothing is left to check (park_reconciler_if_no_pending_locked).   *)
NoIdleTimer == phase \in {"WakePending", "TimerArmed"} => Pending # {}

(* The facts the safety properties rest on: who holds the gate, which       *)
(* phases a worker inside a pass or past its loop can leave behind, and     *)
(* that nothing is inside the gate once shutting_down is set.               *)
GateHolder ==
    /\ gate = "worker" <=> worker \in {"check", "global"}
    /\ inserting # {} => Scanning
    /\ shutting_down => gate = "free"
    /\ stopper = "idle" <=> ~shutting_down
    /\ shutdown_event => shutting_down
PhaseOfWorker ==
    /\ worker \in PassStates => phase \in {"Running", "Disabled"}
    /\ worker = "done" /\ ~shutdown_event => phase \in {"Absent", "Disabled"}
    /\ phase = "Absent" => worker = "done"
DefaultBuild == ~PriorityJob => enforcing = applied

(* The inductive invariant of Reconciler, the lost wakeup apart: everything *)
(* in it holds in both builds.                                              *)
IInv == TypeOK /\ GateHolder /\ PhaseOfWorker /\ DefaultBuild /\ WakeIsBacked /\ NoIdleTimer

(* Joining instances never push the deadline of the current batch back:     *)
(* while the phase is TimerArmed the timer is not set again.                *)
NoDeadlineReset ==
    [][phase = "TimerArmed" /\ timer # "late" => timer' # "late"]_vars

(* What one step may do to the counters of the entries it leaves in place.  *)
KeepsCounters ==
    \A k \in applied \cap applied' :
        \/ checks'[k] = checks[k]
        \/ checks'[k] = checks[k] + 1 /\ gate = "worker" /\ k \in batch \ batch'

(* Counters belong to entries: as long as an entry stays in the table its   *)
(* counter changes only by one, only in a pass that holds the gate, and is  *)
(* never reset by a rule change, a profile change or a full scan.           *)
CountersAreKept == [][KeepsCounters]_vars

(* After shutting_down is set under the gate no thread changes the table,   *)
(* although the worker may still be on its way into a pass.                 *)
ShutdownFreezesTable == [][shutting_down => UNCHANGED table]_vars

(* A disabled coordinator stays disabled, whichever of worker, inserter and *)
(* shutdown disabled it, and its timer is not set again.                    *)
DisabledIsFinal ==
    [][phase = "Disabled" => phase' = "Disabled" /\ (timer' = "late" => timer = "late")]_vars

(* Every instance that waits for a check gets its remaining checks or       *)
(* leaves the table, unless the coordinator is disabled or shut down.       *)
PendingServed ==
    \A k \in Keys :
        k \in Pending ~> k \notin Pending \/ phase \in {"Absent", "Disabled"} \/ shutting_down

(* The abstract specification: the table is what is tracked, and checks are *)
(* done until the coordinator is disabled or the worker never started.      *)
Checks == INSTANCE BoundedChecks WITH
    tracked <- applied, enforced <- enforcing, done <- checks,
    serving <- phase \notin {"Absent", "Disabled"}, open <- ~shutting_down

(* What the refinement needs beyond IInv: a pass that shutdown does not     *)
(* prevent is not run by a disabled coordinator, and an instance that comes *)
(* into the table has no checks left over from an earlier stay.             *)
ServedPass ==
    worker \in {"enter", "check", "global"} /\ ~shutting_down => phase = "Running"
FreshCounters == \A k \in Keys \ applied : checks[k] = 0

RInv == IInv /\ ServedPass /\ FreshCounters

(* The coordinator implements it.  Whatever callers, passes and failures    *)
(* interleave, the table changes only by steps of BoundedChecks: a counter  *)
(* is kept as long as its entry is, an instance is checked at most MaxChecks *)
(* times while it stays, never after the coordinator was disabled, and the  *)
(* table is left alone after shutdown.                                      *)
ImplementsBoundedChecks == Checks!CSpec

(* With fair threads it also does every check that it owes: no instance     *)
(* that stays in the table waits for ever for any of its checks.            *)
OwedChecksAreDone == Checks!CFairSpec

(* Once the shutdown event is signaled, shutdown returns: the worker leaves *)
(* its loop wherever it was, and the join ends.                             *)
ShutdownCompletes == shutdown_event ~> stopper = "done"
=============================================================================
