-------------------------- MODULE ReconcilerProofs --------------------------
(***************************************************************************)
(* Proofs about Reconciler, for every set of instances, every check limit  *)
(* and both builds.                                                        *)
(***************************************************************************)
EXTENDS Reconciler, TLAPS

USE KeysAssumption, MaxChecksAssumption, PriorityJobAssumption

(* The initial state satisfies the inductive invariant. *)
LEMMA InitIInv == Init => IInv
<1> SUFFICES ASSUME Init PROVE IInv
  OBVIOUS
<1>1. TypeOK
  <2>1. checks \in [Keys -> 0..MaxChecks]
    BY DEF Init
  <2> QED BY <2>1 DEF Init, TypeOK, Phases, WorkerStates
<1>2. GateHolder /\ PhaseOfWorker /\ DefaultBuild /\ WakeIsBacked /\ NoIdleTimer
  BY DEF Init, GateHolder, PhaseOfWorker, DefaultBuild, WakeIsBacked, NoIdleTimer, PassStates
<1> QED BY <1>1, <1>2 DEF IInv

(* Every step preserves the inductive invariant. *)
LEMMA NextIInv == IInv /\ [Next]_vars => IInv'
<1> SUFFICES ASSUME IInv, [Next]_vars PROVE IInv'
  OBVIOUS
<1> USE DEF IInv, TypeOK, GateHolder, PhaseOfWorker, DefaultBuild, WakeIsBacked,
            NoIdleTimer, Phases, Due, WorkerStates, PassStates, Scanning,
            table, signals, scan, pass, stop, vars
<1>1. CASE TimerTick
  BY <1>1 DEF TimerTick, Pending
<1>2. CASE ScanStep
  <2> PICK k \in Keys : \/ SkipPid(k) \/ ApplyRule(k) \/ ApplyNoRule(k)
                        \/ Announce(k) \/ WatchFailed(k) \/ RemoveUnobserved(k)
    BY <1>2 DEF ScanStep
  <2> Scanning /\ UNCHANGED <<worker, pass, gate, stop>>
    BY <1>2 DEF ScanStep
  <2>1. CASE SkipPid(k)
    BY <2>1 DEF SkipPid, Pending
  <2>2. CASE ApplyRule(k)
    BY <2>2 DEF ApplyRule, UpdateEntry, InsertEntry, Pending
  <2>3. CASE ApplyNoRule(k)
    BY <2>3 DEF ApplyNoRule, UntrackIfNoActiveRule, RemoveKeyLocked, ParkIfNoPending, CancelTimer, Pending
  <2>4. CASE Announce(k)
    <3>1. /\ inserting # {} /\ inserting' = {} /\ removable' = removable \ {k}
          /\ todo' = todo /\ NotifyInsertion(k)
      BY <2>4 DEF Announce
    <3>2. CASE k \in Pending /\ phase = "Parked"
      <4>1. /\ Pending' = Pending /\ UNCHANGED <<table, timer>> /\ insertion_event' \in BOOLEAN
            /\ phase' = "Disabled" \/ (phase' = "WakePending" /\ insertion_event' = TRUE)
        BY <3>1, <3>2 DEF NotifyInsertion, Pending
      <4> QED BY <3>1, <3>2, <4>1
    <3>3. CASE ~(k \in Pending /\ phase = "Parked")
      <4>1. UNCHANGED <<table, signals>> /\ Pending' = Pending
        BY <3>1, <3>3 DEF NotifyInsertion, Pending
      <4> QED BY <3>1, <4>1
    <3> QED BY <3>2, <3>3
  <2>5. CASE WatchFailed(k)
    BY <2>5 DEF WatchFailed, RemoveKeyLocked, ParkIfNoPending, CancelTimer, Pending
  <2>6. CASE RemoveUnobserved(k)
    BY <2>6 DEF RemoveUnobserved, RemoveKeyLocked, ParkIfNoPending, CancelTimer, Pending
  <2> QED BY <2>1, <2>2, <2>3, <2>4, <2>5, <2>6
<1>3. CASE Caller
  <2>1. CASE ReconcileProcesses
    BY <2>1 DEF ReconcileProcesses, CallerMayEnter, Pending
  <2>2. CASE LeaveGate
    BY <2>2 DEF LeaveGate, ScanDone, Pending
  <2>3. ASSUME NEW k \in Keys, ApplyToPid(k) PROVE IInv'
    BY <2>3 DEF ApplyToPid, CallerMayEnter, Pending
  <2>4. ASSUME NEW k \in Keys, RemoveProcessKey(k) PROVE IInv'
    BY <2>4 DEF RemoveProcessKey, CallerMayEnter, RemoveKeyLocked, ParkIfNoPending, CancelTimer, Pending
  <2> QED BY <1>3, <2>1, <2>2, <2>3, <2>4 DEF Caller
<1>4. CASE WorkerStep
  <2>1. CASE WakeShutdown
    BY <2>1 DEF WakeShutdown, Pending
  <2>2. CASE WakeInsertion
    BY <2>2 DEF WakeInsertion, Pending
  <2>3. CASE WakeTimer
    BY <2>3 DEF WakeTimer, Pending
  <2>4. CASE Arm
    BY <2>4 DEF Arm, ArmIfPending, CancelTimer, Pending
  <2>5. CASE BeginPass
    BY <2>5 DEF BeginPass, Pending
  <2>6. CASE BatchDone
    BY <2>6 DEF BatchDone, Pending
  <2>7. CASE GlobalDone
    BY <2>7 DEF GlobalDone, ScanDone, Pending
  <2>8. CASE PassFailed
    BY <2>8 DEF PassFailed, Disable, CancelTimer, Pending
  <2>9. ASSUME NEW k \in Keys, CheckKey(k) PROVE IInv'
    <3>1. checks' \in [Keys -> 0..MaxChecks]
      <4>1. CASE k \in Pending
        <5>1. checks[k] + 1 \in 0..MaxChecks
          BY <4>1 DEF Pending
        <5>2. checks' = [checks EXCEPT ![k] = checks[k] + 1]
          BY <2>9, <4>1 DEF CheckKey
        <5> QED BY <5>1, <5>2
      <4>2. CASE k \notin Pending
        BY <2>9, <4>2 DEF CheckKey
      <4> QED BY <4>1, <4>2
    <3>2. drift' \in BOOLEAN
      BY <2>9 DEF CheckKey
    <3>3. worker = "check" /\ phase \notin {"WakePending", "TimerArmed"}
      BY <2>9 DEF CheckKey
    <3>4. UNCHANGED <<applied, enforcing, signals, worker, gate, scan, stop>>
      BY <2>9 DEF CheckKey
    <3>5. batch' \subseteq Keys
      BY <2>9 DEF CheckKey
    <3> QED BY <3>1, <3>2, <3>3, <3>4, <3>5
  <2> QED BY <1>4, <2>1, <2>2, <2>3, <2>4, <2>5, <2>6, <2>7, <2>8, <2>9 DEF WorkerStep
<1>5. CASE EnterPass
  BY <1>5 DEF EnterPass, Pending
<1>6. CASE WaitFailed
  BY <1>6 DEF WaitFailed, Disable, CancelTimer, Pending
<1>7. CASE BeginShutdown
  BY <1>7 DEF BeginShutdown, Pending
<1>8. CASE ShutdownStep
  BY <1>8 DEF ShutdownStep, ShutdownDisable, JoinWorker, Disable, CancelTimer, Pending
<1>9. CASE UNCHANGED vars
  BY <1>9 DEF Pending
<1> QED BY <1>1, <1>2, <1>3, <1>4, <1>5, <1>6, <1>7, <1>8, <1>9 DEF Next

(* Type correctness of the coordinator, the worker and shutdown. *)
THEOREM TypeCorrect == Spec => []TypeOK
<1>1. IInv => TypeOK
  BY DEF IInv
<1> QED BY <1>1, InitIInv, NextIInv, PTL DEF Spec

(* A phase that promises a wakeup always has the event, the timer or a      *)
(* worker behind it, for every interleaving of insertions, removals,        *)
(* passes, failures and shutdown.                                           *)
THEOREM WakeAlwaysBacked == Spec => []WakeIsBacked
<1>1. IInv => WakeIsBacked
  BY DEF IInv
<1> QED BY <1>1, InitIInv, NextIInv, PTL DEF Spec

(* The coordinator never keeps a timer or a wakeup for a table in which     *)
(* nothing is left to check.                                                *)
THEOREM NeverIdleTimer == Spec => []NoIdleTimer
<1>1. IInv => NoIdleTimer
  BY DEF IInv
<1> QED BY <1>1, InitIInv, NextIInv, PTL DEF Spec

-----------------------------------------------------------------------------
(* Removing an entry, or turning its enforcement off, leaves no more        *)
(* instances waiting than before.                                           *)
LEMMA ShrinkingPending ==
    ASSUME NEW k \in Keys, TypeOK, RemoveKeyLocked(k) \/ UntrackIfNoActiveRule(k)
    PROVE  /\ Pending' \subseteq Pending \ {k}
           /\ phase' \in {phase, "Parked"}
           /\ phase' = "Parked" => phase = "Parked" \/ Pending' = {}
BY DEF TypeOK, RemoveKeyLocked, UntrackIfNoActiveRule, ParkIfNoPending, Pending

(* In the default build no step loses a wakeup: an entry only enters the    *)
(* set of waiting instances by an insertion, which is announced.            *)
LEMMA NextNoLostWakeup ==
    ASSUME ~PriorityJob, IInv, NoLostWakeup, [Next]_vars
    PROVE  NoLostWakeup'
<1> USE DEF NoLostWakeup
<1> TypeOK /\ enforcing = applied
  BY DEF IInv, DefaultBuild
<1>1. ASSUME UNCHANGED <<table, phase, inserting>> PROVE NoLostWakeup'
  BY <1>1 DEF table, Pending
<1>2. ASSUME phase' # "Parked" PROVE NoLostWakeup'
  BY <1>2
<1>3. ASSUME NEW k \in Keys, RemoveKeyLocked(k) \/ UntrackIfNoActiveRule(k),
             inserting' = inserting \/ inserting = {k}
      PROVE NoLostWakeup'
  BY <1>3, ShrinkingPending
<1>4. CASE ScanStep
  <2> PICK k \in Keys : \/ SkipPid(k) \/ ApplyRule(k) \/ ApplyNoRule(k)
                        \/ Announce(k) \/ WatchFailed(k) \/ RemoveUnobserved(k)
    BY <1>4 DEF ScanStep
  <2>1. CASE SkipPid(k)
    BY <2>1, <1>1 DEF SkipPid, table, signals
  <2>2. CASE ApplyRule(k)
    <3>1. CASE UpdateEntry(k) /\ UNCHANGED inserting
      BY <3>1, <1>1 DEF UpdateEntry, table, signals
    <3>2. CASE InsertEntry(k) /\ inserting = {} /\ inserting' = {k}
      BY <3>2 DEF InsertEntry, signals, Pending, TypeOK
    <3> QED BY <2>2, <3>1, <3>2 DEF ApplyRule
  <2>3. CASE ApplyNoRule(k)
    BY <2>3, <1>3 DEF ApplyNoRule
  <2>4. CASE Announce(k)
    <3>1. inserting = {k} /\ Pending' = Pending
      BY <2>4 DEF Announce, NotifyInsertion, TypeOK, table, Pending
    <3> QED BY <2>4, <3>1 DEF Announce, NotifyInsertion
  <2>5. CASE WatchFailed(k)
    BY <2>5, <1>3 DEF WatchFailed, TypeOK
  <2>6. CASE RemoveUnobserved(k)
    BY <2>6, <1>3 DEF RemoveUnobserved
  <2> QED BY <2>1, <2>2, <2>3, <2>4, <2>5, <2>6
<1>5. CASE Caller
  BY <1>5, <1>1, <1>3 DEF Caller, ReconcileProcesses, LeaveGate, ApplyToPid,
     RemoveProcessKey, table, signals, scan
<1>6. CASE Arm
  BY <1>6, <1>1, <1>2 DEF Arm, ArmIfPending, scan, table, Pending
<1>7. ASSUME NEW k \in Keys, CheckKey(k) PROVE NoLostWakeup'
  <2>1. worker = "check" /\ phase' = phase
    BY <1>7 DEF CheckKey, signals
  <2> QED BY <2>1, <1>2 DEF IInv, PhaseOfWorker, PassStates
<1>8. CASE PassFailed \/ WaitFailed \/ ShutdownDisable
  <2>1. Disable /\ UNCHANGED <<table, inserting>>
    BY <1>8 DEF PassFailed, WaitFailed, ShutdownDisable, scan
  <2> QED BY <2>1, <1>1, <1>2 DEF Disable
<1>9. CASE \/ TimerTick \/ WakeShutdown \/ WakeInsertion \/ WakeTimer \/ BatchDone
           \/ GlobalDone \/ EnterPass \/ BeginShutdown \/ JoinWorker \/ UNCHANGED vars
  BY <1>9, <1>1 DEF TimerTick, WakeShutdown, WakeInsertion, WakeTimer, BatchDone,
     GlobalDone, EnterPass, BeginShutdown, JoinWorker, signals, scan, vars
<1>10. CASE BeginPass
  BY <1>10, <1>1, <1>2 DEF BeginPass, scan
<1> QED BY <1>4, <1>5, <1>6, <1>7, <1>8, <1>9, <1>10 DEF Next, WorkerStep, ShutdownStep

(* The lost-wakeup theorem of the default build: while the coordinator is   *)
(* parked, no tracked instance is owed a check other than the one whose     *)
(* insertion is being announced.                                            *)
THEOREM NoWakeupIsLost == ~PriorityJob => (Spec => []NoLostWakeup)
<1> SUFFICES ASSUME ~PriorityJob PROVE Spec => []NoLostWakeup
  OBVIOUS
<1>1. Init => IInv /\ NoLostWakeup
  BY InitIInv DEF Init, NoLostWakeup, Pending
<1>2. IInv /\ NoLostWakeup /\ [Next]_vars => IInv' /\ NoLostWakeup'
  BY NextIInv, NextNoLostWakeup
<1> QED BY <1>1, <1>2, PTL DEF Spec

-----------------------------------------------------------------------------
(* Action properties. *)

(* Once shutting_down is set nothing changes the table: the gate is free,   *)
(* so no scan and no pass is under way, and none can start.                 *)
THEOREM TableFrozenByShutdown == Spec => ShutdownFreezesTable
<1>1. ASSUME IInv, [Next]_vars, shutting_down PROVE UNCHANGED table
  <2> gate = "free" /\ worker \notin {"check", "global"} /\ ~Scanning
    BY <1>1 DEF IInv, GateHolder, Scanning
  <2> QED BY <1>1 DEF Next, Caller, WorkerStep, ShutdownStep, TimerTick, ScanStep,
       ReconcileProcesses, LeaveGate, ApplyToPid, RemoveProcessKey, CallerMayEnter,
       WakeShutdown, WakeInsertion, WakeTimer, Arm, BeginPass, BatchDone, GlobalDone,
       PassFailed, CheckKey, EnterPass, WaitFailed, BeginShutdown, ShutdownDisable,
       JoinWorker, vars
<1> QED BY <1>1, InitIInv, NextIInv, PTL DEF Spec, ShutdownFreezesTable

(* As long as an entry stays in the table its counter is only advanced by   *)
(* one, by the pass that holds the gate.                                    *)
THEOREM CountersNeverReset == Spec => CountersAreKept
<1>1. ASSUME IInv, [Next]_vars PROVE KeepsCounters
  <2> USE DEF KeepsCounters
  <2> TypeOK
    BY <1>1 DEF IInv
  <2>1. ASSUME UNCHANGED table PROVE KeepsCounters
    BY <2>1 DEF table
  <2>2. ASSUME NEW k \in Keys, RemoveKeyLocked(k) \/ UntrackIfNoActiveRule(k) PROVE KeepsCounters
    BY <2>2 DEF RemoveKeyLocked, UntrackIfNoActiveRule, TypeOK
  <2>3. CASE ScanStep
    <3> PICK k \in Keys : \/ SkipPid(k) \/ ApplyRule(k) \/ ApplyNoRule(k)
                          \/ Announce(k) \/ WatchFailed(k) \/ RemoveUnobserved(k)
      BY <2>3 DEF ScanStep
    <3>1. CASE ApplyRule(k)
      BY <3>1 DEF ApplyRule, UpdateEntry, InsertEntry, TypeOK
    <3>2. CASE SkipPid(k) \/ Announce(k)
      BY <3>2, <2>1 DEF SkipPid, Announce, NotifyInsertion
    <3>3. CASE ApplyNoRule(k) \/ WatchFailed(k) \/ RemoveUnobserved(k)
      BY <3>3, <2>2 DEF ApplyNoRule, WatchFailed, RemoveUnobserved
    <3> QED BY <3>1, <3>2, <3>3
  <2>4. CASE Caller
    BY <2>4, <2>1, <2>2 DEF Caller, ReconcileProcesses, LeaveGate, ApplyToPid, RemoveProcessKey
  <2>5. ASSUME NEW k \in Keys, CheckKey(k) PROVE KeepsCounters
    <3>1. worker = "check" /\ k \in batch \ batch'
      BY <2>5 DEF CheckKey
    <3>2. gate = "worker"
      BY <1>1, <3>1 DEF IInv, GateHolder
    <3>3. checks' = checks \/ checks' = [checks EXCEPT ![k] = checks[k] + 1]
      BY <2>5 DEF CheckKey
    <3> QED BY <3>1, <3>2, <3>3 DEF TypeOK
  <2>6. CASE \/ TimerTick \/ EnterPass \/ WaitFailed \/ BeginShutdown \/ ShutdownStep
             \/ UNCHANGED vars \/ WakeShutdown \/ WakeInsertion \/ WakeTimer \/ Arm
             \/ BeginPass \/ BatchDone \/ GlobalDone \/ PassFailed
    BY <2>6, <2>1 DEF TimerTick, EnterPass, WaitFailed, BeginShutdown, ShutdownStep,
       ShutdownDisable, JoinWorker, WakeShutdown, WakeInsertion, WakeTimer, Arm,
       BeginPass, BatchDone, GlobalDone, PassFailed, vars
  <2> QED BY <1>1, <2>3, <2>4, <2>5, <2>6 DEF Next, WorkerStep
<1> QED BY <1>1, InitIInv, NextIInv, PTL DEF Spec, CountersAreKept

(* Who touches the signals: a step of a scan or a caller never sets the     *)
(* timer, and never leaves the phase Disabled.                              *)
LEMMA TableStepSignals ==
    ASSUME ScanStep \/ Caller
    PROVE  /\ timer' = "late" => timer = "late"
           /\ phase = "Disabled" => phase' = "Disabled"
<1>1. ASSUME NEW k \in Keys, RemoveKeyLocked(k) \/ UntrackIfNoActiveRule(k)
      PROVE  /\ timer' = "late" => timer = "late"
             /\ phase = "Disabled" => phase' = "Disabled"
  BY <1>1 DEF RemoveKeyLocked, UntrackIfNoActiveRule, ParkIfNoPending, CancelTimer
<1>2. CASE ScanStep
  <2> PICK k \in Keys : \/ SkipPid(k) \/ ApplyRule(k) \/ ApplyNoRule(k)
                        \/ Announce(k) \/ WatchFailed(k) \/ RemoveUnobserved(k)
    BY <1>2 DEF ScanStep
  <2>1. CASE SkipPid(k) \/ ApplyRule(k)
    BY <2>1 DEF SkipPid, ApplyRule, UpdateEntry, InsertEntry, signals
  <2>2. CASE Announce(k)
    BY <2>2 DEF Announce, NotifyInsertion
  <2>3. CASE ApplyNoRule(k) \/ WatchFailed(k) \/ RemoveUnobserved(k)
    BY <2>3, <1>1 DEF ApplyNoRule, WatchFailed, RemoveUnobserved
  <2> QED BY <2>1, <2>2, <2>3
<1>3. CASE Caller
  BY <1>3, <1>1 DEF Caller, ReconcileProcesses, LeaveGate, ApplyToPid, RemoveProcessKey, signals
<1> QED BY <1>2, <1>3

(* Only arm_reconciler_if_pending sets the timer, and not in phase          *)
(* TimerArmed or Disabled; nothing leaves the phase Disabled.               *)
LEMMA SignalSteps ==
    ASSUME [Next]_vars
    PROVE  /\ timer' = "late" => timer = "late" \/ phase \notin {"TimerArmed", "Disabled"}
           /\ phase = "Disabled" => phase' = "Disabled"
<1>1. CASE ScanStep \/ Caller
  BY <1>1, TableStepSignals
<1>2. CASE Arm
  BY <1>2 DEF Arm, ArmIfPending, CancelTimer
<1>3. CASE PassFailed \/ WaitFailed \/ ShutdownStep
  BY <1>3 DEF PassFailed, WaitFailed, ShutdownStep, ShutdownDisable, JoinWorker, Disable,
     CancelTimer, signals
<1>4. CASE \/ TimerTick \/ EnterPass \/ BeginShutdown \/ WakeShutdown \/ WakeInsertion
           \/ WakeTimer \/ BeginPass \/ BatchDone \/ GlobalDone \/ UNCHANGED vars
           \/ \E k \in Keys : CheckKey(k)
  BY <1>4 DEF TimerTick, EnterPass, BeginShutdown, WakeShutdown, WakeInsertion, WakeTimer,
     BeginPass, BatchDone, GlobalDone, CheckKey, vars, signals
<1> QED BY <1>1, <1>2, <1>3, <1>4 DEF Next, WorkerStep

(* Instances that join an armed batch never move its deadline. *)
THEOREM DeadlineNeverReset == Spec => NoDeadlineReset
<1>1. [Next]_vars => [phase = "TimerArmed" /\ timer # "late" => timer' # "late"]_vars
  BY SignalSteps
<1> QED BY <1>1, PTL DEF Spec, NoDeadlineReset

(* A disabled coordinator stays disabled and its timer is not set again,    *)
(* whatever the worker, the callers and shutdown are doing at the time.     *)
THEOREM DisabledForGood == Spec => DisabledIsFinal
<1>1. [Next]_vars =>
        [phase = "Disabled" => phase' = "Disabled" /\ (timer' = "late" => timer = "late")]_vars
  BY SignalSteps
<1> QED BY <1>1, PTL DEF Spec, DisabledIsFinal

-----------------------------------------------------------------------------
(* Refinement: Reconciler implements BoundedChecks. *)

(* The two facts the refinement adds to the invariant. *)
LEMMA InitRInv == Init => RInv
BY InitIInv DEF Init, RInv, ServedPass, FreshCounters

(* Every step keeps what the refinement needs. *)
LEMMA NextRInv == RInv /\ [Next]_vars => RInv'
<1> SUFFICES ASSUME RInv, [Next]_vars PROVE RInv'
  OBVIOUS
<1> IInv /\ IInv' /\ TypeOK /\ GateHolder /\ PhaseOfWorker /\ ServedPass /\ FreshCounters
  BY NextIInv DEF RInv, IInv
<1>1. FreshCounters'
  <2> USE DEF FreshCounters
  <2>1. ASSUME UNCHANGED <<applied, checks>> PROVE FreshCounters'
    BY <2>1
  <2>2. ASSUME NEW k \in Keys, RemoveKeyLocked(k) \/ UntrackIfNoActiveRule(k) PROVE FreshCounters'
    BY <2>2 DEF RemoveKeyLocked, UntrackIfNoActiveRule, TypeOK
  <2>3. CASE ScanStep
    <3> PICK k \in Keys : \/ SkipPid(k) \/ ApplyRule(k) \/ ApplyNoRule(k)
                          \/ Announce(k) \/ WatchFailed(k) \/ RemoveUnobserved(k)
      BY <2>3 DEF ScanStep
    <3>1. CASE ApplyRule(k)
      BY <3>1 DEF ApplyRule, UpdateEntry, InsertEntry, TypeOK
    <3>2. CASE SkipPid(k) \/ Announce(k)
      BY <3>2, <2>1 DEF SkipPid, Announce, NotifyInsertion, table
    <3>3. CASE ApplyNoRule(k) \/ WatchFailed(k) \/ RemoveUnobserved(k)
      BY <3>3, <2>2 DEF ApplyNoRule, WatchFailed, RemoveUnobserved
    <3> QED BY <3>1, <3>2, <3>3
  <2>4. CASE Caller
    BY <2>4, <2>1, <2>2 DEF Caller, ReconcileProcesses, LeaveGate, ApplyToPid, RemoveProcessKey, table
  <2>5. ASSUME NEW k \in Keys, CheckKey(k) PROVE FreshCounters'
    <3>1. applied' = applied /\ (checks' = checks \/ k \in applied)
      BY <2>5 DEF CheckKey, Pending, TypeOK
    <3>2. checks' = checks \/ checks' = [checks EXCEPT ![k] = checks[k] + 1]
      BY <2>5 DEF CheckKey
    <3> QED BY <3>1, <3>2 DEF TypeOK
  <2>6. CASE \/ TimerTick \/ EnterPass \/ WaitFailed \/ BeginShutdown \/ ShutdownStep
             \/ UNCHANGED vars \/ WakeShutdown \/ WakeInsertion \/ WakeTimer \/ Arm
             \/ BeginPass \/ BatchDone \/ GlobalDone \/ PassFailed
    BY <2>6, <2>1 DEF TimerTick, EnterPass, WaitFailed, BeginShutdown, ShutdownStep,
       ShutdownDisable, JoinWorker, WakeShutdown, WakeInsertion, WakeTimer, Arm,
       BeginPass, BatchDone, GlobalDone, PassFailed, vars, table
  <2> QED BY <2>3, <2>4, <2>5, <2>6 DEF Next, WorkerStep
<1>2. ServedPass'
  <2> USE DEF ServedPass
  <2>1. ASSUME UNCHANGED <<worker, phase, shutting_down>> PROVE ServedPass'
    BY <2>1
  <2>2. ASSUME worker' \notin {"enter", "check", "global"} PROVE ServedPass'
    BY <2>2
  <2>3. CASE ScanStep \/ Caller
    <3>1. UNCHANGED <<worker, shutting_down>>
      BY <2>3 DEF ScanStep, Caller, ReconcileProcesses, LeaveGate, ApplyToPid, RemoveProcessKey, stop
    <3>2. phase = "Running" => phase' = "Running"
      BY <2>3 DEF ScanStep, SkipPid, ApplyRule, UpdateEntry, InsertEntry, ApplyNoRule,
         UntrackIfNoActiveRule, Announce, NotifyInsertion, WatchFailed, RemoveUnobserved,
         Caller, ReconcileProcesses, LeaveGate, ApplyToPid, RemoveProcessKey, signals,
         RemoveKeyLocked, ParkIfNoPending
    <3> QED BY <3>1, <3>2
  <2>4. CASE Arm \/ WakeShutdown \/ WakeInsertion \/ WakeTimer \/ WaitFailed \/ PassFailed \/ GlobalDone
    BY <2>4, <2>2 DEF Arm, ArmIfPending, WakeShutdown, WakeInsertion, WakeTimer, WaitFailed,
       PassFailed, GlobalDone
  <2>5. CASE BeginPass
    BY <2>5 DEF BeginPass
  <2>6. CASE EnterPass
    BY <2>6 DEF EnterPass, signals, stop
  <2>7. CASE BatchDone
    BY <2>7 DEF BatchDone, signals, stop
  <2>8. CASE BeginShutdown \/ ShutdownStep
    BY <2>8 DEF BeginShutdown, ShutdownStep, ShutdownDisable, JoinWorker, signals, GateHolder
  <2>9. CASE TimerTick \/ UNCHANGED vars \/ \E k \in Keys : CheckKey(k)
    BY <2>9, <2>1 DEF TimerTick, CheckKey, vars, signals, stop
  <2> QED BY <2>3, <2>4, <2>5, <2>6, <2>7, <2>8, <2>9 DEF Next, WorkerStep
<1> QED BY <1>1, <1>2 DEF RInv

(* A removal is a Drop of BoundedChecks, or nothing. *)
LEMMA RemovalRefines ==
    ASSUME RInv, ~shutting_down, UNCHANGED shutting_down,
           NEW k \in Keys, RemoveKeyLocked(k)
    PROVE  [Checks!CNext]_(Checks!cvars)
<1> TypeOK /\ FreshCounters
  BY DEF RInv, IInv
<1>1. (phase \notin {"Absent", "Disabled"}) = (phase' \notin {"Absent", "Disabled"})
  BY DEF RemoveKeyLocked, ParkIfNoPending
<1>2. CASE k \in applied
  <2>1. Checks!Drop(k)
    BY <1>1, <1>2 DEF RemoveKeyLocked, Checks!Drop
  <2> QED BY <2>1 DEF Checks!CNext
<1>3. CASE k \notin applied
  <2>1. checks' = checks /\ applied' = applied /\ enforcing' = enforcing
    BY <1>3 DEF RemoveKeyLocked, TypeOK, FreshCounters
  <2> QED BY <1>1, <2>1 DEF Checks!cvars
<1> QED BY <1>2, <1>3

(* Every step of the gate's holder is a step of BoundedChecks or nothing. *)
LEMMA ScanStepRefines ==
    ASSUME RInv, ScanStep PROVE [Checks!CNext]_(Checks!cvars)
<1> TypeOK /\ GateHolder /\ FreshCounters
  BY DEF RInv, IInv
<1>1. ~shutting_down /\ UNCHANGED shutting_down
  BY DEF GateHolder, ScanStep, Scanning, stop
<1> PICK k \in Keys : \/ SkipPid(k) \/ ApplyRule(k) \/ ApplyNoRule(k)
                      \/ Announce(k) \/ WatchFailed(k) \/ RemoveUnobserved(k)
  BY DEF ScanStep
<1>2. CASE SkipPid(k)
  BY <1>1, <1>2 DEF SkipPid, Checks!cvars, table, signals
<1>3. CASE ApplyRule(k)
  <2>1. CASE UpdateEntry(k)
    <3>1. Checks!Resume(k)
      BY <1>1, <2>1 DEF UpdateEntry, Checks!Resume, signals
    <3> QED BY <3>1 DEF Checks!CNext
  <2>2. CASE InsertEntry(k)
    <3>1. checks' = checks
      BY <2>2 DEF InsertEntry, TypeOK, FreshCounters
    <3>2. Checks!Track(k)
      BY <1>1, <2>2, <3>1 DEF InsertEntry, Checks!Track, signals
    <3> QED BY <3>2 DEF Checks!CNext
  <2> QED BY <1>3, <2>1, <2>2 DEF ApplyRule
<1>4. CASE ApplyNoRule(k)
  <2>1. CASE RemoveKeyLocked(k)
    BY <1>1, <2>1, RemovalRefines
  <2>2. CASE ~RemoveKeyLocked(k)
    <3>1. /\ enforcing' = enforcing \ {k} /\ UNCHANGED <<applied, checks>> /\ ParkIfNoPending
      BY <1>4, <2>2 DEF ApplyNoRule, UntrackIfNoActiveRule
    <3>2. (phase \notin {"Absent", "Disabled"}) = (phase' \notin {"Absent", "Disabled"})
      BY <3>1 DEF ParkIfNoPending
    <3>3. CASE k \in enforcing
      <4>1. Checks!Suspend(k)
        BY <1>1, <3>1, <3>2, <3>3 DEF Checks!Suspend
      <4> QED BY <4>1 DEF Checks!CNext
    <3>4. CASE k \notin enforcing
      BY <1>1, <3>1, <3>2, <3>4 DEF Checks!cvars
    <3> QED BY <3>3, <3>4
  <2> QED BY <2>1, <2>2
<1>5. CASE Announce(k)
  <2>1. UNCHANGED table /\ phase' \in {phase, "WakePending", "Disabled"}
        /\ (phase' = "WakePending" => phase = phase' \/ phase = "Parked")
    BY <1>5 DEF Announce, NotifyInsertion
  <2>2. CASE phase' = "Disabled"
    BY <1>1, <2>1, <2>2 DEF Checks!CNext, Checks!GiveUp, table
  <2>3. CASE phase' # "Disabled"
    BY <1>1, <2>1, <2>3 DEF Checks!cvars, table
  <2> QED BY <2>2, <2>3
<1>6. CASE WatchFailed(k) \/ RemoveUnobserved(k)
  BY <1>1, <1>6, RemovalRefines DEF WatchFailed, RemoveUnobserved
<1> QED BY <1>2, <1>3, <1>4, <1>5, <1>6

(* Every step of Reconciler is a step of BoundedChecks or nothing. *)
LEMMA NextRefines == RInv /\ [Next]_vars => [Checks!CNext]_(Checks!cvars)
<1> SUFFICES ASSUME RInv, [Next]_vars PROVE [Checks!CNext]_(Checks!cvars)
  OBVIOUS
<1> TypeOK /\ GateHolder /\ PhaseOfWorker /\ ServedPass
  BY DEF RInv, IInv
<1>1. ASSUME UNCHANGED <<table, shutting_down>>,
             phase' = "Disabled" \/ (phase \in {"Absent", "Disabled"} <=> phase' \in {"Absent", "Disabled"})
      PROVE  [Checks!CNext]_(Checks!cvars)
  <2>1. CASE phase' = "Disabled"
    BY <1>1, <2>1 DEF Checks!CNext, Checks!GiveUp, table
  <2>2. CASE phase' # "Disabled"
    <3>1. (phase \notin {"Absent", "Disabled"}) = (phase' \notin {"Absent", "Disabled"})
      BY <1>1, <2>2
    <3> QED BY <1>1, <3>1 DEF Checks!cvars, table
  <2> QED BY <2>1, <2>2
<1>2. CASE ScanStep
  BY <1>2, ScanStepRefines
<1>3. CASE Caller
  <2>1. ASSUME NEW k \in Keys, RemoveProcessKey(k) PROVE [Checks!CNext]_(Checks!cvars)
    BY <2>1, RemovalRefines DEF RemoveProcessKey, CallerMayEnter, stop
  <2>2. CASE ReconcileProcesses \/ LeaveGate \/ \E k \in Keys : ApplyToPid(k)
    BY <2>2, <1>1 DEF ReconcileProcesses, LeaveGate, ApplyToPid, signals, stop
  <2> QED BY <1>3, <2>1, <2>2 DEF Caller
<1>4. ASSUME NEW k \in Keys, CheckKey(k) PROVE [Checks!CNext]_(Checks!cvars)
  <2>1. worker = "check" /\ UNCHANGED <<applied, enforcing, phase, shutting_down>>
    BY <1>4 DEF CheckKey, signals, stop
  <2>2. CASE k \in Pending
    <3>1. ~shutting_down /\ phase = "Running"
      BY <2>1 DEF GateHolder, ServedPass
    <3>2. checks' = [checks EXCEPT ![k] = checks[k] + 1]
      BY <1>4, <2>2 DEF CheckKey
    <3>3. k \in Checks!Owed
      BY <2>2 DEF Pending, Checks!Owed
    <3>4. Checks!Check(k)
      BY <2>1, <3>1, <3>2, <3>3 DEF Checks!Check
    <3> QED BY <3>4 DEF Checks!CNext
  <2>3. CASE k \notin Pending
    BY <1>4, <2>1, <2>3 DEF CheckKey, Checks!cvars
  <2> QED BY <2>2, <2>3
<1>5. CASE Arm \/ BeginPass
  BY <1>5, <1>1 DEF Arm, ArmIfPending, BeginPass, PhaseOfWorker, stop
<1>6. CASE WaitFailed \/ PassFailed \/ ShutdownDisable
  BY <1>6, <1>1 DEF WaitFailed, PassFailed, ShutdownDisable, Disable, stop
<1>7. CASE \/ TimerTick \/ WakeShutdown \/ WakeInsertion \/ WakeTimer \/ BatchDone
           \/ GlobalDone \/ EnterPass \/ JoinWorker \/ UNCHANGED vars
  BY <1>7, <1>1 DEF TimerTick, WakeShutdown, WakeInsertion, WakeTimer, BatchDone,
     GlobalDone, EnterPass, JoinWorker, signals, stop, vars
<1>8. CASE BeginShutdown
  <2>1. Checks!Close
    BY <1>8 DEF BeginShutdown, Checks!Close, table, signals
  <2> QED BY <2>1 DEF Checks!CNext
<1> QED BY <1>2, <1>3, <1>4, <1>5, <1>6, <1>7, <1>8 DEF Next, WorkerStep, ShutdownStep

(* The coordinator implements BoundedChecks for every set of instances,     *)
(* every limit and both builds.                                             *)
THEOREM ReconcilerImplementsBoundedChecks == Spec => ImplementsBoundedChecks
<1>1. Init => Checks!CInit
  BY DEF Init, Checks!CInit
<1> QED BY <1>1, InitRInv, NextRInv, NextRefines, PTL DEF Spec, ImplementsBoundedChecks, Checks!CSpec
=============================================================================
