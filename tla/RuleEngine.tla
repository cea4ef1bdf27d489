----------------------------- MODULE RuleEngine -----------------------------
(***************************************************************************)
(* The rule engine of src/engine.rs with the processes behind its keys:    *)
(* processes start, exit and have their PID reused; ETW events of src/etw.rs *)
(* name a PID or an instance and arrive late, in any order, or not at all; *)
(* full scans and single visits resolve a PID to whoever has it now; the   *)
(* power profile changes in the middle; watchers remove what has exited.   *)
(*                                                                         *)
(* Every operation holds the mutex `watcher_activity' (here: gate), and    *)
(* processes, events and profile move on between its steps.  When a pass   *)
(* runs is the subject of Reconciler, which has the timer; what a policy   *)
(* writes, and what a change of the registry does to it, of ProcessPolicy. *)
(* This is the default build: an entry without a rule is removed.          *)
(***************************************************************************)
EXTENDS Naturals, FiniteSets

(* Definitions that start with Mut are plausible bugs in the code that the  *)
(* definition after them models; the mutation checks swap them in.          *)

CONSTANTS
    Instances,       \* process instances (PID and creation time)
    NoInstance,
    PidOf,           \* the PID of each instance: several may share one
    ImageOf,         \* the image each instance runs
    Ruled,           \* images with a policy in the registry
    MaxChecks,       \* MAX_RECONCILIATION_CHECKS
    MaxGeneration,   \* bound: changes of the power profile
    MaxWatchers      \* bound: watcher threads of one instance at a time

ASSUME InstancesAssumption == IsFiniteSet(Instances) /\ NoInstance \notin Instances
ASSUME LimitsAssumption ==
    MaxChecks \in Nat \ {0} /\ MaxGeneration \in Nat /\ MaxWatchers \in Nat \ {0}

VARIABLES
    alive,          \* running instances
    occupant,       \* the instance a PID stands for; it may have exited
    born,           \* instances that have started
    etw,            \* is the trace session delivering events
    events,         \* start and stop events not yet delivered
    generation,     \* generation of profile_state
    owed,           \* full scans some thread is on its way to, by reason
    applied,        \* instances with an entry in the table
    signature,      \* profile_generation of each entry's signature
    checks,         \* reconciliation_checks of each entry
    watchers,       \* watcher threads waiting for each instance
    worker,         \* is the reconciliation worker in its loop
    gate,           \* operation that holds watcher_activity
    expected,       \* instance the current visit must find, or NoInstance
    todo,           \* PIDs still to visit
    removable,      \* candidates of the full scan not observed so far
    visit,          \* apply_to_pid_inner in progress: instance, profile, rule
    batch,          \* keys of the pass still to be checked
    drift,          \* identity_drift of the pass
    stopper,        \* control state of RuleEngine::shutdown
    shutdown_event,
    (* What happened, for the properties only. *)
    excused,        \* running instances whose last visit or scan failed
    deaf,           \* entries whose watcher ended with an unexpected wait
    foreign         \* instances that were given a policy for another image

windows  == <<alive, occupant, born>>
trace    == <<etw, events>>
profile  == <<generation, owed>>
table    == <<applied, signature, checks>>
op       == <<gate, expected, todo, removable, visit>>
pass     == <<worker, batch, drift>>
stop     == <<stopper, shutdown_event>>
history  == <<excused, deaf, foreign>>
vars == <<windows, trace, profile, table, watchers, op, pass, stop, history>>

Pids    == {PidOf[i] : i \in Instances}
Reasons == {"startup", "lost", "power"}
NoVisit == [instance |-> NoInstance, generation |-> 0, rule |-> FALSE]
Visits  == [instance : Instances, generation : 0..MaxGeneration, rule : BOOLEAN]
Events  == {"start", "stop"} \X Instances
HasRule(i) == ImageOf[i] \in Ruled
shutting_down == stopper # "idle"

(* Processes may run before the engine exists; they raise no event. *)
Init ==
    /\ alive = {} /\ occupant = [p \in Pids |-> NoInstance] /\ born = {}
    /\ etw = FALSE /\ events = {}
    /\ generation = 0 /\ owed = [r \in Reasons |-> 0]
    /\ applied = {}
    /\ signature = [i \in Instances |-> 0] /\ checks = [i \in Instances |-> 0]
    /\ watchers = [i \in Instances |-> 0]
    /\ gate = "free" /\ expected = NoInstance /\ todo = {} /\ removable = {}
    /\ visit = NoVisit
    /\ worker \in BOOLEAN /\ batch = {} /\ drift = FALSE
    /\ stopper = "idle" /\ shutdown_event = FALSE
    /\ excused = {} /\ deaf = {} /\ foreign = {}

-----------------------------------------------------------------------------
(* Windows: processes, their PIDs and the trace session.  A PID is reused   *)
(* once its occupant has exited: the engine's open handle would keep the    *)
(* PID, but no step of the engine counts on that.  What starts, is lost or  *)
(* changes after shutting_down is set meets no operation any more and is    *)
(* left out.                                                                *)

StartProcess(i) ==
    /\ ~shutting_down
    /\ i \notin born /\ occupant[PidOf[i]] \notin alive
    /\ born' = born \cup {i} /\ alive' = alive \cup {i}
    /\ occupant' = [occupant EXCEPT ![PidOf[i]] = i]
    /\ events' = IF etw THEN events \cup {<<"start", i>>} ELSE events
    /\ UNCHANGED <<etw, profile, table, watchers, op, pass, stop, history>>

ExitProcess(i) ==
    /\ i \in alive
    /\ alive' = alive \ {i}
    /\ events' = IF etw THEN events \cup {<<"stop", i>>} ELSE events
    /\ excused' = excused \ {i}
    /\ UNCHANGED <<occupant, born, etw, profile, table, watchers, op, pass, stop, deaf, foreign>>

(* The session runs out of buffers.  Its count of lost events goes up, and  *)
(* the next buffer callback finds it higher than what was reconciled.       *)
LoseEvent(e) ==
    /\ ~shutting_down
    /\ e \in events
    /\ events' = events \ {e}
    /\ owed' = [owed EXCEPT !["lost"] = 1]
    /\ UNCHANGED <<windows, etw, generation, table, watchers, op, pass, stop, history>>

(* service_main: the session delivers events before the start-up scan. *)
StartMonitor ==
    /\ ~etw /\ ~shutting_down
    /\ etw' = TRUE /\ owed' = [owed EXCEPT !["startup"] = 1]
    /\ UNCHANGED <<windows, events, generation, table, watchers, op, pass, stop, history>>

-----------------------------------------------------------------------------
(* Changes of the table. *)

RemoveKey(i) ==
    /\ applied' = applied \ {i}
    /\ signature' = [signature EXCEPT ![i] = 0]
    /\ checks' = [checks EXCEPT ![i] = 0]
    /\ deaf' = deaf \ {i}

MayEnter == gate = "free" /\ ~shutting_down

(* The power callback: the compare-and-swap of a profile that differs from  *)
(* the current one.  The callback's thread then goes on to a full scan.     *)
SetPowerProfile ==
    /\ ~shutting_down /\ generation < MaxGeneration
    /\ generation' = generation + 1
    /\ owed' = [owed EXCEPT !["power"] = @ + 1]
    /\ UNCHANGED <<windows, trace, table, watchers, op, pass, stop, history>>

-----------------------------------------------------------------------------
(* Events.  Classic events name a PID, modern ones an instance; a modern    *)
(* event without a creation time, and every classic stop, is ignored.       *)

(* What can be read of an event record: the PID and the creation time as    *)
(* named properties, the PID as the first field of the raw data.            *)
EventFields == {"pid", "time", "data"}

Decoded(provider, fields) ==
    /\ fields \cap {"pid", "data"} # {}
    /\ provider = "modern" => "time" \in fields

Route(kind, provider, decoded) ==
    CASE decoded /\ kind = "start" /\ provider = "classic" -> "ApplyClassic"
      [] decoded /\ kind = "start" /\ provider = "modern"  -> "ApplyExact"
      [] decoded /\ kind = "stop" /\ provider = "modern"   -> "RemoveExact"
      [] OTHER -> "Ignore"

(* apply_to_pid, apply_to_pid_expected: one visit. *)
ApplyToPid(i, exact) ==
    /\ gate' = "apply" /\ todo' = {PidOf[i]}
    /\ expected' = IF exact THEN i ELSE NoInstance
    /\ UNCHANGED <<table, removable, visit, excused, deaf>>

MutRemoveByPid(i) ==
    LET j == occupant[PidOf[i]] IN
    /\ applied' = applied \ {i, j}
    /\ signature' = [k \in Instances |-> IF k \in {i, j} THEN 0 ELSE signature[k]]
    /\ checks' = [k \in Instances |-> IF k \in {i, j} THEN 0 ELSE checks[k]]
    /\ deaf' = deaf \ {i, j}
    /\ UNCHANGED <<op, excused>>

RemoveProcessKey(i) == RemoveKey(i) /\ UNCHANGED <<op, excused>>

IgnoreEvent(kind, i) ==
    /\ excused' = excused \cup IF kind = "start" THEN {i} \cap alive ELSE {}
    /\ UNCHANGED <<table, op, deaf>>

HandleEvent(kind, i) ==
    /\ MayEnter /\ <<kind, i>> \in events
    /\ events' = events \ {<<kind, i>>}
    /\ \E provider \in {"classic", "modern"}, fields \in SUBSET EventFields :
          LET action == Route(kind, provider, Decoded(provider, fields)) IN
          \/ action = "ApplyClassic" /\ ApplyToPid(i, FALSE)
          \/ action = "ApplyExact" /\ ApplyToPid(i, TRUE)
          \/ action = "RemoveExact" /\ RemoveProcessKey(i)
          \/ action = "Ignore" /\ IgnoreEvent(kind, i)
    /\ UNCHANGED <<windows, etw, profile, watchers, pass, stop, foreign>>

-----------------------------------------------------------------------------
(* Full scans. *)

Snapshot == {PidOf[i] : i \in alive}

(* The candidates for removal, then the PIDs that are running. *)
BeginScan(r) ==
    /\ MayEnter /\ owed[r] > 0
    /\ owed' = [owed EXCEPT ![r] = @ - 1]
    /\ gate' = "scan" /\ removable' = applied /\ todo' = Snapshot
    /\ UNCHANGED <<windows, trace, generation, table, watchers, expected, visit, pass, stop, history>>

(* The snapshot cannot be taken or read.  Callers log it; after a failed    *)
(* start-up scan service_main shuts down, which BeginShutdown allows at any *)
(* time.                                                                    *)
ScanFails(r) ==
    /\ MayEnter /\ owed[r] > 0
    /\ owed' = [owed EXCEPT ![r] = @ - 1]
    /\ excused' = alive
    /\ UNCHANGED <<windows, trace, generation, table, watchers, op, pass, stop, deaf, foreign>>

(* The thread comes after the engine was shut down. *)
ScanRefused(r) ==
    /\ gate = "free" /\ shutting_down /\ owed[r] > 0
    /\ owed' = [owed EXCEPT ![r] = @ - 1]
    /\ UNCHANGED <<windows, trace, generation, table, watchers, op, pass, stop, history>>

RemoveUnobserved(i) ==
    /\ gate = "scan" /\ todo = {} /\ visit = NoVisit /\ i \in removable
    /\ removable' = removable \ {i}
    /\ RemoveKey(i)
    /\ UNCHANGED <<windows, trace, profile, watchers, gate, expected, todo, visit, pass, stop, excused, foreign>>

LeaveGate ==
    /\ gate \in {"apply", "scan"} /\ todo = {} /\ visit = NoVisit /\ removable = {}
    /\ gate' = "free" /\ expected' = NoInstance
    /\ UNCHANGED <<windows, trace, profile, table, watchers, todo, removable, visit, pass, stop, history>>

-----------------------------------------------------------------------------
(* One visit: apply_to_pid_inner. *)

(* The PID is resolved to its occupant, and the profile and the rule are    *)
(* read.  A policy that cannot be read counts as no rule.                   *)
ResolvePid(p) ==
    LET i == occupant[p] IN
    /\ gate \in {"apply", "scan"} /\ visit = NoVisit /\ p \in todo
    /\ todo' = todo \ {p}
    /\ i # NoInstance /\ expected \in {NoInstance, i}
    /\ \E rule \in {HasRule(i), FALSE} :
          visit' = [instance |-> i, generation |-> generation, rule |-> rule]
    /\ UNCHANGED <<windows, trace, profile, table, watchers, gate, expected, removable, pass, stop, history>>

(* Access denied, gone, unusable image name, or not the expected instance. *)
SkipPid(p) ==
    LET i == occupant[p] IN
    /\ gate \in {"apply", "scan"} /\ visit = NoVisit /\ p \in todo
    /\ todo' = todo \ {p}
    /\ excused' = IF expected \in {NoInstance, i} THEN excused \cup ({i} \cap alive) ELSE excused
    /\ UNCHANGED <<windows, trace, profile, table, watchers, gate, expected, removable, visit, pass, stop, deaf, foreign>>

(* The visit ends, and its key counts as observed. *)
Observed(i) == removable' = removable \ {i} /\ visit' = NoVisit

MutUpdateKeepsSignature(i) ==
    /\ visit.rule /\ i \in applied
    /\ excused' = excused \ {i}
    /\ Observed(i)
    /\ UNCHANGED <<table, watchers, deaf>>

(* apply_or_update_rule for an entry: new signature, counter kept. *)
UpdateEntry(i) ==
    /\ visit.rule /\ i \in applied
    /\ signature' = [signature EXCEPT ![i] = visit.generation]
    /\ excused' = excused \ {i}
    /\ Observed(i)
    /\ UNCHANGED <<applied, checks, watchers, deaf>>

MutInsertByScanUnwatched(i) ==
    /\ visit.rule /\ i \notin applied
    /\ watchers[i] < MaxWatchers
    /\ applied' = applied \cup {i}
    /\ signature' = [signature EXCEPT ![i] = visit.generation]
    /\ watchers' = IF gate = "scan" THEN watchers ELSE [watchers EXCEPT ![i] = @ + 1]
    /\ excused' = excused \ {i}
    /\ Observed(i)
    /\ UNCHANGED <<checks, deaf>>

(* A new entry, its counter and its watcher thread. *)
InsertEntry(i) ==
    /\ visit.rule /\ i \notin applied
    /\ watchers[i] < MaxWatchers
    /\ applied' = applied \cup {i}
    /\ signature' = [signature EXCEPT ![i] = visit.generation]
    /\ watchers' = [watchers EXCEPT ![i] = @ + 1]
    /\ excused' = excused \ {i}
    /\ Observed(i)
    /\ UNCHANGED <<checks, deaf>>

(* The watcher thread cannot be started: the new entry is removed again,    *)
(* the policy was written all the same.                                     *)
WatchFails(i) ==
    /\ visit.rule /\ i \notin applied
    /\ excused' = excused \cup ({i} \cap alive)
    /\ visit' = NoVisit
    /\ UNCHANGED <<table, watchers, removable, deaf>>

UntrackIfNoActiveRule(i) ==
    /\ ~visit.rule
    /\ RemoveKey(i)
    /\ excused' = IF HasRule(i) THEN excused \cup ({i} \cap alive) ELSE excused \ {i}
    /\ Observed(i)
    /\ UNCHANGED watchers

EndVisit(i) ==
    /\ visit.instance = i /\ visit # NoVisit
    /\ \/ UpdateEntry(i) \/ InsertEntry(i) \/ WatchFails(i) \/ UntrackIfNoActiveRule(i)
    /\ UNCHANGED <<windows, trace, profile, gate, expected, todo, pass, stop, foreign>>

-----------------------------------------------------------------------------
(* One pass of the reconciliation worker. *)

MutPending == {i \in applied : checks[i] <= MaxChecks}

Pending == {i \in applied : checks[i] < MaxChecks}

BeginPass ==
    /\ MayEnter /\ worker /\ Pending # {}
    /\ gate' = "pass" /\ batch' = Pending
    /\ UNCHANGED <<windows, trace, profile, table, watchers, expected, todo, removable, visit, worker, drift, stop, history>>

(* A policy resolved for the image of i is written to j. *)
Repair(j, i) == foreign' = IF ImageOf[j] = ImageOf[i] THEN foreign ELSE foreign \cup {j}

MutCheckByPid(i) ==
    \/ drift' = (drift \/ i \notin alive) /\ UNCHANGED foreign
    \/ Repair(occupant[PidOf[i]], i) /\ UNCHANGED drift

(* A PID that cannot be resolved means drift only when the instance's own   *)
(* handle says it exited.  A PID that resolves to another instance is       *)
(* drift; otherwise the entry's policy is inspected and repaired through    *)
(* the handle just opened.                                                  *)
CheckIdentity(i) ==
    \/ drift' = (drift \/ i \notin alive) /\ UNCHANGED foreign
    \/ occupant[PidOf[i]] # i /\ drift' = TRUE /\ UNCHANGED foreign
    \/ occupant[PidOf[i]] = i /\ Repair(i, i) /\ UNCHANGED drift

CheckKey(i) ==
    /\ gate = "pass" /\ i \in batch
    /\ batch' = batch \ {i}
    /\ checks' = [checks EXCEPT ![i] = @ + 1]
    /\ CheckIdentity(i)
    /\ UNCHANGED <<windows, trace, profile, applied, signature, watchers, op, worker, stop, excused, deaf>>

(* The batch ends; drift of any of its keys causes one full scan.  When no  *)
(* snapshot can be taken the worker leaves its loop for good; when it       *)
(* cannot be read, the pass ends.                                           *)
EndPass ==
    /\ gate = "pass" /\ batch = {}
    /\ drift' = FALSE
    /\ \/ ~drift /\ gate' = "free" /\ UNCHANGED <<removable, todo, worker>>
       \/ drift /\ gate' = "scan" /\ removable' = applied /\ todo' = Snapshot /\ UNCHANGED worker
       \/ drift /\ gate' = "free" /\ worker' \in BOOLEAN /\ UNCHANGED <<removable, todo>>
    /\ UNCHANGED <<windows, trace, profile, table, watchers, expected, visit, batch, stop, history>>

-----------------------------------------------------------------------------
(* Watcher threads: each waits for the shutdown event and for its process,  *)
(* the former first, and acts once.                                         *)

MutWatcherLeavesPending(i) ==
    /\ watchers[i] > 0 /\ i \in born \ alive /\ gate = "free" /\ i \notin Pending
    /\ watchers' = [watchers EXCEPT ![i] = @ - 1]
    /\ IF shutting_down THEN UNCHANGED <<table, deaf>> ELSE RemoveKey(i)
    /\ UNCHANGED <<windows, trace, profile, op, pass, stop, excused, foreign>>

WatcherSignaled(i) ==
    /\ watchers[i] > 0 /\ i \in born \ alive /\ gate = "free"
    /\ watchers' = [watchers EXCEPT ![i] = @ - 1]
    /\ IF shutting_down THEN UNCHANGED <<table, deaf>> ELSE RemoveKey(i)
    /\ UNCHANGED <<windows, trace, profile, op, pass, stop, excused, foreign>>

WatcherShutdown(i) ==
    /\ watchers[i] > 0 /\ shutdown_event
    /\ watchers' = [watchers EXCEPT ![i] = @ - 1]
    /\ UNCHANGED <<windows, trace, profile, table, op, pass, stop, history>>

WatcherUnexpected(i) ==
    /\ watchers[i] > 0
    /\ watchers' = [watchers EXCEPT ![i] = @ - 1]
    /\ deaf' = deaf \cup ({i} \cap applied)
    /\ UNCHANGED <<windows, trace, profile, table, op, pass, stop, excused, foreign>>

-----------------------------------------------------------------------------
(* RuleEngine::shutdown, after service_main has stopped the trace session.  *)
(* A failure to signal the event is only logged.                            *)

BeginShutdown ==
    /\ stopper = "idle" /\ gate = "free"
    /\ etw' = FALSE /\ events' = {}
    /\ stopper' = "join" /\ shutdown_event' \in BOOLEAN
    /\ UNCHANGED <<windows, profile, table, watchers, op, pass, history>>

(* The joins: first the worker, which leaves its loop, then every watcher. *)
JoinThreads ==
    /\ stopper = "join" /\ \A i \in Instances : watchers[i] = 0
    /\ stopper' = "done" /\ worker' = FALSE
    /\ UNCHANGED <<windows, trace, profile, table, watchers, op, batch, drift, shutdown_event, history>>

-----------------------------------------------------------------------------
Windows ==
    \/ \E i \in Instances : StartProcess(i) \/ ExitProcess(i)
    \/ \E e \in Events : LoseEvent(e)

Callers ==
    \/ StartMonitor \/ SetPowerProfile \/ BeginShutdown
    \/ \E i \in Instances : HandleEvent("start", i) \/ HandleEvent("stop", i)
    \/ \E r \in Reasons : BeginScan(r) \/ ScanFails(r) \/ ScanRefused(r)

GateStep ==
    \/ LeaveGate \/ EndPass
    \/ \E p \in Pids : ResolvePid(p) \/ SkipPid(p)
    \/ \E i \in Instances : EndVisit(i) \/ RemoveUnobserved(i) \/ CheckKey(i)

Watcher(i) == WatcherSignaled(i) \/ WatcherShutdown(i)

Next ==
    \/ Windows \/ Callers \/ GateStep \/ BeginPass \/ JoinThreads
    \/ \E i \in Instances : Watcher(i) \/ WatcherUnexpected(i)

Spec == Init /\ [][Next]_vars

(* Whoever holds the gate goes on and lets go of it; a watcher whose wait   *)
(* is over gets the gate although others take it in between.                *)
Fairness ==
    /\ WF_vars(GateStep)
    /\ \A i \in Instances : SF_vars(Watcher(i))

FairSpec == Spec /\ Fairness
-----------------------------------------------------------------------------
(* Properties. *)

(* The shape of the state; no counter passes the limit. *)
TypeOK ==
    /\ alive \subseteq born /\ born \subseteq Instances
    /\ occupant \in [Pids -> Instances \cup {NoInstance}]
    /\ etw \in BOOLEAN /\ events \subseteq Events
    /\ generation \in 0..MaxGeneration /\ owed \in [Reasons -> 0..(MaxGeneration + 1)]
    /\ applied \subseteq Instances
    /\ signature \in [Instances -> 0..MaxGeneration]
    /\ checks \in [Instances -> 0..MaxChecks]
    /\ watchers \in [Instances -> 0..MaxWatchers]
    /\ gate \in {"free", "apply", "scan", "pass"}
    /\ expected \in Instances \cup {NoInstance}
    /\ todo \subseteq Pids /\ removable \subseteq Instances /\ visit \in Visits \cup {NoVisit}
    /\ worker \in BOOLEAN /\ batch \subseteq Instances /\ drift \in BOOLEAN
    /\ stopper \in {"idle", "join", "done"} /\ shutdown_event \in BOOLEAN
    /\ excused \subseteq Instances /\ deaf \subseteq Instances /\ foreign \subseteq Instances

(* A visit to the instance is certain to come or under way. *)
VisitComes(i) ==
    \/ ~etw \/ owed["startup"] > 0 \/ owed["lost"] > 0 \/ <<"start", i>> \in events
    \/ PidOf[i] \in todo \/ visit.instance = i

(* No process is missed.  A running process whose image has a policy is in  *)
(* the table, or its start event, the start-up scan or the scan for lost    *)
(* events will still visit it, unless its last visit or a scan failed.      *)
(* Processes that start during start-up, stale events of an earlier owner   *)
(* of the PID and removals by scans and watchers make no gap.               *)
NoProcessMissed ==
    shutting_down \/ \A i \in alive :
        HasRule(i) => i \in applied \/ i \in excused \/ VisitComes(i)

(* Entries do not outlive their process unseen: every entry has a watcher   *)
(* thread, unless the wait of its watcher failed.                           *)
EntryIsWatched == shutting_down \/ \A i \in applied : watchers[i] > 0 \/ i \in deaf

(* A change of the power profile reaches every running process: an entry of *)
(* an earlier generation, even one whose visit read the profile just before *)
(* it changed, is still to be visited or removed by a full scan that a      *)
(* power callback is on its way to or that is running, unless one failed.   *)
StaleSignatureIsRescanned ==
    shutting_down \/ \A i \in applied \cap alive :
        \/ signature[i] = generation \/ owed["power"] > 0 \/ i \in removable \/ i \in excused

(* Policies stay with their process: after PID reuse no instance is given   *)
(* the policy that was resolved for another image.                          *)
OnlyOwnPolicy == foreign = {}

(* An exited process leaves the table, although its stop event may be lost, *)
(* delayed or of the kind that is ignored; only a failed wait of its        *)
(* watcher may keep it.                                                     *)
ExitedLeaves ==
    \A i \in Instances :
        i \in applied \ alive ~> i \notin applied \/ i \in deaf \/ shutting_down

(* What src/README.md says of the counters: they belong to instances and    *)
(* saturate.  A running process that had its checks is not checked again.   *)
SaturationIsFinal ==
    \A i \in Instances :
        [](checks[i] = MaxChecks => [](i \in applied \cap alive => checks[i] = MaxChecks))
=============================================================================
