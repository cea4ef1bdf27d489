# Affix in TLA+

Affix is a Windows service that finds processes named in the registry and sets their affinity, priority
class and EcoQoS, first when they start (ETW events) and then in a few later checks. These modules model
the parts of `src/` in which threads, Windows callbacks and failures meet, and the algorithms whose results
end up in other people's processes. TLC checks them on small instances; TLAPS proves every safety property
that the runs check for every value of the constants.

## 1. The system

| Component | Source | State | Operations | Interacts with |
| --- | --- | --- | --- | --- |
| tracked-process table | `engine.rs` | `applied`: one entry per PID and creation time, with signature, policy, counter, handle, job, failures | apply or update a rule, untrack, remove, full scan | everything below, under `watcher_activity` (the gate), a mutation stripe and the `applied` lock |
| bounded reconciler | `engine.rs` | phase, insertion event, waitable timer, worker thread | announce an insertion, park, arm, run a pass, disable | reads and writes the table; woken by insertions, removals, the timer, shutdown |
| process watchers | `engine.rs` | one thread per insertion | wait for exit, remove the entry | table, shutdown event |
| power profile | `engine.rs`, `power.rs` | profile and generation packed in one atomic; the registration with Windows | compare-and-swap, full scan on change | its callback enters the engine |
| ETW monitor | `etw.rs` | kernel session with a fixed name, trace handle, closed flag, thread | start, stop, deliver events | its thread enters the engine |
| lost-event state | `etw.rs` | three atomics | agree who runs the full scan | ETW callbacks, full scan |
| service lifecycle | `service.rs` | stop event, its published raw handle, request flag, status handle | `service_main`, control handler | owns engine and monitors |
| service installation | `service.rs` | none of its own | stop, wait, delete, create | service control manager |
| process policy | `process.rs` | settings and job of one process | resolve, apply, inspect, repair | engine, Windows |
| affinity, topology | `affinity.rs`, `topology.rs` | none | read the topology, compute a mask | process policy |
| registry store | `registry.rs` | none (uncached) | read one policy | engine |
| image identity | `identity.rs` | none | normalise a name | engine |
| diagnostics | `diagnostics.rs` | a named shared-memory page (debug builds) that outlives its process while somebody reads it | create, publish, give up, read | engine, `affix diagnostics` |

What is hard about it, and what correctness means:

- **Wakeups.** Any thread may insert or remove entries while the worker is between its wait, its lock and
  its timer. Every instance must get its checks (no lost wakeup), an idle machine must not be woken (no
  idle timer), joining instances must not delay the others (no deadline reset), counters must not restart.
- **Shutdown.** Every blocking point needs a way out, and nothing may touch processes afterwards.
- **Hand-over without locks.** Lost events observed by a caller that finds the flag taken must be handled
  by the owner.
- **Start and stop of the service** with a stop request at any moment and any step failing: the service
  control manager must see a sane sequence of states, and nothing may be left running.
- **Partial failure of policies.** Each Windows call fails on its own; the process changes its settings
  between two calls; one failing component must not hide another.
- **Masks.** They must name processors that may be used, whatever the machine looks like.
- **Identity.** PIDs are reused, events arrive late, out of order or not at all, scans fail. No process with
  a policy may be missed, no policy may reach a process it was not resolved for, no exited process may stay
  in the table.
- **Named kernel objects.** A trace session and a shared page survive killed or slow processes; the next
  process must neither be blocked by them for good nor write into what another one owns.
- **Replacement of an installed service** through the service control manager, with deadlines.

`PROJECT.json` lists these as hazards, each at its line with the properties that cover it.

## 2. Modules

| Module | Models | Builds on | Proofs |
| --- | --- | --- | --- |
| `BoundedChecks` | what the bounded reconciler promises, abstractly | | |
| `Reconciler` | table, coordinator, worker loop, gate, scans, engine shutdown | instantiates `BoundedChecks` | `ReconcilerProofs` |
| `RuleEngine` | the processes behind the table: PIDs, events, scans, profile, watchers, passes | | `RuleEngineProofs` |
| `LostEvents` | `LostEventState::reconcile`, one memory operation per action | | `LostEventsProofs` |
| `ServiceMain` | `service_main`, the control handler, monitor callbacks | | `ServiceProofs` |
| `ServiceInstall` | `install_service` and the service control manager | extends `ServiceMain` | `ServiceProofs` |
| `EtwMonitor` | session, trace handle and thread over several processes in a row | | `DiagnosticsProofs` |
| `Diagnostics` | publishers and readers of the shared page, over the same processes | extends `EtwMonitor` | `DiagnosticsProofs` |
| `ProcessPolicy` | one process instance: apply, inspect, repair, priority job | | `ProcessPolicyProofs` |
| `Affinity` | topology reading, tiers, masks | | `AffinityProofs` |

`MCReconciler`, `MCRuleEngine`, `MCAffinity` and `MCProcessPolicy` give TLC symmetry, PIDs and images,
machines and expressions, and rules. The other configurations use the modules directly. Definitions whose
names start with `Mut` are plausible bugs; substituting one for the definition it imitates must violate the
property listed with it, which shows that the property depends on the code.

The engine appears at three grains, because one state space with all of it is out of reach. `Reconciler` has
every step of the coordinator but treats a key as an opaque instance; `RuleEngine` has the instances, PIDs,
events and generations behind the keys but one action for a whole critical section of a pass; `ProcessPolicy`
has one instance and every Windows call. What one grain leaves open, another one allows in every order: a
pass of `RuleEngine` may begin whenever something is pending, a visit of `Reconciler` may end in any way.

### Reconciler

One action is one critical section of `applied` and `reconciler`. All threads that change the table hold
`watcher_activity` for the whole operation, so they are one anonymous caller (`gate`). A scan is a set of
PIDs still to do; each PID is skipped, gets a rule or has none. An insertion takes two steps, as in the
code: the entry appears (`InsertEntry`), then it is watched and announced (`Announce`) or taken out again
(`WatchFailed`). In between the worker can see it. The worker's wait, arm, begin and disable steps run
outside the gate, and so does the second half of shutdown.

`timer` distinguishes *due late* from *due soon*, so that setting a running timer again is visible.
`CancelTimer` may fail, and does not clear a timer that has fired. `CheckKey` abstracts what a check does
to the process (that is `ProcessPolicy`) to its two results: the counter advances, and identity drift may
be reported. `PriorityJob` selects the build: with the `priority-job` feature an entry without a rule may be
retained with enforcement off.

### BoundedChecks and the refinement

`BoundedChecks` has no timer, no worker and no lock: instances are tracked, suspended, resumed and dropped, an
enforced instance is owed `MaxChecks` checks, and checks are done until the service gives up checking or
closes. `Reconciler` implements it with `tracked` as `applied`, `enforced` as `enforcing`, `done` as `checks`,
`serving` as "the phase is neither `Absent` nor `Disabled`", and `open` as the negation
of `shutting_down`. A removal by a scan is a `Drop`, a retained entry a `Suspend`, a pass one `Check` per key;
everything the timer, the events and the phases do is a stutter. `ImplementsBoundedChecks` is the safety part and is
also proved; `OwedChecksAreDone` adds the weak fairness of each `Check`: an instance that stays owed gets its next
check, whatever the timer, parking and shutdown did before.

### RuleEngine

`Instances` are PID and creation time; `PidOf` maps several of them to one PID, and `occupant` is the instance
a PID stands for now. Events carry the instance they were raised for, wait in a set (late and in any order) or
are lost, which makes a scan due, as the session's count does. `Decoded` says which fields of a record must be
readable and `Route` what the four kinds of event do: a classic start names only a PID and is applied to whoever has it, a
modern start must find its instance, a modern stop removes exactly its key, a classic stop is ignored. A visit takes two
steps, resolving the PID with profile and rule (`ResolvePid`) and the effect (`EndVisit`), and processes, events
and the profile move on in between. `SetPowerProfile` is the compare-and-swap; the scan after it is `owed` until its
thread gets the gate. Watchers are counted per instance, since an instance that is inserted again gets a second one. The
identity check of a pass resolves the PID, or uses the retained handle, and reports drift, which turns the pass into
a full scan.

Three history variables only serve the properties. `excused` are running instances whose last visit or scan
failed (access denied, unreadable policy, watcher not started, no snapshot): the code gives these up until
something else visits them. `deaf` are entries whose watcher ended with an unexpected wait result, which the code
only logs. `foreign` are instances that received a policy resolved for another image.

### LostEvents

Each atomic operation of `reconcile` is an action. `store_buffer`, chosen at the start, allows the release store of the flag to be
seen later than the loads that follow it in program order, as x86-64 allows; read-modify-write operations
drain the buffer.

### ServiceMain

Sections of `SERVICE_STOP_EVENT_GATE` and the calls of `service_main` are actions; every start-up call can
fail. The handler can run from its registration on, also while `service_main` returns. The engine and the
monitors are only up or down here; `Reconciler` and `EtwMonitor` have their insides.

### ServiceInstall

The old service is `ServiceMain` with its whole start-up and shutdown, so the installer meets it in any state.
`ControlStop` runs the control handler, finds the service inactive, or is refused, which the code logs and
does not retry. Each polling loop looks at the state and then at its deadline. The record of a deleted service stays
until the service has stopped and the last handle is closed; others may hold one, so `RemoveRecord` has no fairness.

### EtwMonitor

The session outlives its process. `NewProcess` models an end or a kill at any point, `refused` remembers
that Windows would not stop the session.

### Diagnostics

Every service process creates or finds the page when its engine is created, before the trace session; `stage` is
its publisher. A process that has reported STOPPED may still be dropping its publisher when the next one
starts, and both can be killed. `holders` are the open handles: the page is zeroed when the last one goes. `header` and `phase`
remember who wrote them, since the properties are about who writes to whose page; the counters behind them are
one field. A reader reads the magic number and then the fields, one by one.

### ProcessPolicy

The engine's operations on one instance do not interleave with each other (the gate), so the state has one
running operation, advanced by one Windows call per step; the process may act in between. What an operation
still has to do is the set `todo`, taken in the fixed order of the code (`Position`). The registry and the
power profile are read once per operation, so they change between operations. `settings` are what the process really has; `disturbed` is a history variable: components
changed by the process since the service last made or saw them right. A priority class set against a job's
limit does not take effect. A job whose handle is closed keeps its limits (`limit = "left"`).

### Affinity

Masks are sets of bits, islands are numbers in the order of the code's key, and one flag says that a
processor may be used. The tiers, the special cases for machines with one efficiency class and the ranking of
caches and islands are operators over these sets (`Best` is `max_by_key`: an element whose key no other key
beats); the state machine reads a topology (or the fallback) and
evaluates an expression, as `AffinityExpression::mask` does on every resolution.

## 3. Runs

| Run | Instance | Checks |
| --- | --- | --- |
| `reconciler` | 3 instances, 3 checks, `priority-job` build | `TypeOK`, `WakeIsBacked`, `NoIdleTimer`, `NoDeadlineReset`, `DisabledIsFinal`, `ImplementsBoundedChecks` |
| `reconciler_live` | 2 instances, default build | `NoLostWakeup`, `OwedChecksAreDone`, `ShutdownCompletes` |
| `retained_entry_waits` | 1 instance, `priority-job` build | `PendingServed`: violated |
| `rule_engine` | 2 instances with different images on one PID, 1 check, 1 profile change, 2 watchers each | `TypeOK`, `NoProcessMissed`, `EntryIsWatched`, `StaleSignatureIsRescanned`, `OnlyOwnPolicy`, `ExitedLeaves` |
| `counters_restart` | 1 instance, 3 checks | `SaturationIsFinal`: violated |
| `lost_events` | 3 callers, 2 losses, with and without a store buffer | `OneReconciler`, `MarkedWasScanned`, `NoStrandedLoss`, `LossReconciled` |
| `lost_events_stranded` | 2 callers | `NothingStranded`: violated |
| `service_install` | complete | `PublishedEventIsOpen`, `StoppedIsClean`, `NoCallbackAfterShutdown`, `ReplacementIsClean`, `StatusNeverGoesBack`, `StopHonoured`, `InstallEnds` |
| `kernel_objects` | 4 processes in a row, 1 reader | `NothingLeftBehind`, `PageIsMine`, `MagicVouches`, `StopEnds` |
| `process_policy` | 3 rules, 1 check, 1 profile change, `priority-job` build | `AppliedOrReported`, `PolicyMatchesSignature`, `RetainedJobIsCleared`, `OnlyPolicyIsWritten` |
| `job_left_behind` | the same, no profile change | `RemovedRuleStopsEnforcement`: violated |
| `affinity` | 4-processor hybrids, up to 11 uniform processors, masks of 12 bits, 0 to 4 caches | `MaskIsUsable`, `TiersPartition`, `LowPowerAvailable`, `LowPowerIsolated`, `TermsCombine`, `CacheIsOneLargest` |

What the less obvious ones say:

- `NoProcessMissed`: a running process with a policy is in the table, or excused by a failure, or a visit is
  still to come from its start event, the start-up scan or the scan for lost events. The trace session starts
  before the start-up scan for this reason; the property also covers stale stop events that arrive after PID
  reuse and watchers of an earlier occupant.
- `StaleSignatureIsRescanned`: when the profile changes between the read of a visit and the signature it
  stores, the scan that the change owes has not yet passed that entry.
- `ExitedLeaves`: the watcher alone suffices to remove an exited process, with every stop event lost.
- `ReplacementIsClean`: the word "stopped", on which the installer relies, is reported after the monitors and
  the engine are down, on every path through `service_main`.
- `PageIsMine`, `MagicVouches`: clearing the magic number is the last thing a publisher does to the page, so that
  the next one never finds its page changed, and a clean stop never makes the page unusable.

The `priority-job` build only adds steps to the default build: an entry may be retained instead of removed, and
after the priority class the job is set, which may fail without any effect on the process. A safety property
that holds in it holds in both builds, so one run suffices; what holds in the default build only has a run of
its own.

**Bounds.** With three instances one can be inserted, one checked and one removed at the same time; the
limit of three checks is the code's own. The instances are interchangeable, so they are a symmetry set where only
safety is checked. Two losses suffice for a loss during a scan, three callers for an owner, a busy caller
and one that comes back. `service_install` has no bound; four processes in `kernel_objects` let a session or a page
be left behind, block a start or a publisher, be removed and be replaced, while a reader keeps the page alive. Two instances on one PID with different
policies are the smallest case of PID reuse, and an entry with an old and a new watcher is reached with two watchers; counters
and passes are the subject of `reconciler`, so one check is enough in `rule_engine`. Processes that start, events that
are lost and profiles that change after `shutting_down` is set meet no operation any more and are left out. The rules of `process_policy` have two priority
classes, the built-in affinity and each component left out; a check can follow any application, repair and change. The uniform machines pass the counts 2, 7 and 8 at which the low-power selection changes, with every
pattern of missing indices; masks of 12 bits put the boundary within reach.

**Deadlock** is not checked where the system really ends: the engine after shutdown, a service that
returned, a session whose counter has reached its bound. It is checked for `Affinity` and `ProcessPolicy`.

**Fairness.** Threads that can run do run, and a timer that is set fires: weak fairness of the worker's,
the scanning thread's and shutdown's steps and of the timer. The worker's entry into the gate has strong fairness:
a `std::sync::Mutex` promises no order, but every holder gives it back and the callers' requests come from
finitely many events, so a worker that finds it free again and again gets it. The watchers of `RuleEngine` have the
same. In `ServiceMain` stopping a
monitor needs the same, since callbacks may come and go before it; `EtwMonitor::stop` and unregistering wait
for them. The installer runs on and time passes its deadlines. Nothing obliges Windows to lose events, to deliver a stop, to change settings or to fail.

## 4. What is proved

TLAPS checks these for any set of instances, any limit, any number of callers, processes and readers, any set of
rules, any machine and expression. The assumptions are the named `ASSUME`s of the modules: finite sets, natural
bounds, Boolean build options, names that are distinct, rules made of a mode and an affinity,
and for `Affinity` that Windows reports natural classes and indices and finitely many caches. All invariants that
proofs add to the checked properties were first checked by TLC on small instances.

**ReconcilerProofs.** `TypeCorrect`, `WakeAlwaysBacked`, `NeverIdleTimer`, `NoWakeupIsLost` (default build),
`TableFrozenByShutdown`, `CountersNeverReset`, `DeadlineNeverReset`, `DisabledForGood`,
`ReconcilerImplementsBoundedChecks`.
`WakeIsBacked` is not inductive by itself: that a `Running` phase has a worker behind it depends on who holds
the gate and on what a worker that has left its loop leaves in `phase`. `IInv` adds these facts (`GateHolder`,
`PhaseOfWorker`) and, for the default build, that every entry is enforcing (`DefaultBuild`). `NoLostWakeup` is then
inductive together with `IInv`: whoever makes an instance pending is about to announce it, whoever parks
has seen an empty `Pending` under the `applied` lock, and the arm after a pass sees what joined during it.
Without `DefaultBuild` it is false, which is the first finding below. The deadline and the disabled phase need no
invariant: `SignalSteps` says who sets the timer and from which phases.

The refinement needs `RInv`: besides `IInv`, that a worker inside a pass is not disabled (`ServedPass`: its phase is still
`Running`, unless shutdown has closed the table), and that an instance outside the table has no counter (`FreshCounters`),
since `Track` starts with what `done` holds. `NextRInv` shows it inductive. `NextRefines` then maps each step of
`Next`: removals to `Drop` or `Suspend` (`RemovalRefines`), the steps of a scan to `Track`, `Resume` and `Drop`
(`ScanStepRefines`), `CheckKey` to `Check`, disabling to `GiveUp`, shutdown to `Close`, the rest to a stutter.

**LostEventsProofs.** `OneReconcilerAtATime` and `MarkedCountsWereScanned` with and without a store buffer,
`LossIsNeverStranded` without. `Ownership` ties the flag to an owner or to one delayed store, so that two owners
cannot exist although the flag is given back before the recheck; `LossHasCaller` says that a loss
not reconciled has a caller that will look again.

**RuleEngineProofs.** `TypeAlwaysOK`, `EntryAlwaysWatched`, `StaleSignatureAlwaysRescanned`, `NoProcessEverMissed`,
`AlwaysOwnPolicy`. The properties support each other only with what a scan in progress still knows. `ScanCovers`: a full
scan will still visit every running instance that it may remove, so removing the rest removes no process. `VisitIsCurrent`: a visit
that read an older profile has a scan of the power callback coming, since the scan waits for the gate the visit
holds. `Identity`: a running instance is the one its PID stands for, entries and visits are of instances that have
started, and stop events of ones that have exited. `GateShape`: only the holder of the gate has a scan, a visit or a
batch. `NoProcessMissed` itself is not inductive: it counts every visit of the PID, while a visit that
expects another instance will not insert this one. `VisitReaches` counts only visits that expect it, or anyone;
`EveryProcessReached`, the property with that notion, is, and implies it. The proof has one lemma per conjunct, so that each uses
only what it needs of the others.

**ServiceProofs.** `PublishedEventAlwaysOpen`, `StoppedAlwaysClean`, `NoCallbackMeetsDeadEngine`, `StatusOnlyAdvances`
for `ServiceMain`. The invariant says what the place in `service_main` tells of the reports (`HandleOf`), the stop event and
its published handle (`EventOf`), and the engine and monitors (`ResourcesOf`). `InstallRunsTheService`: every step of
`ServiceInstall` is a step of `ServiceMain` or leaves its state alone, so all this holds during an installation.
`ReplacementAlwaysClean` adds `GoneOf`: the record is given up only when the service reported STOPPED, had returned or was never started, and it
does not start again (`EndIsFinal`).

**DiagnosticsProofs.** `NothingEverLeftBehind` for `EtwMonitor`: whoever sets the closed flag first closes the handle
(`HandleIsFlagged`), the control state tells whether there is a thread and whether it has ended (`ThreadOf`), and a session that survives is one
Windows refused to stop (`SessionOf`). `DiagnosticsRunsTheMonitor`: with the page beside it the monitor takes the same
steps, hence `NothingLeftBesideThePage`. `PageAlwaysMine` and `MagicAlwaysVouches` need `PageInv`: only the latest process
can still be on its way to publishing (`OneStarts`); whoever uses the object holds it, and Windows
zeroes it only when nobody does (`OpenMeansHeld`); a publisher owns the page until it clears the magic number, and one that is about to write has found
it cleared (`PageOwner`); a reader that was let in reads fields that were written (`ReaderSeesWritten`). The invariant is preserved by
publishers, readers and processes, each in a lemma of its own.

**ProcessPolicyProofs.** `TypeAlwaysOK`, `AlwaysAppliedOrReported`, `PolicyAlwaysMatchesSignature`,
`RetainedJobAlwaysCleared`, `OnlyPolicyIsEverWritten`. The properties speak of the time between operations; the
invariant says what holds during one. `DoneOrRecorded`: each configured component is still to be done, or done, or its failure or the process's
change is recorded. `VisitOfEntry`: what is still to be done is configured in the policy in use, which in a check is the entry's. `UsingIsSigned`: the policy
that is about to be committed is the one its signature names, although the signature holds the rule with its
affinity filled in (`SignatureNamesPolicy`: filling in twice is filling in once).

**AffinityProofs.** `MaskAlwaysUsable`, `TiersAlwaysPartition`, `LowPowerAlwaysAvailable`, `LowPowerAlwaysIsolated`,
`TermsAlwaysCombine`, `CacheAlwaysOneLargest`. The work is in the operators; the invariant `Answered` only says that the entries
are a topology of the machine and the result is the entries'. P and E+LPE divide the processors because the top and bottom
class are disjoint when there are two classes or more, and the low-power choice is a part
of the bottom class which E complements or equals. Everything about maxima rests on `GreatestExists`: a finite set has a greatest element in
every total order. Since the induction theorems are out of reach, it is proved from a smallest counterexample: strict inclusion on
finite subsets is well-founded, and a smallest set without a greatest element gets one when any element is
removed. From it follow that `Max`, `Min` and `max_by_key` (`BestExists`) choose something and that there is a lowest class; that the last n of a set are at
most n (`LastOfBound`), hence LPE at most four processors; and that the one island with the best key is taken (`IsolatedIslandWins`).
`WholeMask` and `SpecialOnlyAlone` turn the mask into a union over the terms.

## 5. What is only model-checked

Liveness (`OwedChecksAreDone`, `ShutdownCompletes`, `LossReconciled`, `StopHonoured`, `StopEnds`, `InstallEnds`, `ExitedLeaves`) is out of the
prover's reach. All other properties of the passing runs have a theorem. `NoWakeupIsLost` is about the
default build only, because the property is false in the other one (first finding); `NoStrandedLoss` itself speaks of stores in
program order only, because without that the loss can be stranded (second finding).

## 6. Findings

- **A retained entry waits** (`priority-job` build). `untrack_if_no_active_rule` retains an entry that has a job,
  with enforcement off, and parks the coordinator. When a rule is selected again `apply_or_update_rule` turns enforcement
  on and returns without telling the coordinator: the instance is owed checks that nobody schedules until
  another instance is inserted. The default build removes the entry instead and is not affected.
- **A loss can be stranded by a store buffer.** The owner's release store and the load after it may be
  reordered, so that a busy caller and the owner each leave the loss to the other until the next report.
  `ProcessTrace` delivers callbacks on one thread, so this is latent; a sequentially consistent store and load, or a
  read-modify-write for the release, would close it.
- **A job outlives its entry** (`priority-job` build). `remove_key_locked` closes the job without clearing its
  limits, also for processes that are alive (watcher not started, process not resolved in a scan). The priority
  class then stays enforced after the policy is removed, although the documentation says that removing a value
  stops future enforcement.
- **Counters restart.** The documentation says that counters belong to process instances and saturate at three. They belong to
  entries: a full scan removes the entry of a live process it cannot resolve (access denied for a moment is enough), and the next
  visit inserts it with a counter of zero and another three checks. Lost events, identity drift and every change of the power profile
  cause full scans.

## 7. Assumptions about Windows, and what is left out

Modelled from how the code uses them: a fired timer stays signaled when cancelled; `WaitForMultipleObjects`
reports the lowest signaled index; unregistering the power callback waits for a running callback; `ProcessTrace` returns
when its handle is closed or its session ends; a job's limits live as long as a process in it and override
`SetPriorityClass`; group-0 processors have distinct indices. Processors of other groups are never candidates
and are left out of `Affinity`.

Not modelled:

- panics and poisoned locks; a failed `CloseTrace` or `SetServiceStatus` (both only logged); a second call of
  `shutdown`, which finds nothing left to do; the worker's failed upgrade of its weak reference to the engine;
- syntax and layouts: parsing of expressions, decoding of registry values, names and CPUID; buffers of Windows,
  each reduced to success or failure of the read, and for event records to which fields can be read;
- registry changes in `RuleEngine`, where `Ruled` is constant but unreadable at any time (`ProcessPolicy` has them);
- the power-mode to profile mapping, logging, the command line, the service's own policy;
- the values of the diagnostics counters, which are published one store at a time and may be torn between fields;
- packaging: installer package, `import-policies.ps1`, `xtask`.

## 8. Plan

The models cover the parts that interact, and their safety properties are proved. What is left:

1. `RuleEngine` and `Reconciler` describe one table at two grains; `ProcessPolicy` describes one entry of it. Mappings
   between them, as step implications of the kind `NextRefines` uses, would replace the argument of section 2 that one grain allows
   what another leaves open.
2. The safety half of the liveness properties: what must hold in every state for a watcher, a scan or a stop
   request to make progress, as invariants that the fairness assumptions then build on.
