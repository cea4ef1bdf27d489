---------------------------- MODULE ProcessPolicy ----------------------------
(***************************************************************************)
(* What the service does to the settings of one process instance: rule     *)
(* selection and application (apply_or_update_rule of src/engine.rs),      *)
(* bounded checks (reconcile_tracked_process_with), and the per-component  *)
(* apply_all, inspect and repair of src/process.rs, with the job object of *)
(* the `priority-job' build.                                               *)
(*                                                                         *)
(* The engine handles one instance at a time (watcher_activity), so its    *)
(* operations do not interleave with each other; but each Windows call is  *)
(* a step of its own, it can fail, and the process may change its settings *)
(* in between.                                                             *)
(***************************************************************************)
EXTENDS Naturals

CONSTANTS
    Rules,          \* registry policies: mode and affinity, each possibly "unset"
    MaxChecks,      \* MAX_RECONCILIATION_CHECKS
    MaxGeneration,  \* bound: power profile changes
    PriorityJob     \* is the `priority-job' feature compiled in

Modes == {"normal", "efficiency", "performance", "realtime"}
ASSUME RulesAssumption ==
    \A r \in Rules :
        r = [mode |-> r.mode, affinity |-> r.affinity] /\ r.mode \in Modes \cup {"unset"}
ASSUME MaxChecksAssumption == MaxChecks \in Nat
ASSUME MaxGenerationAssumption == MaxGeneration \in Nat
ASSUME PriorityJobAssumption == PriorityJob \in BOOLEAN

VARIABLES
    registry,       \* the selected rule, or NoRule (also: unreadable or invalid)
    generation,     \* of the power profile
    settings,       \* of the process
    limit,          \* priority class its job enforces; "left" by a job whose handle was closed
    job,            \* does the entry hold a job handle
    tracked, enforcing, signature, policy, checks, failures,    \* AppliedProcess
    step, todo, using, wanted, drift, trouble,                  \* the running operation
    disturbed       \* components the process changed since the service last saw
                    \* or made them right (not in the code)

world == <<registry, generation>>
os    == <<settings, limit, job, disturbed>>
entry == <<tracked, enforcing, signature, policy, checks, failures>>
visit == <<step, todo, using, wanted, drift, trouble>>
vars  == <<world, os, entry, visit>>

Components == {"affinity", "eco_qos", "priority"}
NoRule     == [mode |-> "none", affinity |-> "none"]
NoPolicy   == [c \in Components |-> "unset"]
NoSignature == [rule |-> NoRule, generation |-> 0]

(* Definitions that start with Mut are plausible bugs in the code that the  *)
(* definition after them models; the mutation checks swap them in.          *)

-----------------------------------------------------------------------------
(* From a rule to a policy. *)

PriorityClass(mode) ==
    CASE mode = "normal" -> "NORMAL" [] mode = "efficiency" -> "IDLE"
      [] mode = "performance" -> "ABOVE_NORMAL" [] mode = "realtime" -> "REALTIME"
      [] OTHER -> "unset"

EcoQos(mode) ==
    CASE mode = "unset" -> "unset" [] mode = "efficiency" -> "on" [] OTHER -> "off"

(* affinity_with_mode_default *)
EffectiveAffinity(r) ==
    IF r.affinity = "unset" /\ r.mode = "efficiency" THEN "E+LPE" ELSE r.affinity

(* The part of AppliedProcessSignature that can change for an instance. *)
Signature == [rule       |-> [registry EXCEPT !.affinity = EffectiveAffinity(registry)],
              generation |-> generation]

(* resolve_policy.  When the mask cannot be computed the affinity is left   *)
(* out and reported.                                                        *)
Resolved(r, mask) ==
    [c \in Components |->
        CASE c = "affinity" -> mask
          [] c = "eco_qos"  -> EcoQos(r.mode)
          [] c = "priority" -> PriorityClass(r.mode)]

(* The components of S that a policy has; the job goes with the priority    *)
(* class.                                                                   *)
Configured(p, S) ==
    LET has == {c \in S : p[c] # "unset"}
    IN  has \cup IF PriorityJob /\ "priority" \in has THEN {"job"} ELSE {}

(* The order in which apply_all, inspect and repair go through them.        *)
Position == [affinity |-> 1, eco_qos |-> 2, priority |-> 3, job |-> 4]
IsNext(c) == c \in todo /\ \A d \in todo : Position[c] <= Position[d]

-----------------------------------------------------------------------------
(* The world.  An operation reads the registry and the power profile once,  *)
(* when it begins, so a change during it is no different from a change      *)
(* right after it; only the process acts between two Windows calls.         *)

EditRegistry ==
    /\ step = "idle"
    /\ registry' \in Rules \cup {NoRule}
    /\ UNCHANGED <<generation, os, entry, visit>>

ChangeProfile ==
    /\ step = "idle" /\ generation < MaxGeneration
    /\ generation' = generation + 1
    /\ UNCHANGED <<registry, os, entry, visit>>

(* The process, or anyone else, changes a setting; a job's priority limit   *)
(* cannot be escaped.                                                       *)
ProcessChanges(c) ==
    /\ c = "priority" => limit = "unset"
    /\ settings' = [settings EXCEPT ![c] = "own"]
    /\ disturbed' = disturbed \cup {c}
    /\ UNCHANGED <<world, limit, job, entry, visit>>

-----------------------------------------------------------------------------
(* A visit: apply_to_pid_inner on the process, from an event (Observe) or a *)
(* full scan (Force).                                                       *)

(* clear_process_priority_job_limits on a job the entry holds. *)
ClearLimit(failed) ==
    limit' = IF job /\ ~failed /\ limit # "left" THEN "unset" ELSE limit

MutCached(sig) == tracked /\ enforcing /\ signature.generation = sig.generation

Cached(sig) == tracked /\ enforcing /\ signature = sig

BeginApply(force) ==
    LET sig == Signature
    IN  /\ step = "idle" /\ registry # NoRule
        /\ wanted' = sig
        /\ \/ /\ Cached(sig) /\ force
              /\ using' = policy /\ trouble' = {} /\ UNCHANGED limit
           \/ /\ ~Cached(sig)
              /\ \E unclear \in {FALSE, job}, mask \in {EffectiveAffinity(registry), "unset"} :
                    /\ ClearLimit(unclear)
                    /\ using' = Resolved(registry, mask)
                    /\ trouble' = {t \in {"clear", "affinity"} :
                                     \/ t = "clear" /\ unclear
                                     \/ t = "affinity" /\ mask # EffectiveAffinity(registry)}
        /\ step' = "apply" /\ drift' = {} /\ todo' = Configured(using', Components)
        /\ UNCHANGED <<world, settings, job, disturbed, entry>>

MutSetOthers(c) ==
    /\ step \in {"apply", "repair"} /\ IsNext(c)
    /\ todo' = todo \ {c}
    /\ \/ /\ settings' = [d \in Components |-> using[d]]
          /\ disturbed' = disturbed \ {c} /\ UNCHANGED trouble
       \/ trouble' = trouble \cup {c} /\ UNCHANGED <<settings, disturbed>>
    /\ UNCHANGED <<world, limit, job, entry, step, using, wanted, drift>>

(* Does setting the priority class take effect?  Not against a job's limit. *)
Effective(c) == c = "priority" => limit \in {"unset", using[c]}

(* One setter.  Its failure is recorded and the next component follows.     *)
SetComponent(c) ==
    /\ step \in {"apply", "repair"} /\ IsNext(c)
    /\ todo' = todo \ {c}
    /\ \/ /\ Effective(c)
          /\ settings' = [settings EXCEPT ![c] = using[c]]
          /\ disturbed' = disturbed \ {c}
          /\ UNCHANGED trouble
       \/ /\ ~Effective(c)
          /\ disturbed' = disturbed \cup {c}
          /\ UNCHANGED <<settings, trouble>>
       \/ /\ trouble' = trouble \cup {c}
          /\ UNCHANGED <<settings, disturbed>>
    /\ UNCHANGED <<world, limit, job, entry, step, using, wanted, drift>>

(* set_priority_job_limits on the job, or a new job for the process.  A new *)
(* job is nested in one that was left behind, whose limit stays.            *)
EnforcePriority ==
    /\ job' = TRUE
    /\ IF limit = "left"
         THEN UNCHANGED <<limit, settings, disturbed>>
         ELSE /\ limit' = using["priority"]
              /\ settings' = [settings EXCEPT !["priority"] = using["priority"]]
              /\ disturbed' = disturbed \ {"priority"}

SetJob ==
    /\ step \in {"apply", "repair"} /\ IsNext("job")
    /\ todo' = {}
    /\ \/ EnforcePriority /\ UNCHANGED trouble
       \/ trouble' = trouble \cup {"job"} /\ UNCHANGED os
    /\ UNCHANGED <<world, entry, step, using, wanted, drift>>

(* remove_key_locked: the job's handle is closed, its limits stay. *)
RemoveEntry ==
    /\ tracked' = FALSE /\ enforcing' = FALSE /\ signature' = NoSignature
    /\ policy' = NoPolicy /\ checks' = 0 /\ failures' = {}
    /\ job' = FALSE /\ limit' = IF job /\ limit # "unset" THEN "left" ELSE limit
    /\ UNCHANGED <<settings, disturbed>>

EndVisit ==
    /\ step' = "idle" /\ todo' = {} /\ using' = NoPolicy /\ wanted' = NoSignature
    /\ drift' = {} /\ trouble' = {}

(* The entry is updated, or inserted and watched; a watcher that cannot be  *)
(* started takes the entry away again.                                      *)
CommitApply ==
    /\ step = "apply" /\ todo = {}
    /\ \/ /\ tracked' = TRUE /\ enforcing' = TRUE /\ signature' = wanted /\ policy' = using
          /\ failures' = trouble /\ checks' = (IF tracked THEN checks ELSE 0)
          /\ UNCHANGED os
       \/ ~tracked /\ RemoveEntry
    /\ EndVisit
    /\ UNCHANGED world

MutUntrackKeepsLimit ==
    /\ step = "idle" /\ registry = NoRule /\ tracked
    /\ \/ /\ job /\ enforcing' = FALSE /\ policy' = NoPolicy /\ failures' = {}
          /\ UNCHANGED <<os, tracked, signature, checks>>
       \/ ~job /\ RemoveEntry
    /\ UNCHANGED <<world, visit>>

(* untrack_if_no_active_rule: an entry with a job stays, not enforcing.     *)
Untrack ==
    /\ step = "idle" /\ registry = NoRule /\ tracked
    /\ \/ /\ job
          /\ \E failed \in BOOLEAN : /\ ClearLimit(failed)
                                     /\ failures' = IF failed THEN {"clear"} ELSE {}
          /\ enforcing' = FALSE /\ policy' = NoPolicy
          /\ UNCHANGED <<settings, job, disturbed, tracked, signature, checks>>
       \/ ~job /\ RemoveEntry
    /\ UNCHANGED <<world, visit>>

(* The process was not observed in a full scan. *)
RemoveUnobserved ==
    /\ step = "idle" /\ tracked
    /\ RemoveEntry
    /\ UNCHANGED <<world, visit>>

-----------------------------------------------------------------------------
(* A bounded check. *)

CheckDue == tracked /\ enforcing /\ checks < MaxChecks

(* Counting comes first: a process that cannot be resolved has been checked.*)
BeginCheck ==
    /\ step = "idle" /\ CheckDue
    /\ checks' = checks + 1
    /\ \/ UNCHANGED visit
       \/ /\ step' = "inspect" /\ using' = policy
          /\ todo' = Configured(policy, Components) \ {"job"}
          /\ UNCHANGED <<wanted, drift, trouble>>
    /\ UNCHANGED <<world, os, tracked, enforcing, signature, policy, failures>>

Inspect(c) ==
    /\ step = "inspect" /\ IsNext(c)
    /\ todo' = todo \ {c}
    /\ \/ settings[c] # using[c] /\ drift' = drift \cup {c} /\ UNCHANGED <<disturbed, trouble>>
       \/ settings[c] = using[c] /\ disturbed' = disturbed \ {c} /\ UNCHANGED <<drift, trouble>>
       \/ trouble' = trouble \cup {c} /\ UNCHANGED <<drift, disturbed>>
    /\ UNCHANGED <<world, settings, limit, job, entry, step, using, wanted>>

MutInspectedGivesUp ==
    /\ step = "inspect" /\ todo = {}
    /\ IF drift = {} \/ trouble # {}
         THEN /\ EndVisit
              /\ failures' = IF trouble # {} THEN trouble ELSE failures
         ELSE /\ step' = "repair" /\ todo' = Configured(using, drift)
              /\ UNCHANGED <<using, wanted, drift, trouble, failures>>
    /\ UNCHANGED <<world, os, tracked, enforcing, signature, policy, checks>>

(* Without drift the failures of the queries are kept, if there are any;    *)
(* with drift only the components that drifted are set again.               *)
Inspected ==
    /\ step = "inspect" /\ todo = {}
    /\ IF drift = {}
         THEN /\ EndVisit
              /\ failures' = IF trouble # {} THEN trouble ELSE failures
         ELSE /\ step' = "repair" /\ todo' = Configured(using, drift)
              /\ UNCHANGED <<using, wanted, drift, trouble, failures>>
    /\ UNCHANGED <<world, os, tracked, enforcing, signature, policy, checks>>

CommitRepair ==
    /\ step = "repair" /\ todo = {}
    /\ failures' = trouble
    /\ EndVisit
    /\ UNCHANGED <<world, os, tracked, enforcing, signature, policy, checks>>

-----------------------------------------------------------------------------
Init ==
    /\ registry \in Rules \cup {NoRule} /\ generation = 0
    /\ settings = [c \in Components |-> "own"] /\ disturbed = {}
    /\ limit = "unset" /\ job = FALSE
    /\ tracked = FALSE /\ enforcing = FALSE /\ signature = NoSignature
    /\ policy = NoPolicy /\ checks = 0 /\ failures = {}
    /\ step = "idle" /\ todo = {} /\ using = NoPolicy /\ wanted = NoSignature
    /\ drift = {} /\ trouble = {}

Environment == EditRegistry \/ ChangeProfile \/ \E c \in Components : ProcessChanges(c)

Service ==
    \/ \E force \in BOOLEAN : BeginApply(force)
    \/ \E c \in Components : SetComponent(c) \/ Inspect(c)
    \/ SetJob \/ CommitApply \/ Untrack \/ RemoveUnobserved
    \/ BeginCheck \/ Inspected \/ CommitRepair

Next == Environment \/ Service

Spec == Init /\ [][Next]_vars
-----------------------------------------------------------------------------
(* Properties. *)

Values == {"own", "unset", "on", "off", "NORMAL", "IDLE", "ABOVE_NORMAL", "REALTIME", "E+LPE"}
            \cup {r.affinity : r \in Rules}
Policies == [Components -> Values]
Troubles == Components \cup {"job", "clear"}

(* The shape of the state; an entry that does not exist has no policy.      *)
TypeOK ==
    /\ registry \in Rules \cup {NoRule} /\ generation \in 0..MaxGeneration
    /\ settings \in Policies /\ policy \in Policies /\ using \in Policies
    /\ disturbed \subseteq Components /\ drift \subseteq Components
    /\ failures \subseteq Troubles /\ trouble \subseteq Troubles
    /\ tracked \in BOOLEAN /\ enforcing \in BOOLEAN /\ job \in BOOLEAN
    /\ checks \in 0..MaxChecks
    /\ step \in {"idle", "apply", "inspect", "repair"}
    /\ todo \subseteq Components \cup {"job"}
    /\ ~tracked => ~enforcing /\ (step = "apply" \/ ~job) /\ policy = NoPolicy

(* Failures stay with their component: after an application or a check      *)
(* every configured component has the policy's value, or is reported as     *)
(* failed, or was changed by the process since.  One failing query or       *)
(* setter never keeps another component from being repaired.                *)
AppliedOrReported ==
    step = "idle" /\ enforcing =>
        \A c \in Components :
            policy[c] # "unset" => settings[c] = policy[c] \/ c \in failures \cup disturbed

(* The service writes a setting only to the value the policy it is using    *)
(* has for it; what the policy leaves out it never touches.                 *)
OnlyPolicyIsWritten ==
    [][Service => \A c \in Components :
          settings'[c] # settings[c] => using[c] # "unset" /\ settings'[c] = using[c]]_vars

(* A process without a rule is let go: while its entry is only retained for *)
(* the job, the job limits nothing, unless clearing the limits failed.      *)
RetainedJobIsCleared ==
    step = "idle" /\ tracked /\ ~enforcing => limit \in {"unset", "left"} \/ "clear" \in failures

(* The policy that checks repair to is the one the entry's signature names: *)
(* a cached policy is never used for another rule or profile.               *)
PolicyMatchesSignature ==
    enforcing => \E mask \in {EffectiveAffinity(signature.rule), "unset"} :
                     policy = Resolved(signature.rule, mask)

(* Removing a policy ends its enforcement: a process that is not tracked    *)
(* and has no rule is under no priority limit of the service's making.      *)
RemovedRuleStopsEnforcement ==
    step = "idle" /\ ~tracked /\ registry = NoRule => limit = "unset"
==============================================================================
