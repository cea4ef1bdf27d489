----------------------------- MODULE LostEvents -----------------------------
(***************************************************************************)
(* LostEventState of src/etw.rs: threads that learn from the trace session *)
(* that events were lost agree on who runs the full reconciliation.  One   *)
(* action is one atomic memory operation.                                  *)
(*                                                                         *)
(* `reconciling' is given back with a plain release store and `observed'   *)
(* is read right after it.  On x86-64 that store may still sit in the      *)
(* core's store buffer while the later loads are served: store_buffer says *)
(* whether it does.  Read-modify-write operations drain the buffer first.  *)
(***************************************************************************)
EXTENDS Naturals

CONSTANTS
    Threads,       \* callers of LostEventState::reconcile
    MaxLost        \* bound on the session's EventsLost counter

ASSUME MaxLostAssumption == MaxLost \in Nat

VARIABLES
    store_buffer,  \* may the release store be delayed: fixed by the processor
    lost,          \* EventsLost of the session
    observed, reconciled, reconciling,    \* the three atomics
    buffered,      \* threads whose store of FALSE to reconciling is delayed
    pc,            \* control state of each caller
    events_lost,   \* its argument
    target         \* its local variable

vars == <<store_buffer, lost, observed, reconciled, reconciling, buffered, pc, events_lost, target>>

Owning == {"load", "scan", "mark", "release"}
Active == Owning \cup {"cas", "recheck"}
Larger(m, n) == IF m >= n THEN m ELSE n

Init ==
    /\ store_buffer \in BOOLEAN
    /\ lost = 0 /\ observed = 0 /\ reconciled = 0
    /\ reconciling = FALSE /\ buffered = {}
    /\ pc = [t \in Threads |-> "idle"]
    /\ events_lost = [t \in Threads |-> 0]
    /\ target = [t \in Threads |-> 0]

Goto(t, label) == pc' = [pc EXCEPT ![t] = label]

(* The session drops events. *)
LoseEvents ==
    /\ lost < MaxLost /\ lost' = lost + 1
    /\ UNCHANGED <<store_buffer, observed, reconciled, reconciling, buffered, pc, events_lost, target>>

(* A buffer callback or an event of the trace provider queries the session; *)
(* a failed query, or a count of zero, ends the call.                       *)
Query(t) ==
    /\ pc[t] = "idle" /\ lost > 0
    /\ events_lost' = [events_lost EXCEPT ![t] = lost]
    /\ Goto(t, "max")
    /\ UNCHANGED <<store_buffer, lost, observed, reconciled, reconciling, buffered, target>>

Observe(t) ==
    /\ pc[t] = "max" /\ t \notin buffered
    /\ observed' = Larger(observed, events_lost[t])
    /\ Goto(t, "cas")
    /\ UNCHANGED <<store_buffer, lost, reconciled, reconciling, buffered, events_lost, target>>

(* Mutant: the flag is read and set in two operations. *)
MutClaimWithoutExchange(t) ==
    /\ pc[t] = "cas" /\ t \notin buffered
    /\ reconciling' = TRUE
    /\ Goto(t, "load")
    /\ UNCHANGED <<store_buffer, lost, observed, reconciled, buffered, events_lost, target>>

Claim(t) ==
    /\ pc[t] = "cas" /\ t \notin buffered
    /\ reconciling' = TRUE
    /\ Goto(t, IF reconciling THEN "idle" ELSE "load")
    /\ UNCHANGED <<store_buffer, lost, observed, reconciled, buffered, events_lost, target>>

Load(t) ==
    /\ pc[t] = "load"
    /\ target' = [target EXCEPT ![t] = observed]
    /\ Goto(t, IF observed > reconciled THEN "scan" ELSE "release")
    /\ UNCHANGED <<store_buffer, lost, observed, reconciled, reconciling, buffered, events_lost>>

(* RuleEngine::reconcile_processes; a failure is only logged. *)
Scan(t) ==
    /\ pc[t] = "scan"
    /\ Goto(t, "mark")
    /\ UNCHANGED <<store_buffer, lost, observed, reconciled, reconciling, buffered, events_lost, target>>

(* Mutant: what is marked is the current count, not the one of the scan. *)
MutMarkObserved(t) ==
    /\ pc[t] = "mark" /\ t \notin buffered
    /\ reconciled' = observed
    /\ Goto(t, "release")
    /\ UNCHANGED <<store_buffer, lost, observed, reconciling, buffered, events_lost, target>>

Mark(t) ==
    /\ pc[t] = "mark" /\ t \notin buffered
    /\ reconciled' = Larger(reconciled, target[t])
    /\ Goto(t, "release")
    /\ UNCHANGED <<store_buffer, lost, observed, reconciling, buffered, events_lost, target>>

Release(t) ==
    /\ pc[t] = "release"
    /\ \/ reconciling' = FALSE /\ UNCHANGED buffered
       \/ store_buffer /\ buffered' = buffered \cup {t} /\ UNCHANGED reconciling
    /\ Goto(t, "recheck")
    /\ UNCHANGED <<store_buffer, lost, observed, reconciled, events_lost, target>>

Drain(t) ==
    /\ t \in buffered
    /\ reconciling' = FALSE /\ buffered' = buffered \ {t}
    /\ UNCHANGED <<store_buffer, lost, observed, reconciled, pc, events_lost, target>>

(* Mutant: the owner returns without looking at the count again. *)
MutNoRecheck(t) ==
    /\ pc[t] = "recheck"
    /\ Goto(t, "idle")
    /\ UNCHANGED <<store_buffer, lost, observed, reconciled, reconciling, buffered, events_lost, target>>

Recheck(t) ==
    /\ pc[t] = "recheck"
    /\ Goto(t, IF observed <= reconciled THEN "idle" ELSE "cas")
    /\ UNCHANGED <<store_buffer, lost, observed, reconciled, reconciling, buffered, events_lost, target>>

Call(t) == Observe(t) \/ Claim(t) \/ Load(t) \/ Scan(t) \/ Mark(t) \/ Release(t) \/ Recheck(t)

Next == LoseEvents \/ \E t \in Threads : Query(t) \/ Call(t) \/ Drain(t)

Spec == Init /\ [][Next]_vars

(* A call in progress runs on and a store buffer drains.  Nothing obliges   *)
(* the session to lose or to report anything.                               *)
FairSpec == Spec /\ \A t \in Threads : WF_vars(Call(t)) /\ WF_vars(Drain(t))

-----------------------------------------------------------------------------
(* Counters are bounded by what the session lost; each caller is at one     *)
(* place of LostEventState::reconcile.                                      *)
TypeOK ==
    /\ store_buffer \in BOOLEAN
    /\ lost \in 0..MaxLost /\ observed \in 0..MaxLost /\ reconciled \in 0..MaxLost
    /\ reconciling \in BOOLEAN /\ buffered \subseteq Threads
    /\ pc \in [Threads -> {"idle", "max"} \cup Active]
    /\ events_lost \in [Threads -> 0..MaxLost] /\ target \in [Threads -> 0..MaxLost]

(* Only one caller at a time reconciles, with or without a store buffer,    *)
(* although the flag is given back before the recheck.                      *)
OneReconciler ==
    \A t, u \in Threads : pc[t] \in Owning /\ pc[u] \in Owning => t = u

(* Nothing is marked reconciled that was not observed before its scan: the  *)
(* count marked never exceeds the count the owner loaded before scanning.   *)
MarkedWasScanned ==
    \A t \in Threads : pc[t] = "release" => reconciled <= target[t]

(* A loss that a caller observed is never left to nobody: when all callers  *)
(* have returned, everything observed has been reconciled.  The busy caller *)
(* that returns early relies on the owner's second look.                    *)
NothingStranded ==
    (\A t \in Threads : pc[t] \in {"idle", "max"}) => observed <= reconciled

(* It holds when a store is visible before the loads that follow it. *)
NoStrandedLoss == ~store_buffer => NothingStranded

(* Every observed loss is eventually covered by a reconciliation, when a    *)
(* store is visible before the loads that follow it.                        *)
LossReconciled ==
    ~store_buffer => \A n \in 1..MaxLost : observed >= n ~> reconciled >= n

(* The owner is the thread behind a set flag, or the one whose store is     *)
(* delayed; a loss that is not reconciled has a caller that will look.      *)
Ownership ==
    /\ \A t \in Threads : pc[t] \in Owning => reconciling /\ buffered = {}
    /\ reconciling => (\E t \in Threads : pc[t] \in Owning) \/ buffered # {}
    /\ \A t, u \in buffered : t = u
    /\ buffered # {} => store_buffer /\ reconciling
    /\ reconciled <= observed
    /\ \A t \in Threads : pc[t] \in {"scan", "mark", "release"} =>
          reconciled <= target[t] /\ target[t] <= observed
LossHasCaller ==
    ~store_buffer => (observed > reconciled => \E t \in Threads : pc[t] \in Active)
IInv == TypeOK /\ OneReconciler /\ Ownership /\ LossHasCaller
=============================================================================
