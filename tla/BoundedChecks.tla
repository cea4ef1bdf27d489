---------------------------- MODULE BoundedChecks ----------------------------
(***************************************************************************)
(* What the bounded reconciler promises, without its timer, its worker and *)
(* its locks: every instance that is tracked and enforced is owed          *)
(* MaxChecks checks and gets them, however often its rule is changed in    *)
(* between; leaving the table forfeits them; after the service gave up     *)
(* checking no check is done, and after shutdown nothing changes.          *)
(* Reconciler implements this specification.                               *)
(***************************************************************************)
EXTENDS Naturals

CONSTANTS Keys, MaxChecks

VARIABLES
    tracked,    \* instances in the table
    enforced,   \* those with a rule that is being enforced
    done,       \* checks each tracked instance had
    serving,    \* checks are being done
    open        \* the table may change

cvars == <<tracked, enforced, done, serving, open>>

Owed == {k \in enforced : done[k] < MaxChecks}

CInit ==
    /\ tracked = {} /\ enforced = {} /\ done = [k \in Keys |-> 0]
    /\ serving \in BOOLEAN /\ open = TRUE

Track(k) ==
    /\ open /\ k \notin tracked
    /\ tracked' = tracked \cup {k} /\ enforced' = enforced \cup {k}
    /\ UNCHANGED <<done, serving, open>>

Drop(k) ==
    /\ open /\ k \in tracked
    /\ tracked' = tracked \ {k} /\ enforced' = enforced \ {k}
    /\ done' = [done EXCEPT ![k] = 0]
    /\ UNCHANGED <<serving, open>>

(* The rule goes away or comes back; the count stays. *)
Suspend(k) ==
    /\ open /\ k \in enforced
    /\ enforced' = enforced \ {k}
    /\ UNCHANGED <<tracked, done, serving, open>>

Resume(k) ==
    /\ open /\ k \in tracked
    /\ enforced' = enforced \cup {k}
    /\ UNCHANGED <<tracked, done, serving, open>>

Check(k) ==
    /\ open /\ serving /\ k \in Owed
    /\ done' = [done EXCEPT ![k] = @ + 1]
    /\ UNCHANGED <<tracked, enforced, serving, open>>

GiveUp == serving' = FALSE /\ UNCHANGED <<tracked, enforced, done, open>>

Close == open' = FALSE /\ UNCHANGED <<tracked, enforced, done, serving>>

CNext ==
    \/ \E k \in Keys : Track(k) \/ Drop(k) \/ Suspend(k) \/ Resume(k) \/ Check(k)
    \/ GiveUp \/ Close

CSpec == CInit /\ [][CNext]_cvars

(* No instance that stays owed waits for ever for its next check. *)
CFairSpec == CSpec /\ \A k \in Keys : WF_cvars(Check(k))
=============================================================================
