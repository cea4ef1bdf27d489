-------------------------- MODULE LostEventsProofs --------------------------
(***************************************************************************)
(* Proofs about LostEvents, for every set of callers and every bound.      *)
(***************************************************************************)
EXTENDS LostEvents, TLAPS

USE MaxLostAssumption

(* The initial state satisfies the inductive invariant. *)
LEMMA InitIInv == Init => IInv
<1> SUFFICES ASSUME Init PROVE IInv
  OBVIOUS
<1>1. TypeOK
  <2>1. pc \in [Threads -> {"idle", "max"} \cup Active]
    BY DEF Init
  <2>2. events_lost \in [Threads -> 0..MaxLost] /\ target \in [Threads -> 0..MaxLost]
    BY DEF Init
  <2>3. lost \in 0..MaxLost /\ observed \in 0..MaxLost /\ reconciled \in 0..MaxLost
    BY DEF Init
  <2>4. store_buffer \in BOOLEAN /\ reconciling \in BOOLEAN /\ buffered \subseteq Threads
    BY DEF Init
  <2> QED BY <2>1, <2>2, <2>3, <2>4 DEF TypeOK
<1>2. OneReconciler /\ Ownership /\ LossHasCaller
  BY DEF Init, OneReconciler, Ownership, LossHasCaller, Owning
<1> QED BY <1>1, <1>2 DEF IInv

(* Every atomic operation preserves the inductive invariant. *)
LEMMA NextIInv == IInv /\ [Next]_vars => IInv'
<1> SUFFICES ASSUME IInv, [Next]_vars PROVE IInv'
  OBVIOUS
<1> USE DEF IInv, TypeOK, OneReconciler, Ownership, LossHasCaller, Owning, Active, Goto, Larger
<1>1. CASE LoseEvents
  BY <1>1 DEF LoseEvents
<1>2. ASSUME NEW t \in Threads, Query(t) PROVE IInv'
  BY <1>2 DEF Query
<1>3. ASSUME NEW t \in Threads, Observe(t) PROVE IInv'
  BY <1>3 DEF Observe
<1>4. ASSUME NEW t \in Threads, Claim(t) PROVE IInv'
  BY <1>4 DEF Claim
<1>5. ASSUME NEW t \in Threads, Load(t) PROVE IInv'
  BY <1>5 DEF Load
<1>6. ASSUME NEW t \in Threads, Scan(t) PROVE IInv'
  BY <1>6 DEF Scan
<1>7. ASSUME NEW t \in Threads, Mark(t) PROVE IInv'
  BY <1>7 DEF Mark
<1>8. ASSUME NEW t \in Threads, Release(t) PROVE IInv'
  BY <1>8 DEF Release
<1>9. ASSUME NEW t \in Threads, Drain(t) PROVE IInv'
  BY <1>9 DEF Drain
<1>10. ASSUME NEW t \in Threads, Recheck(t) PROVE IInv'
  BY <1>10 DEF Recheck
<1>11. CASE UNCHANGED vars
  BY <1>11 DEF vars
<1> QED
  BY <1>1, <1>2, <1>3, <1>4, <1>5, <1>6, <1>7, <1>8, <1>9, <1>10, <1>11 DEF Next, Call

(* At most one caller of LostEventState::reconcile owns the flag, whether   *)
(* or not the store that gives it back is delayed.                          *)
THEOREM OneReconcilerAtATime == Spec => []OneReconciler
<1>1. IInv => OneReconciler
  BY DEF IInv
<1> QED BY <1>1, InitIInv, NextIInv, PTL DEF Spec

(* What is marked reconciled was observed before its scan started. *)
THEOREM MarkedCountsWereScanned == Spec => []MarkedWasScanned
<1>1. IInv => MarkedWasScanned
  BY DEF IInv, Ownership, MarkedWasScanned
<1> QED BY <1>1, InitIInv, NextIInv, PTL DEF Spec

(* With stores visible in program order, callers never all return while an  *)
(* observed loss is not reconciled: the hand-over from a busy caller to the *)
(* owner works for any number of threads.                                   *)
THEOREM LossIsNeverStranded == Spec => []NoStrandedLoss
<1>1. IInv => NoStrandedLoss
  BY DEF IInv, TypeOK, LossHasCaller, NoStrandedLoss, NothingStranded, Active, Owning
<1> QED BY <1>1, InitIInv, NextIInv, PTL DEF Spec
=============================================================================
