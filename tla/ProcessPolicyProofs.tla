------------------------ MODULE ProcessPolicyProofs ------------------------
(***************************************************************************)
(* Proofs about ProcessPolicy, for any set of rules, any number of checks  *)
(* and profile changes, with and without priority jobs.                    *)
(***************************************************************************)
EXTENDS ProcessPolicy, TLAPS

USE MaxChecksAssumption, MaxGenerationAssumption, PriorityJobAssumption

(* The inductive invariant. *)

(* What is still to be done belongs to the policy in use, and a check uses  *)
(* the policy of its entry.                                                 *)
VisitOfEntry ==
    /\ todo \subseteq Configured(using, Components)
    /\ step \in {"inspect", "repair"} => enforcing /\ using = policy

(* AppliedOrReported for an operation in progress: what is configured is    *)
(* still to be done, or done, or recorded.                                  *)
DoneOrRecorded ==
    step # "idle" =>
        \A c \in Components :
            using[c] # "unset" =>
                \/ settings[c] = using[c]
                \/ c \in todo \cup trouble \cup disturbed
                \/ step = "inspect" /\ c \in drift

(* PolicyMatchesSignature for the policy that a visit is about to commit.   *)
Signed(p, rule) == \E mask \in {EffectiveAffinity(rule), "unset"} : p = Resolved(rule, mask)
UsingIsSigned == step = "apply" => Signed(using, wanted.rule)

IInv ==
    /\ TypeOK /\ VisitOfEntry /\ DoneOrRecorded /\ UsingIsSigned
    /\ AppliedOrReported /\ RetainedJobIsCleared /\ PolicyMatchesSignature
-----------------------------------------------------------------------------
(* The operators of the model. *)

(* The components that are configured are those that have a value. *)
LEMMA ConfiguredComponents ==
    ASSUME NEW p, NEW S \in SUBSET Components
    PROVE  /\ \A c \in Components : c \in Configured(p, S) <=> c \in S /\ p[c] # "unset"
           /\ Configured(p, S) \subseteq Components \cup {"job"}
           /\ Configured(p, S) \subseteq Configured(p, Components)
BY DEF Configured, Components

(* The mode of a rule gives a value to every component. *)
LEMMA ResolvedIsPolicy ==
    ASSUME NEW r \in Rules, NEW mask \in {EffectiveAffinity(r), "unset"}
    PROVE  Resolved(r, mask) \in Policies
<1>1. mask \in Values
  BY DEF EffectiveAffinity, Values
<1>2. EcoQos(r.mode) \in Values
  BY DEF EcoQos, Values
<1>3. PriorityClass(r.mode) \in Values
  BY DEF PriorityClass, Values
<1> QED BY <1>1, <1>2, <1>3 DEF Resolved, Policies, Components

(* The rule in a signature names the same policies as the rule it was taken *)
(* from, although its affinity is filled in: filling in twice is filling in *)
(* once.                                                                    *)
LEMMA SignatureNamesPolicy ==
    ASSUME registry \in Rules, NEW mask \in {EffectiveAffinity(registry), "unset"}
    PROVE  Signed(Resolved(registry, mask), Signature.rule)
<1> DEFINE full == [registry EXCEPT !.affinity = EffectiveAffinity(registry)]
<1>1. registry = [mode |-> registry.mode, affinity |-> registry.affinity]
  BY RulesAssumption
<1>2. full.mode = registry.mode /\ full.affinity = EffectiveAffinity(registry)
  BY <1>1
<1>3. EffectiveAffinity(full) = EffectiveAffinity(registry)
  BY <1>2 DEF EffectiveAffinity
<1>4. Resolved(full, mask) = Resolved(registry, mask)
  BY <1>2 DEF Resolved
<1>5. Signature.rule = full
  BY DEF Signature
<1> QED BY <1>3, <1>4, <1>5 DEF Signed

(* Registry, signature and policy of a visit when it begins. *)
LEMMA BeginUsing ==
    ASSUME IInv, NEW force \in BOOLEAN, BeginApply(force)
    PROVE  using' \in Policies /\ Signed(using', wanted'.rule)
<1>0. registry \in Rules /\ wanted' = Signature
  BY DEF IInv, TypeOK, BeginApply
<1>1. CASE Cached(Signature) /\ using' = policy
  BY <1>0, <1>1 DEF IInv, TypeOK, Cached, PolicyMatchesSignature, Signed
<1>2. ASSUME NEW mask \in {EffectiveAffinity(registry), "unset"}, using' = Resolved(registry, mask)
      PROVE  using' \in Policies /\ Signed(using', wanted'.rule)
  BY <1>0, <1>2, ResolvedIsPolicy, SignatureNamesPolicy
<1> QED BY <1>1, <1>2 DEF BeginApply

(* The shape of the state is kept. *)
LEMMA NextTypeOK == IInv /\ [Next]_vars => TypeOK'
<1> SUFFICES ASSUME IInv, [Next]_vars PROVE TypeOK'
  OBVIOUS
<1> TypeOK /\ VisitOfEntry
  BY DEF IInv
<1> USE DEF TypeOK, world, os, entry, visit
<1>a. NoPolicy \in Policies 
  BY DEF NoPolicy, Policies, Values
<1>b. ASSUME NEW c \in Components, NEW v \in Values PROVE [settings EXCEPT ![c] = v] \in Policies
  BY <1>b DEF Policies
<1>c. ASSUME NEW c \in Components PROVE using[c] \in Values
  BY <1>c DEF Policies
<1>d. "priority" \in Components /\ "own" \in Values
  BY DEF Components, Values
<1>e. Components \cup {"clear", "job"} \subseteq Troubles
  BY DEF Troubles
<1>f. ASSUME RemoveEntry
      PROVE  /\ tracked' = FALSE /\ enforcing' = FALSE /\ job' = FALSE /\ policy' = NoPolicy
             /\ checks' \in 0..MaxChecks /\ failures' = {}
             /\ UNCHANGED <<settings, disturbed>>
  BY <1>f DEF RemoveEntry
<1>1. CASE EditRegistry
  BY <1>1 DEF EditRegistry
<1>2. CASE ChangeProfile
  BY <1>2 DEF ChangeProfile
<1>3. ASSUME NEW c \in Components, ProcessChanges(c) PROVE TypeOK'
  BY <1>3, <1>b, <1>d DEF ProcessChanges
<1>4. ASSUME NEW force \in BOOLEAN, BeginApply(force) PROVE TypeOK'
  BY ConfiguredComponents, BeginUsing, <1>4, <1>e DEF BeginApply, Components
<1>5. ASSUME NEW c \in Components, SetComponent(c) PROVE TypeOK'
  BY <1>5, <1>b, <1>c, <1>e DEF SetComponent, IsNext
<1>6. ASSUME NEW c \in Components, Inspect(c) PROVE TypeOK'
  BY <1>6, <1>e DEF Inspect, IsNext
<1>7. CASE SetJob
  <2>1. settings' \in Policies
    BY <1>7, <1>b, <1>c, <1>d DEF SetJob, EnforcePriority
  <2>2. step = "apply" \/ tracked
    BY <1>7 DEF SetJob, VisitOfEntry
  <2> QED BY <1>7, <1>e, <2>1, <2>2 DEF SetJob, EnforcePriority
<1>8. CASE CommitApply
  <2>1. CASE RemoveEntry
    BY <1>8, <1>a, <1>f, <2>1 DEF CommitApply, EndVisit
  <2>2. CASE /\ tracked' = TRUE /\ enforcing' = TRUE /\ policy' = using /\ failures' = trouble
             /\ checks' = (IF tracked THEN checks ELSE 0) /\ UNCHANGED os
    <3>1. checks' \in 0..MaxChecks
      BY <2>2
    <3> QED BY <1>8, <1>a, <2>2, <3>1 DEF CommitApply, EndVisit
  <2> QED BY <1>8, <2>1, <2>2 DEF CommitApply
<1>9. CASE Untrack
  <2>1. CASE RemoveEntry
    BY <1>9, <1>a, <1>f, <2>1 DEF Untrack
  <2>2. CASE /\ job /\ enforcing' = FALSE /\ policy' = NoPolicy /\ failures' \subseteq {"clear"}
             /\ UNCHANGED <<settings, job, disturbed, tracked, signature, checks>>
    BY <1>9, <1>a, <1>e, <2>2 DEF Untrack
  <2> QED BY <1>9, <2>1, <2>2 DEF Untrack
<1>10. CASE RemoveUnobserved
  BY <1>10, <1>a, <1>f DEF RemoveUnobserved
<1>11. CASE BeginCheck
  BY ConfiguredComponents, <1>11 DEF BeginCheck, CheckDue
<1>12. CASE Inspected
  BY ConfiguredComponents, <1>12, <1>a, <1>e DEF Inspected, EndVisit
<1>13. CASE CommitRepair
  BY <1>13, <1>a DEF CommitRepair, EndVisit
<1>14. CASE UNCHANGED vars
  BY <1>14 DEF vars
<1> QED BY <1>1, <1>2, <1>3, <1>4, <1>5, <1>6, <1>7, <1>8, <1>9, <1>10, <1>11, <1>12, <1>13,
           <1>14 DEF Next, Environment, Service

(* An operation sets what its policy configures, and a check repairs to the *)
(* policy of its entry.                                                     *)
LEMMA NextVisit == IInv /\ [Next]_vars => VisitOfEntry'
<1> SUFFICES ASSUME IInv, [Next]_vars PROVE VisitOfEntry'
  OBVIOUS
<1> USE DEF IInv, VisitOfEntry, TypeOK, world, os, entry, visit
<1>1. CASE EditRegistry
  BY <1>1 DEF EditRegistry
<1>2. CASE ChangeProfile
  BY <1>2 DEF ChangeProfile
<1>3. ASSUME NEW c \in Components, ProcessChanges(c) PROVE VisitOfEntry'
  BY <1>3 DEF ProcessChanges
<1>4. ASSUME NEW force \in BOOLEAN, BeginApply(force) PROVE VisitOfEntry'
  BY ConfiguredComponents, BeginUsing, <1>4 DEF BeginApply, ClearLimit
<1>5. ASSUME NEW c \in Components, SetComponent(c) PROVE VisitOfEntry'
  BY <1>5 DEF SetComponent, IsNext
<1>6. ASSUME NEW c \in Components, Inspect(c) PROVE VisitOfEntry'
  BY <1>6 DEF Inspect, IsNext
<1>7. CASE SetJob
  BY <1>7 DEF SetJob, EnforcePriority, IsNext
<1>8. CASE CommitApply
  BY <1>8 DEF CommitApply, RemoveEntry, EndVisit
<1>9. CASE Untrack
  BY <1>9 DEF Untrack, RemoveEntry, ClearLimit
<1>10. CASE RemoveUnobserved
  BY <1>10 DEF RemoveUnobserved, RemoveEntry
<1>11. CASE BeginCheck
  BY ConfiguredComponents, <1>11 DEF BeginCheck, CheckDue
<1>12. CASE Inspected
  BY ConfiguredComponents, <1>12 DEF Inspected, EndVisit
<1>13. CASE CommitRepair
  BY <1>13 DEF CommitRepair, EndVisit
<1>14. CASE UNCHANGED vars
  BY <1>14 DEF vars
<1> QED BY <1>1, <1>2, <1>3, <1>4, <1>5, <1>6, <1>7, <1>8, <1>9, <1>10, <1>11, <1>12, <1>13,
           <1>14 DEF Next, Environment, Service

(* No component is forgotten: a failure, a drift or a change by the process *)
(* is recorded for the component it concerns.                               *)
LEMMA NextDone == IInv /\ [Next]_vars => (DoneOrRecorded /\ AppliedOrReported)'
<1> SUFFICES ASSUME IInv, [Next]_vars PROVE (DoneOrRecorded /\ AppliedOrReported)'
  OBVIOUS
<1> USE DEF IInv, DoneOrRecorded, AppliedOrReported, VisitOfEntry, TypeOK, Components, world, os, entry, visit
<1>1. CASE EditRegistry
  BY <1>1 DEF EditRegistry
<1>2. CASE ChangeProfile
  BY <1>2 DEF ChangeProfile
<1>3. ASSUME NEW c \in Components, ProcessChanges(c)
      PROVE  (DoneOrRecorded /\ AppliedOrReported)'
  BY <1>3 DEF ProcessChanges
<1>4. ASSUME NEW force \in BOOLEAN, BeginApply(force)
      PROVE  (DoneOrRecorded /\ AppliedOrReported)'
  BY ConfiguredComponents, BeginUsing, <1>4 DEF BeginApply, ClearLimit
<1>5. ASSUME NEW c \in Components, SetComponent(c)
      PROVE  (DoneOrRecorded /\ AppliedOrReported)'
  <2>1. step' = step /\ step \in {"apply", "repair"} /\ using' = using
    BY <1>5 DEF SetComponent
  <2>2. ASSUME NEW d \in Components, using[d] # "unset"
        PROVE  settings'[d] = using[d] \/ d \in todo' \cup trouble' \cup disturbed'
    <3>1. settings[d] = using[d] \/ d \in todo \cup trouble \cup disturbed
      BY <2>1, <2>2
    <3>2. CASE d = c
      BY <1>5, <3>2 DEF SetComponent, Policies
    <3>3. CASE d # c
      BY <1>5, <3>1, <3>3 DEF SetComponent, Policies
    <3> QED BY <3>2, <3>3
  <2> QED BY <2>1, <2>2
<1>6. ASSUME NEW c \in Components, Inspect(c)
      PROVE  (DoneOrRecorded /\ AppliedOrReported)'
  BY <1>6 DEF Inspect, IsNext
<1>7. CASE SetJob
  <2>1. step' = step /\ step \in {"apply", "repair"} /\ using' = using
    BY <1>7 DEF SetJob
  <2>2. ASSUME NEW d \in Components, using[d] # "unset"
        PROVE  settings'[d] = using[d] \/ d \in todo' \cup trouble' \cup disturbed'
    <3>1. settings[d] = using[d] \/ d \in todo \cup trouble \cup disturbed
      BY <2>1, <2>2
    <3>2. todo' = {} /\ todo \cap Components = {}
      BY <1>7 DEF SetJob, IsNext, Position
    <3>3. CASE EnforcePriority /\ UNCHANGED trouble
      BY <3>1, <3>2, <3>3 DEF EnforcePriority, Policies
    <3>4. CASE trouble' = trouble \cup {"job"} /\ UNCHANGED os
      BY <3>1, <3>2, <3>4
    <3> QED BY <1>7, <3>3, <3>4 DEF SetJob
  <2> QED BY <2>1, <2>2
<1>8. CASE CommitApply
  BY <1>8 DEF CommitApply, RemoveEntry, EndVisit
<1>9. CASE Untrack
  BY <1>9 DEF Untrack, RemoveEntry, ClearLimit
<1>10. CASE RemoveUnobserved
  BY <1>10 DEF RemoveUnobserved, RemoveEntry
<1>11. CASE BeginCheck
  BY ConfiguredComponents, <1>11 DEF BeginCheck, CheckDue
<1>12. CASE Inspected
  BY ConfiguredComponents, <1>12 DEF Inspected, EndVisit
<1>13. CASE CommitRepair
  BY <1>13 DEF CommitRepair, EndVisit
<1>14. CASE UNCHANGED vars
  BY <1>14 DEF vars
<1> QED BY <1>1, <1>2, <1>3, <1>4, <1>5, <1>6, <1>7, <1>8, <1>9, <1>10, <1>11, <1>12, <1>13,
           <1>14 DEF Next, Environment, Service

(* The limits of a job are cleared before its entry stops enforcing. *)
LEMMA NextRetained == IInv /\ [Next]_vars => RetainedJobIsCleared'
<1> SUFFICES ASSUME IInv, [Next]_vars PROVE RetainedJobIsCleared'
  OBVIOUS
<1> USE DEF IInv, RetainedJobIsCleared, TypeOK, VisitOfEntry, world, os, entry, visit
<1>1. CASE EditRegistry
  BY <1>1 DEF EditRegistry
<1>2. CASE ChangeProfile
  BY <1>2 DEF ChangeProfile
<1>3. ASSUME NEW c \in Components, ProcessChanges(c) PROVE RetainedJobIsCleared'
  BY <1>3 DEF ProcessChanges
<1>4. ASSUME NEW force \in BOOLEAN, BeginApply(force) PROVE RetainedJobIsCleared'
  BY ConfiguredComponents, BeginUsing, <1>4 DEF BeginApply, ClearLimit
<1>5. ASSUME NEW c \in Components, SetComponent(c) PROVE RetainedJobIsCleared'
  BY <1>5 DEF SetComponent, IsNext
<1>6. ASSUME NEW c \in Components, Inspect(c) PROVE RetainedJobIsCleared'
  BY <1>6 DEF Inspect, IsNext
<1>7. CASE SetJob
  BY <1>7 DEF SetJob, EnforcePriority, IsNext
<1>8. CASE CommitApply
  BY <1>8 DEF CommitApply, RemoveEntry, EndVisit
<1>9. CASE Untrack
  BY <1>9 DEF Untrack, RemoveEntry, ClearLimit
<1>10. CASE RemoveUnobserved
  BY <1>10 DEF RemoveUnobserved, RemoveEntry
<1>11. CASE BeginCheck
  BY ConfiguredComponents, <1>11 DEF BeginCheck, CheckDue
<1>12. CASE Inspected
  BY ConfiguredComponents, <1>12 DEF Inspected, EndVisit
<1>13. CASE CommitRepair
  BY <1>13 DEF CommitRepair, EndVisit
<1>14. CASE UNCHANGED vars
  BY <1>14 DEF vars
<1> QED BY <1>1, <1>2, <1>3, <1>4, <1>5, <1>6, <1>7, <1>8, <1>9, <1>10, <1>11, <1>12, <1>13,
           <1>14 DEF Next, Environment, Service

(* A policy and its signature are replaced together. *)
LEMMA NextSigned == IInv /\ [Next]_vars => (UsingIsSigned /\ PolicyMatchesSignature)'
<1> SUFFICES ASSUME IInv, [Next]_vars PROVE (UsingIsSigned /\ PolicyMatchesSignature)'
  OBVIOUS
<1> USE DEF IInv, UsingIsSigned, PolicyMatchesSignature, Signed, TypeOK, world, os, entry, visit
<1>1. CASE EditRegistry
  BY <1>1 DEF EditRegistry
<1>2. CASE ChangeProfile
  BY <1>2 DEF ChangeProfile
<1>3. ASSUME NEW c \in Components, ProcessChanges(c)
      PROVE  (UsingIsSigned /\ PolicyMatchesSignature)'
  BY <1>3 DEF ProcessChanges
<1>4. ASSUME NEW force \in BOOLEAN, BeginApply(force)
      PROVE  (UsingIsSigned /\ PolicyMatchesSignature)'
  BY ConfiguredComponents, BeginUsing, <1>4 DEF BeginApply, ClearLimit
<1>5. ASSUME NEW c \in Components, SetComponent(c)
      PROVE  (UsingIsSigned /\ PolicyMatchesSignature)'
  BY <1>5 DEF SetComponent, IsNext
<1>6. ASSUME NEW c \in Components, Inspect(c)
      PROVE  (UsingIsSigned /\ PolicyMatchesSignature)'
  BY <1>6 DEF Inspect, IsNext
<1>7. CASE SetJob
  BY <1>7 DEF SetJob, EnforcePriority, IsNext
<1>8. CASE CommitApply
  BY <1>8 DEF CommitApply, RemoveEntry, EndVisit
<1>9. CASE Untrack
  BY <1>9 DEF Untrack, RemoveEntry, ClearLimit
<1>10. CASE RemoveUnobserved
  BY <1>10 DEF RemoveUnobserved, RemoveEntry
<1>11. CASE BeginCheck
  BY ConfiguredComponents, <1>11 DEF BeginCheck, CheckDue
<1>12. CASE Inspected
  BY ConfiguredComponents, <1>12 DEF Inspected, EndVisit
<1>13. CASE CommitRepair
  BY <1>13 DEF CommitRepair, EndVisit
<1>14. CASE UNCHANGED vars
  BY <1>14 DEF vars
<1> QED BY <1>1, <1>2, <1>3, <1>4, <1>5, <1>6, <1>7, <1>8, <1>9, <1>10, <1>11, <1>12, <1>13,
           <1>14 DEF Next, Environment, Service
-----------------------------------------------------------------------------
(* A process is not tracked when the service first sees it. *)
LEMMA InitIInv == Init => IInv
<1> SUFFICES ASSUME Init PROVE IInv
  OBVIOUS
<1> USE DEF Init
<1>1. TypeOK
  <2>1. NoPolicy \in Policies /\ [c \in Components |-> "own"] \in Policies
    BY DEF NoPolicy, Policies, Values
  <2>2. 0 \in 0..MaxGeneration /\ 0 \in 0..MaxChecks
    OBVIOUS
  <2> QED BY <2>1, <2>2 DEF TypeOK
<1>2. VisitOfEntry /\ DoneOrRecorded /\ UsingIsSigned
  BY DEF VisitOfEntry, DoneOrRecorded, UsingIsSigned
<1>3. AppliedOrReported /\ RetainedJobIsCleared /\ PolicyMatchesSignature
  BY DEF AppliedOrReported, RetainedJobIsCleared, PolicyMatchesSignature
<1> QED BY <1>1, <1>2, <1>3 DEF IInv

(* It holds in every reachable state. *)
LEMMA IInvHolds == Spec => []IInv
<1>1. IInv /\ [Next]_vars => IInv'
  BY NextTypeOK, NextVisit, NextDone, NextRetained, NextSigned DEF IInv
<1> QED BY <1>1, InitIInv, PTL DEF Spec

(* An entry that is not tracked has no policy, and the service holds a job  *)
(* for it only while it applies the first one.                              *)
THEOREM TypeAlwaysOK == Spec => []TypeOK
BY IInvHolds, PTL DEF IInv

(* After an application or a check every configured component has the value *)
(* of its policy, is reported as failed, or was changed by the process.     *)
THEOREM AlwaysAppliedOrReported == Spec => []AppliedOrReported
BY IInvHolds, PTL DEF IInv

(* The policy that checks repair to is one the entry's signature names, so  *)
(* a cached policy is never one of another rule.                            *)
THEOREM PolicyAlwaysMatchesSignature == Spec => []PolicyMatchesSignature
BY IInvHolds, PTL DEF IInv

(* An entry that is retained for its job limits nothing, unless clearing    *)
(* the job's limits failed.                                                 *)
THEOREM RetainedJobAlwaysCleared == Spec => []RetainedJobIsCleared
BY IInvHolds, PTL DEF IInv

(* No step of the service writes a setting that its policy leaves out, or   *)
(* to another value than the policy's.                                      *)
THEOREM OnlyPolicyIsEverWritten == Spec => OnlyPolicyIsWritten
<1>1. ASSUME IInv, Next, Service, NEW c \in Components, settings'[c] # settings[c]
      PROVE  using[c] # "unset" /\ settings'[c] = using[c]
  <2> settings \in Policies /\ todo \subseteq Configured(using, Components)
    BY <1>1 DEF IInv, TypeOK, VisitOfEntry
  <2>1. CASE \E d \in Components : SetComponent(d)
    <3>1. PICK d \in Components : SetComponent(d)
      BY <2>1
    <3>2. settings' = [settings EXCEPT ![d] = using[d]] /\ d \in todo
      BY <1>1, <3>1 DEF SetComponent, IsNext, os
    <3>3. c = d /\ settings'[c] = using[c]
      BY <1>1, <3>2 DEF Policies
    <3> QED BY <3>2, <3>3, ConfiguredComponents
  <2>2. CASE SetJob
    <3>1. settings' = [settings EXCEPT !["priority"] = using["priority"]] /\ "job" \in todo
      BY <1>1, <2>2 DEF SetJob, EnforcePriority, IsNext, os
    <3>2. c = "priority" /\ settings'[c] = using[c]
      BY <1>1, <3>1 DEF Policies, Components
    <3>3. using["priority"] # "unset"
      BY <3>1 DEF Configured, Components
    <3> QED BY <3>2, <3>3
  <2>3. CASE \/ \E force \in BOOLEAN : BeginApply(force)
             \/ \E d \in Components : Inspect(d)
             \/ CommitApply \/ Untrack \/ RemoveUnobserved \/ BeginCheck \/ Inspected \/ CommitRepair
    <3>1. settings' = settings
      BY <2>3 DEF BeginApply, Inspect, CommitApply, RemoveEntry, Untrack, RemoveUnobserved,
                  BeginCheck, Inspected, CommitRepair, os
    <3> QED BY <1>1, <3>1
  <2> QED BY <1>1, <2>1, <2>2, <2>3 DEF Service
<1>2. IInv /\ [Next]_vars =>
          [Service => \A c \in Components :
              settings'[c] # settings[c] => using[c] # "unset" /\ settings'[c] = using[c]]_vars
  BY <1>1
<1> QED BY <1>2, IInvHolds, PTL DEF Spec, OnlyPolicyIsWritten
=============================================================================
