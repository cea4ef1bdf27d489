--------------------------- MODULE ServiceProofs ---------------------------
(***************************************************************************)
(* Proofs about ServiceMain and ServiceInstall: the start and the stop of  *)
(* the service, alone and while it is being replaced.                      *)
(***************************************************************************)
EXTENDS ServiceInstall, TLAPS

(* The inductive invariant of ServiceMain: what the control state of        *)
(* service_main says of the reports, the stop event and the monitors.       *)

NoHandler   == {"reset", "register"}
BeforeEvent == NoHandler \cup {"store", "starting", "create"}
Ending      == {"return", "returned"}

HandleOf ==
    /\ registered <=> main \notin NoHandler /\ ~(main = "returned" /\ status = "none")
    /\ ~registered => status = "none" /\ ~requested
    /\ ~requested /\ main \in BeforeEvent \ {"create"} => status = "none"
    /\ ~requested /\ main \in Starting => status \in {"none", "START_PENDING"}
    /\ status \in DOMAIN Rank
    /\ status_handle <=> registered /\ main \notin {"store", "return", "returned"}
    /\ registered => (status = "STOPPED" <=> main \in Ending)

EventOf ==
    /\ stop_event \in {"none", "open", "signaled", "closed"}
    /\ main \in BeforeEvent => stop_event = "none"
    /\ main \in {"publish", "engine"} => stop_event # "none"
    /\ stop_event = "closed" => main = "returned"
    /\ event_raw => /\ main \notin BeforeEvent \cup {"publish"} \cup Ending
                    /\ stop_event \in {"open", "signaled"}

ResourcesOf ==
    /\ engine = "up" =>
          main \in {"power", "etw", "scan", "running", "wait", "pending",
                    "stop_etw", "drop_power", "shutdown"}
    /\ power = "up" =>
          main \in {"etw", "scan", "running", "wait", "pending", "stop_etw", "drop_power"}
    /\ etw = "up" => main \in {"scan", "running", "wait", "pending", "stop_etw"}
    /\ engine = "down" => main \in {"finish"} \cup Ending
    /\ main \in BeforeEvent \cup {"publish", "engine", "power"} => power = "none"
    /\ power \in {"none", "up", "down", "leaked"}
    /\ "etw" \in callbacks => etw = "up"
    /\ "power" \in callbacks => power \in {"up", "leaked"}
    /\ callbacks \subseteq {"etw", "power"}

IInv == main \in MainStates /\ HandleOf /\ EventOf /\ ResourcesOf
-----------------------------------------------------------------------------
(* The service starts with it. *)
LEMMA InitIInv == Init => IInv
BY DEF Init, IInv, HandleOf, EventOf, ResourcesOf, NoHandler, BeforeEvent, Ending,
       MainStates, Starting, Stopping, Rank

(* Every step of the service preserves it. *)
LEMMA NextIInv == IInv /\ [Next]_vars => IInv'
<1> SUFFICES ASSUME IInv, [Next]_vars PROVE IInv'
  OBVIOUS
<1> USE DEF IInv, HandleOf, EventOf, ResourcesOf, NoHandler, BeforeEvent, Ending,
            MainStates, Starting, Stopping, Rank, flags, resources, vars
<1>1. CASE ResetStopState
  BY <1>1 DEF ResetStopState
<1>2. CASE Register
  BY <1>2 DEF Register
<1>3. CASE StoreStatusHandle
  BY <1>3 DEF StoreStatusHandle
<1>4. CASE PublishStartPending
  BY <1>4 DEF PublishStartPending, Report
<1>5. CASE CreateStopEvent
  BY <1>5 DEF CreateStopEvent
<1>6. CASE PublishStopEvent
  <2>1. /\ main = "publish" /\ main' \in {"finish", "engine"}
        /\ stop_event \in {"open", "signaled"} /\ stop_event' \in {stop_event, "signaled"}
        /\ UNCHANGED <<registered, status_handle, status, requested, resources>>
    BY <1>6 DEF PublishStopEvent, Signal
  <2> QED BY <2>1
<1>7. CASE StartEngine
  BY <1>7 DEF StartEngine
<1>8. CASE StartPower
  BY <1>8 DEF StartPower
<1>9. CASE StartEtw
  BY <1>9 DEF StartEtw
<1>10. CASE StartupScan
  BY <1>10 DEF StartupScan
<1>11. CASE PublishRunning
  BY <1>11 DEF PublishRunning, Report
<1>12. CASE WaitForStop
  BY <1>12 DEF WaitForStop
<1>13. CASE PublishStopPending
  BY <1>13 DEF PublishStopPending, Report
<1>14. CASE ShutdownEngine
  BY <1>14 DEF ShutdownEngine
<1>15. CASE FinishStopped
  BY <1>15 DEF FinishStopped, Report
<1>16. CASE Return
  BY <1>16 DEF Return
<1>17. CASE WaitFails
  BY <1>17 DEF WaitFails
<1>18. CASE StopEtw
  BY <1>18 DEF StopEtw
<1>19. CASE DropPower
  BY <1>19 DEF DropPower
<1>20. CASE RequestStop
  BY <1>20 DEF RequestStop, Report, Signal
<1>21. CASE CallbackStarts
  BY <1>21 DEF CallbackStarts
<1>22. ASSUME NEW m \in {"etw", "power"}, CallbackEnds(m) PROVE IInv'
  BY <1>22 DEF CallbackEnds
<1>23. CASE UNCHANGED vars
  BY <1>23
<1> QED BY <1>1, <1>2, <1>3, <1>4, <1>5, <1>6, <1>7, <1>8, <1>9, <1>10, <1>11, <1>12, <1>13, <1>14, <1>15, <1>16, <1>17, <1>18, <1>19, <1>20, <1>21, <1>22, <1>23 DEF Next, MainStep

(* Hence it always holds. *)
LEMMA IInvHolds == Spec => []IInv
BY InitIInv, NextIInv, PTL DEF Spec
-----------------------------------------------------------------------------
(* The control handler never signals an event that service_main closed. *)
THEOREM PublishedEventAlwaysOpen == Spec => []PublishedEventIsOpen
<1>1. IInv => PublishedEventIsOpen
  BY DEF IInv, EventOf, PublishedEventIsOpen
<1> QED BY <1>1, IInvHolds, PTL

(* The invariant ties STOPPED to the end of service_main and to monitors    *)
(* that are down.                                                           *)
LEMMA IInvIsClean == IInv => StoppedIsClean
BY DEF IInv, HandleOf, ResourcesOf, StoppedIsClean, Ending

(* On every path through service_main, the failing ones included, STOPPED   *)
(* is the last word and nothing is up when it is said.                      *)
THEOREM StoppedAlwaysClean == Spec => []StoppedIsClean
BY IInvIsClean, IInvHolds, PTL

(* No monitor callback runs in an engine that is shut down, unless Windows  *)
(* refused to unregister it.                                                *)
THEOREM NoCallbackMeetsDeadEngine == Spec => []NoCallbackAfterShutdown
<1>1. IInv => NoCallbackAfterShutdown
  BY DEF IInv, ResourcesOf, Ending, NoCallbackAfterShutdown
<1> QED BY <1>1, IInvHolds, PTL

(* Whatever the handler and service_main report, the state the service      *)
(* control manager sees only advances.                                      *)
THEOREM StatusOnlyAdvances == Spec => StatusNeverGoesBack
<1>1. IInv /\ [Next]_vars => [Rank[status'] >= Rank[status]]_vars
  <2> SUFFICES ASSUME IInv, Next PROVE Rank[status'] >= Rank[status]
    OBVIOUS
  <2> USE DEF IInv, HandleOf, NoHandler, BeforeEvent, Ending, MainStates, Starting, Rank, Report
  <2>1. CASE UNCHANGED status
    BY <2>1
  <2>2. CASE PublishStartPending
    BY <2>2 DEF PublishStartPending
  <2>3. CASE PublishRunning
    BY <2>3 DEF PublishRunning
  <2>4. CASE PublishStopPending
    BY <2>4 DEF PublishStopPending
  <2>5. CASE FinishStopped
    BY <2>5 DEF FinishStopped
  <2>6. CASE RequestStop
    BY <2>6 DEF RequestStop
  <2>7. Next => \/ UNCHANGED status
                \/ PublishStartPending \/ PublishRunning \/ PublishStopPending
                \/ FinishStopped \/ RequestStop
    BY DEF Next, MainStep, ResetStopState, Register, StoreStatusHandle, CreateStopEvent,
           PublishStopEvent, StartEngine, StartPower, StartEtw, StartupScan, WaitForStop,
           ShutdownEngine, Return, WaitFails, StopEtw, DropPower, CallbackStarts, CallbackEnds
  <2> QED BY <2>1, <2>2, <2>3, <2>4, <2>5, <2>6, <2>7
<1> QED BY <1>1, IInvHolds, PTL DEF Spec, StatusNeverGoesBack

-----------------------------------------------------------------------------
(* The service that is being replaced is a ServiceMain: the installer only  *)
(* calls its control handler.                                               *)

LEMMA InstallSteps == [InstallNext]_ivars => [Next]_vars
<1> SUFFICES ASSUME [InstallNext]_ivars PROVE [Next]_vars
  OBVIOUS
<1>1. CASE InstallerStep
  BY <1>1 DEF InstallerStep, OpenService, QueryStatus, ControlStop, PollStopped, DeleteOld,
              PollDeleted, CreateService, Describe, Next
<1>2. CASE CallFails \/ DeadlinePasses \/ StartOld \/ RemoveRecord
  BY <1>2 DEF CallFails, DeadlinePasses, StartOld, RemoveRecord
<1>3. CASE ServiceStep \/ ServiceStopEtw \/ ServiceDropPower \/ Others
  BY <1>3 DEF ServiceStep, ServiceStopEtw, ServiceDropPower, Others, Next
<1>4. ASSUME NEW m \in {"etw", "power"}, CallbackReturns(m) PROVE [Next]_vars
  BY <1>4 DEF CallbackReturns, Next
<1>5. CASE UNCHANGED ivars
  BY <1>5 DEF ivars
<1> QED BY <1>1, <1>2, <1>3, <1>4, <1>5 DEF InstallNext

(* install_service and the service control manager see a service that is    *)
(* the one of ServiceMain: they change nothing of its state by themselves.  *)
THEOREM InstallRunsTheService == InstallSpec => Spec
<1>1. InstallInit => Init
  BY DEF InstallInit
<1> QED BY <1>1, InstallSteps, PTL DEF InstallSpec, Spec

(* The record is given up only when the manager takes the old service for   *)
(* stopped, and a service that is gone is not started again.                *)
GoneOf ==
    /\ started \in BOOLEAN /\ record \in {"old", "deleted", "none", "new"}
    /\ ~started => main = "reset" /\ status = "none"
    /\ record \in {"none", "new"} => ~started \/ main = "returned" \/ status = "STOPPED"

(* What is over stays over. *)
LEMMA EndIsFinal ==
    IInv /\ [Next]_vars /\ (main = "returned" \/ status = "STOPPED")
        => main' = "returned" \/ status' = "STOPPED"
<1> SUFFICES ASSUME IInv, [Next]_vars, main = "returned" \/ status = "STOPPED"
             PROVE  main' = "returned" \/ status' = "STOPPED"
  OBVIOUS
<1> USE DEF IInv, HandleOf, NoHandler, Ending
<1>1. main \in Ending
  OBVIOUS
<1>2. CASE Next
  <2>1. Return \/ RequestStop \/ UNCHANGED <<main, status>>
    BY <1>1, <1>2 DEF Next, MainStep, ResetStopState, Register, StoreStatusHandle, PublishStartPending,
         CreateStopEvent, PublishStopEvent, StartEngine, StartPower, StartEtw, StartupScan,
         PublishRunning, WaitForStop, PublishStopPending, ShutdownEngine, FinishStopped,
         WaitFails, StopEtw, DropPower, CallbackStarts, CallbackEnds
  <2> QED BY <1>1, <2>1 DEF Return, RequestStop, Report
<1>3. CASE UNCHANGED vars
  BY <1>3 DEF vars
<1> QED BY <1>2, <1>3

(* The installer and the manager keep to it. *)
LEMMA NextGone == IInv /\ GoneOf /\ [InstallNext]_ivars => GoneOf'
<1> SUFFICES ASSUME IInv, GoneOf, [InstallNext]_ivars PROVE GoneOf'
  OBVIOUS
<1> USE DEF GoneOf
<1>1. CASE \/ OpenService \/ QueryStatus \/ PollStopped \/ DeleteOld \/ PollDeleted
           \/ CreateService \/ Describe \/ CallFails \/ DeadlinePasses \/ StartOld
  <2>1. CASE OpenService \/ QueryStatus \/ PollStopped \/ PollDeleted \/ Describe \/ CallFails \/ DeadlinePasses
    <3>1. UNCHANGED <<vars, started, record>>
      BY <2>1 DEF OpenService, QueryStatus, PollStopped, PollDeleted, Describe, CallFails, DeadlinePasses
    <3> QED BY <3>1 DEF vars
  <2>2. CASE DeleteOld
    BY <2>2 DEF DeleteOld, vars
  <2>3. CASE CreateService
    BY <2>3 DEF CreateService, vars
  <2>4. CASE StartOld
    BY <2>4 DEF StartOld, vars, install
  <2> QED BY <1>1, <2>1, <2>2, <2>3, <2>4
<1>2. CASE RemoveRecord
  BY <1>2 DEF RemoveRecord, Reported, vars
<1>3. CASE ControlStop \/ ServiceStep \/ ServiceStopEtw \/ ServiceDropPower \/ Others
           \/ \E m \in {"etw", "power"} : CallbackReturns(m)
  <2>1. UNCHANGED <<started, record>>
    BY <1>3 DEF ControlStop, ServiceStep, ServiceStopEtw, ServiceDropPower, Others,
                CallbackReturns, install
  <2>2. started \/ UNCHANGED <<main, status>>
    BY <1>3 DEF ControlStop, ServiceStep, ServiceStopEtw, ServiceDropPower, Others,
                CallbackReturns, Reported, vars
  <2> QED BY <2>1, <2>2, InstallSteps, EndIsFinal
<1>4. CASE UNCHANGED ivars
  BY <1>4 DEF ivars, vars, install
<1> QED BY <1>1, <1>2, <1>3, <1>4 DEF InstallNext, InstallerStep

(* The new service is created only when nothing of the old one is up. *)
THEOREM ReplacementAlwaysClean == InstallSpec => []ReplacementIsClean
<1>1. InstallInit => IInv /\ GoneOf
  BY InitIInv DEF InstallInit, GoneOf, Init
<1>2. IInv /\ GoneOf /\ [InstallNext]_ivars => (IInv /\ GoneOf)'
  BY InstallSteps, NextIInv, NextGone
<1>3. IInv /\ GoneOf => ReplacementIsClean
  <2> SUFFICES ASSUME IInv, GoneOf, record = "new" PROVE "up" \notin {engine, power, etw}
    BY DEF ReplacementIsClean
  <2>1. main = "reset" \/ main \in Ending
    BY DEF GoneOf, IInv, HandleOf, NoHandler, Ending
  <2> QED BY <2>1 DEF IInv, ResourcesOf, Ending
<1> QED BY <1>1, <1>2, <1>3, PTL DEF InstallSpec
=============================================================================
