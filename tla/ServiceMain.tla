---------------------------- MODULE ServiceMain ----------------------------
(***************************************************************************)
(* The Windows service of src/service.rs: service_main against the control *)
(* handler, which the service control manager calls on another thread, and *)
(* the callbacks of the power and ETW monitors.  One action is one section *)
(* of SERVICE_STOP_EVENT_GATE or one call of service_main.                 *)
(***************************************************************************)
EXTENDS Naturals

VARIABLES
    main,            \* control state of service_main
    registered,      \* the control handler can be called
    status_handle,   \* SERVICE_STATUS_HANDLE_RAW is not 0
    status,          \* what the service control manager was last told
    requested,       \* SERVICE_STOP_REQUESTED
    event_raw,       \* SERVICE_STOP_EVENT_RAW is not 0
    stop_event,      \* the event object owned by service_main
    signal_failed,   \* SetEvent on the stop event returned an error
    engine, power, etw,   \* the rule engine and the two monitors
    callbacks        \* monitor callbacks now running in the engine

flags     == <<requested, event_raw, stop_event, signal_failed>>
resources == <<engine, power, etw, callbacks>>
vars      == <<main, registered, status_handle, status, flags, resources>>

Starting == {"reset", "register", "store", "starting", "create", "publish",
             "engine", "power", "etw", "scan", "running"}
Stopping == {"pending", "stop_etw", "drop_power", "shutdown", "finish"}
MainStates == Starting \cup Stopping \cup {"wait", "return", "returned"}

Rank == [none |-> 0, START_PENDING |-> 1, RUNNING |-> 2, STOP_PENDING |-> 3, STOPPED |-> 4]

Init ==
    /\ main = "reset" /\ registered = FALSE
    /\ status_handle = FALSE /\ status = "none"
    /\ requested = FALSE /\ event_raw = FALSE /\ stop_event = "none" /\ signal_failed = FALSE
    /\ engine = "none" /\ power = "none" /\ etw = "none" /\ callbacks = {}

(* report_service_status does nothing without a status handle. *)
Report(new) == status' = IF status_handle THEN new ELSE status

Signal ==
    \/ stop_event' = "signaled" /\ UNCHANGED signal_failed
    \/ signal_failed' = TRUE /\ UNCHANGED stop_event

-----------------------------------------------------------------------------
(* Start-up. *)

ResetStopState ==
    /\ main = "reset" /\ main' = "register"
    /\ requested' = FALSE /\ event_raw' = FALSE
    /\ UNCHANGED <<registered, status_handle, status, stop_event, signal_failed, resources>>

(* Without a handler nothing can be reported. *)
Register ==
    /\ main = "register"
    /\ \/ registered' = TRUE /\ main' = "store"
       \/ registered' = FALSE /\ main' = "returned"
    /\ UNCHANGED <<status_handle, status, flags, resources>>

StoreStatusHandle ==
    /\ main = "store" /\ main' = "starting"
    /\ status_handle' = TRUE
    /\ UNCHANGED <<registered, status, flags, resources>>

PublishStartPending ==
    /\ main = "starting" /\ main' = "create"
    /\ IF requested THEN UNCHANGED status ELSE Report("START_PENDING")
    /\ UNCHANGED <<registered, status_handle, flags, resources>>

CreateStopEvent ==
    /\ main = "create"
    /\ \/ stop_event' = "open" /\ main' = "publish"
       \/ UNCHANGED stop_event /\ main' = "finish"
    /\ UNCHANGED <<registered, status_handle, status, requested, event_raw, signal_failed, resources>>

(* publish_stop_event: a stop request that came earlier ends the start-up. *)
PublishStopEvent ==
    /\ main = "publish"
    /\ event_raw' = TRUE
    /\ IF requested THEN Signal /\ main' = "finish"
                    ELSE UNCHANGED <<stop_event, signal_failed>> /\ main' = "engine"
    /\ UNCHANGED <<registered, status_handle, status, requested, resources>>

StartEngine ==
    /\ main = "engine"
    /\ \/ engine' = "up" /\ main' = "power"
       \/ UNCHANGED engine /\ main' = "finish"
    /\ UNCHANGED <<registered, status_handle, status, flags, power, etw, callbacks>>

(* The service runs without the power monitor when it cannot start. *)
StartPower ==
    /\ main = "power" /\ main' = "etw"
    /\ power' \in {"none", "up"}
    /\ UNCHANGED <<registered, status_handle, status, flags, engine, etw, callbacks>>

(* Mutant: the failure path forgets the power monitor and the engine. *)
MutStartEtwLeaks ==
    /\ main = "etw"
    /\ \/ etw' = "up" /\ main' = "scan"
       \/ UNCHANGED etw /\ main' = "finish"
    /\ UNCHANGED <<registered, status_handle, status, flags, engine, power, callbacks>>

StartEtw ==
    /\ main = "etw"
    /\ \/ etw' = "up" /\ main' = "scan"
       \/ UNCHANGED etw /\ main' = "drop_power"
    /\ UNCHANGED <<registered, status_handle, status, flags, engine, power, callbacks>>

StartupScan ==
    /\ main = "scan"
    /\ main' \in {"running", "stop_etw"}
    /\ UNCHANGED <<registered, status_handle, status, flags, resources>>

(* Mutant: RUNNING is published without looking at the stop request. *)
MutPublishRunningAlways ==
    /\ main = "running" /\ main' = "wait"
    /\ Report("RUNNING")
    /\ UNCHANGED <<registered, status_handle, flags, resources>>

PublishRunning ==
    /\ main = "running"
    /\ IF requested THEN main' = "pending" /\ UNCHANGED status
                    ELSE main' = "wait" /\ Report("RUNNING")
    /\ UNCHANGED <<registered, status_handle, flags, resources>>

-----------------------------------------------------------------------------
(* Stopping. *)

WaitForStop ==
    /\ main = "wait" /\ stop_event = "signaled"
    /\ main' = "pending"
    /\ UNCHANGED <<registered, status_handle, status, flags, resources>>

(* An unexpected wait result is logged and stops the service as well. *)
WaitFails ==
    /\ main = "wait" /\ main' = "pending"
    /\ UNCHANGED <<registered, status_handle, status, flags, resources>>

PublishStopPending ==
    /\ main = "pending" /\ main' = "stop_etw"
    /\ Report("STOP_PENDING")
    /\ UNCHANGED <<registered, status_handle, flags, resources>>

(* Mutant: the trace is closed but its thread is not joined. *)
MutStopEtwWithoutJoin ==
    /\ main = "stop_etw" /\ main' = "drop_power"
    /\ etw' = "down"
    /\ UNCHANGED <<registered, status_handle, status, flags, engine, power, callbacks>>

(* EtwMonitor::stop joins the thread its callbacks run on. *)
StopEtw ==
    /\ main = "stop_etw" /\ "etw" \notin callbacks
    /\ main' = "drop_power" /\ etw' = "down"
    /\ UNCHANGED <<registered, status_handle, status, flags, engine, power, callbacks>>

(* Unregistering waits for a running callback; when it fails, which is only *)
(* logged, callbacks go on.                                                 *)
DropPower ==
    /\ main = "drop_power" /\ main' = "shutdown"
    /\ \/ power = "up" /\ power' = "down" /\ "power" \notin callbacks
       \/ power = "up" /\ power' = "leaked"
       \/ power = "none" /\ UNCHANGED power
    /\ UNCHANGED <<registered, status_handle, status, flags, engine, etw, callbacks>>

(* RuleEngine::shutdown; see Reconciler. *)
ShutdownEngine ==
    /\ main = "shutdown" /\ main' = "finish"
    /\ engine' = "down"
    /\ UNCHANGED <<registered, status_handle, status, flags, power, etw, callbacks>>

(* Mutant: the stop event stays published. *)
MutFinishKeepsEvent ==
    /\ main = "finish" /\ main' = "return"
    /\ Report("STOPPED") /\ status_handle' = FALSE
    /\ UNCHANGED <<registered, flags, resources>>

(* Mutant: the status handle is cleared before the last report. *)
MutFinishReportsLast ==
    /\ main = "finish" /\ main' = "return"
    /\ event_raw' = FALSE /\ status_handle' = FALSE
    /\ UNCHANGED <<registered, status, requested, stop_event, signal_failed, resources>>

FinishStopped ==
    /\ main = "finish" /\ main' = "return"
    /\ event_raw' = FALSE
    /\ Report("STOPPED")
    /\ status_handle' = FALSE
    /\ UNCHANGED <<registered, requested, stop_event, signal_failed, resources>>

(* service_main returns and drops the stop event. *)
Return ==
    /\ main = "return" /\ main' = "returned"
    /\ stop_event' = IF stop_event = "none" THEN "none" ELSE "closed"
    /\ UNCHANGED <<registered, status_handle, status, requested, event_raw, signal_failed, resources>>

-----------------------------------------------------------------------------
(* The control handler and the callbacks. *)

(* Mutant: the request is only noted. *)
MutRequestStopSilently ==
    /\ registered
    /\ requested' = TRUE
    /\ IF requested THEN UNCHANGED status ELSE Report("STOP_PENDING")
    /\ UNCHANGED <<main, registered, status_handle, event_raw, stop_event, signal_failed, resources>>

RequestStop ==
    /\ registered
    /\ requested' = TRUE
    /\ IF requested
         THEN UNCHANGED <<status, stop_event, signal_failed>>
         ELSE /\ IF event_raw THEN Signal ELSE UNCHANGED <<stop_event, signal_failed>>
              /\ Report("STOP_PENDING")
    /\ UNCHANGED <<main, registered, status_handle, event_raw, resources>>

CallbackStarts ==
    /\ \E m \in {"etw", "power"} :
          /\ \/ m = "etw" /\ etw = "up"
             \/ m = "power" /\ power \in {"up", "leaked"}
          /\ callbacks' = callbacks \cup {m}
    /\ UNCHANGED <<main, registered, status_handle, status, flags, engine, power, etw>>

CallbackEnds(m) ==
    /\ m \in callbacks /\ callbacks' = callbacks \ {m}
    /\ UNCHANGED <<main, registered, status_handle, status, flags, engine, power, etw>>

MainStep ==
    \/ ResetStopState \/ Register \/ StoreStatusHandle \/ PublishStartPending
    \/ CreateStopEvent \/ PublishStopEvent \/ StartEngine \/ StartPower \/ StartEtw
    \/ StartupScan \/ PublishRunning \/ WaitForStop \/ PublishStopPending
    \/ ShutdownEngine \/ FinishStopped \/ Return

Next ==
    \/ MainStep \/ WaitFails \/ StopEtw \/ DropPower
    \/ RequestStop \/ CallbackStarts
    \/ \E m \in {"etw", "power"} : CallbackEnds(m)

Spec == Init /\ [][Next]_vars

(* service_main runs on; callbacks return, and a monitor that is being      *)
(* stopped while its callbacks come and go is stopped between two of them.  *)
FairSpec ==
    /\ Spec /\ WF_vars(MainStep) /\ SF_vars(StopEtw) /\ SF_vars(DropPower)
    /\ \A m \in {"etw", "power"} : WF_vars(CallbackEnds(m))

-----------------------------------------------------------------------------
(* The service control manager never sees the state go back: no RUNNING     *)
(* after the handler's STOP_PENDING, and nothing after STOPPED, even when   *)
(* the request arrives while service_main returns.                          *)
StatusNeverGoesBack == [][Rank[status'] >= Rank[status]]_vars

(* The handle the handler would signal is never one that service_main has   *)
(* already closed.                                                          *)
PublishedEventIsOpen == event_raw => stop_event \in {"open", "signaled"}

(* On every path, early failures included, STOPPED is reported, only after  *)
(* the monitors are stopped and the engine is shut down, and before         *)
(* service_main returns if the handler was registered.                      *)
StoppedIsClean ==
    /\ status = "STOPPED" => "up" \notin {engine, power, etw}
    /\ main \in {"return", "returned"} /\ registered => status = "STOPPED"

(* No monitor callback is inside the engine once it is shut down, unless    *)
(* Windows refused to unregister the power callback.                        *)
NoCallbackAfterShutdown == engine = "down" => callbacks \subseteq {m \in {"power"} : power = "leaked"}

(* A stop request is honoured at any moment of start-up and operation,      *)
(* unless the system refuses to signal the stop event.                      *)
StopHonoured == requested /\ ~signal_failed ~> main = "returned"
=============================================================================
