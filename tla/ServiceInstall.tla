--------------------------- MODULE ServiceInstall ---------------------------
(***************************************************************************)
(* `affix install' (install_service in src/service.rs) over a service that *)
(* may be installed already, stopped, starting, running or stopping: the   *)
(* old service is ServiceMain, stopped through its control handler; the    *)
(* service control manager keeps its record until it has been deleted, has *)
(* stopped and nobody holds a handle to it.  The installer polls for both  *)
(* with a deadline each; somebody else may start or stop the old service,  *)
(* or hold a handle to it, meanwhile.                                      *)
(***************************************************************************)
EXTENDS ServiceMain

VARIABLES
    started,      \* the old service has been started
    record,       \* the service's record: old, old and deleted, none, new
    installer,    \* control state of install_service
    handle,       \* the installer's handle to the old service is open
    deadline      \* the deadline of the current polling loop has passed

install == <<record, installer, handle, deadline>>
ivars   == <<vars, started, install>>

Ended == installer \in {"ok", "failed"}

(* The state QueryServiceStatus returns for the old service. *)
Reported ==
    CASE ~started \/ main = "returned" -> "STOPPED"
      [] started /\ main # "returned" /\ status = "none" -> "START_PENDING"
      [] OTHER -> status

InstallInit ==
    /\ Init
    /\ started = FALSE /\ record \in {"old", "none"}
    /\ installer = "open" /\ handle = FALSE /\ deadline = FALSE

Fail == installer' = "failed" /\ handle' = FALSE

-----------------------------------------------------------------------------
(* install_service and what it calls. *)

(* A call of the installer fails: the manager or the service cannot be      *)
(* opened, queried, deleted or created.  When the description cannot be set *)
(* the new service is installed all the same.                               *)
CallFails ==
    /\ installer \notin {"stop", "ok", "failed"} /\ Fail
    /\ UNCHANGED <<vars, started, record, deadline>>

OpenService ==
    /\ installer = "open"
    /\ IF record = "none" THEN installer' = "create" /\ UNCHANGED handle
                          ELSE installer' = "query" /\ handle' = TRUE
    /\ UNCHANGED <<vars, started, record, deadline>>

QueryStatus ==
    /\ installer = "query"
    /\ installer' = IF Reported = "STOPPED" THEN "delete" ELSE "stop"
    /\ UNCHANGED <<vars, started, record, handle, deadline>>

(* ControlService(SERVICE_CONTROL_STOP): the handler runs, or the service   *)
(* is not active any more, or the control is refused, for instance while    *)
(* the service is starting.  A refusal is only logged and never retried.    *)
ControlStop ==
    /\ installer = "stop"
    /\ \/ Reported # "STOPPED" /\ RequestStop /\ installer' = "poll_stopped"
       \/ Reported = "STOPPED" /\ UNCHANGED vars /\ installer' = "delete"
       \/ Reported # "STOPPED" /\ UNCHANGED vars /\ installer' = "poll_stopped"
    /\ deadline' = FALSE
    /\ UNCHANGED <<started, record, handle>>

(* wait_for_service_stopped looks at the state before the deadline. *)
PollStopped ==
    /\ installer = "poll_stopped"
    /\ \/ Reported = "STOPPED" /\ installer' = "delete" /\ UNCHANGED handle
       \/ Reported # "STOPPED" /\ deadline /\ Fail
    /\ UNCHANGED <<vars, started, record, deadline>>

(* DeleteService; a service that is deleted already is as good. *)
DeleteOld ==
    /\ installer = "delete"
    /\ record' = "deleted" /\ handle' = FALSE /\ deadline' = FALSE
    /\ installer' = "poll_deleted"
    /\ UNCHANGED <<vars, started>>

MutPollWithoutDeadline ==
    /\ installer = "poll_deleted"
    /\ record = "none" /\ installer' = "create"
    /\ UNCHANGED <<vars, started, record, handle, deadline>>

PollDeleted ==
    /\ installer = "poll_deleted"
    /\ \/ record = "none" /\ installer' = "create" /\ UNCHANGED handle
       \/ record # "none" /\ deadline /\ Fail
    /\ UNCHANGED <<vars, started, record, deadline>>

(* CreateServiceW; a name that is still taken is refused by the manager. *)
CreateService ==
    /\ installer = "create" /\ record = "none"
    /\ record' = "new" /\ installer' = "describe"
    /\ UNCHANGED <<vars, started, handle, deadline>>

Describe ==
    /\ installer = "describe" /\ installer' = "ok"
    /\ UNCHANGED <<vars, started, record, handle, deadline>>

InstallerStep ==
    \/ OpenService \/ QueryStatus \/ ControlStop \/ PollStopped \/ DeleteOld
    \/ PollDeleted \/ CreateService \/ Describe

DeadlinePasses ==
    /\ installer \in {"poll_stopped", "poll_deleted"} /\ ~deadline
    /\ deadline' = TRUE
    /\ UNCHANGED <<vars, started, record, installer, handle>>

-----------------------------------------------------------------------------
(* The service control manager and the old service. *)

StartOld ==
    /\ ~started /\ record = "old" /\ started' = TRUE
    /\ UNCHANGED <<vars, install>>

(* A deleted service that is not active goes when its last handle does;     *)
(* others may hold one for as long as they like.                            *)
RemoveRecord ==
    /\ record = "deleted" /\ ~handle /\ Reported = "STOPPED"
    /\ record' = "none"
    /\ UNCHANGED <<vars, started, installer, handle, deadline>>

ServiceStep     == started /\ MainStep /\ UNCHANGED <<started, install>>
ServiceStopEtw  == started /\ StopEtw /\ UNCHANGED <<started, install>>
ServiceDropPower == started /\ DropPower /\ UNCHANGED <<started, install>>
CallbackReturns(m) == started /\ CallbackEnds(m) /\ UNCHANGED <<started, install>>
Others == started /\ (WaitFails \/ RequestStop \/ CallbackStarts) /\ UNCHANGED <<started, install>>

InstallNext ==
    \/ InstallerStep \/ CallFails \/ DeadlinePasses \/ StartOld \/ RemoveRecord
    \/ ServiceStep \/ ServiceStopEtw \/ ServiceDropPower \/ Others
    \/ \E m \in {"etw", "power"} : CallbackReturns(m)

(* The old service under the fairness of ServiceMain; the installer goes on *)
(* and time passes.                                                         *)
InstallSpec ==
    /\ InstallInit /\ [][InstallNext]_ivars
    /\ WF_ivars(ServiceStep) /\ SF_ivars(ServiceStopEtw) /\ SF_ivars(ServiceDropPower)
    /\ \A m \in {"etw", "power"} : WF_ivars(CallbackReturns(m))
    /\ WF_ivars(InstallerStep) /\ WF_ivars(DeadlinePasses)

-----------------------------------------------------------------------------
(* The new service never meets the old one: when its record is created the  *)
(* old service was not started or its monitors and its engine are down,     *)
(* although the manager's word for "stopped" is only what service_main      *)
(* reported, and the process may still be returning.                        *)
ReplacementIsClean == record = "new" => "up" \notin {engine, power, etw}

(* The installer ends, whether the old service stops or refuses to, and     *)
(* whether or not somebody keeps a handle to the deleted one.               *)
InstallEnds == installer = "open" ~> Ended
=============================================================================
