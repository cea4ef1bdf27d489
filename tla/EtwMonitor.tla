----------------------------- MODULE EtwMonitor -----------------------------
(***************************************************************************)
(* EtwMonitor of src/etw.rs: the trace session, the consumer handle and    *)
(* the thread that runs ProcessTrace.  The session is a kernel object with *)
(* a fixed name; it outlives a service process that is killed, and the     *)
(* next process cannot start one of the same name.                         *)
(***************************************************************************)
EXTENDS Naturals

CONSTANT MaxRuns    \* bound on the number of service processes in a row
ASSUME MaxRunsAssumption == MaxRuns \in Nat \ {0}

VARIABLES
    runs,       \* service processes so far
    control,    \* control state of start_with_api and stop
    session,    \* kernel object: "none", "own", or "other" process's
    refused,    \* StopTrace failed in this process
    consumer,   \* trace handle: "none", "open", "closed"
    closed,     \* TraceConsumer.closed
    closes,     \* calls of CloseTrace on the handle
    thread      \* control state of the ProcessTrace thread

vars == <<runs, control, session, refused, consumer, closed, closes, thread>>

Init ==
    /\ runs = 1 /\ control = "start" /\ session \in {"none", "other"} /\ refused = FALSE
    /\ consumer = "none" /\ closed = FALSE /\ closes = 0 /\ thread = "none"

-----------------------------------------------------------------------------
(* start_with_api *)

(* A failed StopTrace is ignored or only logged. *)
StopSession ==
    \/ session' = "none" /\ UNCHANGED refused
    \/ refused' = TRUE /\ UNCHANGED session

(* ERROR_ALREADY_EXISTS, like every other error, fails the start. *)
StartTrace ==
    /\ control = "start"
    /\ \/ session = "none" /\ session' = "own" /\ control' = "enable"
       \/ UNCHANGED session /\ control' = "failed"
    /\ UNCHANGED <<runs, refused, consumer, closed, closes, thread>>

(* Mutant: the session is left running. *)
MutEnableLeaksSession ==
    /\ control = "enable" /\ control' \in {"open", "failed"}
    /\ UNCHANGED <<runs, session, refused, consumer, closed, closes, thread>>

EnableProvider ==
    /\ control = "enable"
    /\ \/ control' = "open" /\ UNCHANGED <<session, refused>>
       \/ control' = "failed" /\ StopSession
    /\ UNCHANGED <<runs, consumer, closed, closes, thread>>

OpenTrace ==
    /\ control = "open"
    /\ \/ control' = "spawn" /\ consumer' = "open" /\ UNCHANGED <<session, refused>>
       \/ control' = "failed" /\ StopSession /\ UNCHANGED consumer
    /\ UNCHANGED <<runs, closed, closes, thread>>

(* TraceConsumer::close: whoever swaps the flag first closes the handle. *)
Close ==
    /\ closed' = TRUE
    /\ IF closed THEN UNCHANGED <<consumer, closes>>
                 ELSE consumer' = "closed" /\ closes' = closes + 1

SpawnWorker ==
    /\ control = "spawn"
    /\ \/ /\ control' = "started" /\ thread' = "process"
          /\ UNCHANGED <<session, refused, consumer, closed, closes>>
       \/ /\ control' = "failed" /\ Close /\ StopSession
          /\ UNCHANGED thread
    /\ UNCHANGED runs

-----------------------------------------------------------------------------
(* The thread: ProcessTrace returns when the session is gone or the handle  *)
(* is closed, or by itself with an error; then the thread closes the handle.*)

ProcessTraceReturns ==
    /\ thread = "process" /\ (session = "none" \/ consumer = "closed")
    /\ thread' = "close"
    /\ UNCHANGED <<runs, control, session, refused, consumer, closed, closes>>

ProcessTraceFails ==
    /\ thread = "process" /\ thread' = "close"
    /\ UNCHANGED <<runs, control, session, refused, consumer, closed, closes>>

ThreadCloses ==
    /\ thread = "close" /\ thread' = "done"
    /\ Close
    /\ UNCHANGED <<runs, control, session, refused>>

-----------------------------------------------------------------------------
(* EtwMonitor::stop, also called when the monitor is dropped. *)

StopTrace ==
    /\ control = "started" /\ control' = "closing"
    /\ StopSession
    /\ UNCHANGED <<runs, consumer, closed, closes, thread>>

(* Mutant: stop relies on the session's end to end ProcessTrace. *)
MutStopWithoutClose ==
    /\ control = "closing" /\ control' = "joining"
    /\ UNCHANGED <<runs, session, refused, consumer, closed, closes, thread>>

StopCloses ==
    /\ control = "closing" /\ control' = "joining"
    /\ Close
    /\ UNCHANGED <<runs, session, refused, thread>>

JoinWorker ==
    /\ control = "joining" /\ thread = "done"
    /\ control' = "stopped"
    /\ UNCHANGED <<runs, session, refused, consumer, closed, closes, thread>>

-----------------------------------------------------------------------------
(* The process is killed or has ended, and another one follows.  Handles    *)
(* and threads go with the process, the session stays.                      *)
NewProcess ==
    /\ runs < MaxRuns /\ runs' = runs + 1
    /\ session' = IF session = "none" THEN "none" ELSE "other"
    /\ control' = "start" /\ refused' = FALSE
    /\ consumer' = "none" /\ closed' = FALSE /\ closes' = 0 /\ thread' = "none"

(* An administrator ends a session that was left behind. *)
RemoveLeftover ==
    /\ session = "other" /\ session' = "none"
    /\ UNCHANGED <<runs, control, refused, consumer, closed, closes, thread>>

ControlStep == StartTrace \/ EnableProvider \/ OpenTrace \/ SpawnWorker \/ StopCloses \/ JoinWorker
ThreadStep  == ProcessTraceReturns \/ ThreadCloses

Next == ControlStep \/ ThreadStep \/ StopTrace \/ ProcessTraceFails \/ NewProcess \/ RemoveLeftover

Spec == Init /\ [][Next]_vars

(* Both threads of the process run on. *)
FairSpec == Spec /\ WF_vars(ControlStep) /\ WF_vars(ThreadStep)

-----------------------------------------------------------------------------
(* A failed start and a finished stop leave nothing behind: the handle is   *)
(* closed, no thread can still call back into the monitor's context, and    *)
(* the session is gone unless Windows refused to stop it.  Stop and the     *)
(* thread race to close the handle, and CloseTrace is called at most once.  *)
NothingLeftBehind ==
    /\ closes <= 1
    /\ control \in {"failed", "stopped"} =>
        /\ consumer # "open" /\ thread \in {"none", "done"}
        /\ session = "own" => refused

(* Stop ends even when StopTrace fails: closing the handle ends             *)
(* ProcessTrace, so the join cannot hang.                                   *)
StopEnds == control = "closing" ~> control \in {"stopped", "start"}
=============================================================================
