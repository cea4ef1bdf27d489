----------------------------- MODULE Diagnostics -----------------------------
(***************************************************************************)
(* The diagnostics mapping of src/diagnostics.rs (debug builds), a named   *)
(* kernel object as the trace session of EtwMonitor is: each service       *)
(* process creates or finds it, publishes into it and gives it up after it *)
(* has reported STOPPED, when the next process may already be starting; a  *)
(* process can be killed at any point; `affix diagnostics' opens, reads and *)
(* closes it at any time.  The object lives as long as somebody has it     *)
(* open, and a new one is zeroed.                                          *)
(***************************************************************************)
EXTENDS EtwMonitor

CONSTANT Readers    \* `affix diagnostics' commands at work at the same time
ASSUME ReadersAssumption == Readers \cap (0..MaxRuns) = {}

VARIABLES
    stage,      \* each service process and its DiagnosticPublisher
    holders,    \* processes and readers that have the mapping open
    magic,      \* the magic number is set
    header,     \* process that wrote identity and counters; 0: zeroed
    phase,      \* the published phase and the process that wrote it
    reading,    \* control state of each reader
    snapshot    \* what each reader has read: header, writer of the phase

page  == <<magic, header, phase>>
dvars == <<stage, holders, page, reading, snapshot>>
kvars == <<vars, dvars>>

Processes == 1..MaxRuns
NoPhase   == [by |-> 0, value |-> "zero"]
NoRead    == [header |-> 0, phase |-> 0]

DiagnosticsInit ==
    /\ Init
    /\ stage = [r \in Processes |-> IF r = 1 THEN "create" ELSE "none"]
    /\ holders = {} /\ magic = FALSE /\ header = 0 /\ phase = NoPhase
    /\ reading = [x \in Readers |-> "idle"] /\ snapshot = [x \in Readers |-> NoRead]

-----------------------------------------------------------------------------
Goto(r, s) == stage' = [stage EXCEPT ![r] = s]

(* Windows: the object goes with its last handle. *)
CloseMapping(h) ==
    /\ holders' = holders \ {h}
    /\ IF holders \subseteq {h} THEN magic' = FALSE /\ header' = 0 /\ phase' = NoPhase
                                ELSE UNCHANGED page

-----------------------------------------------------------------------------
(* The publisher of process r.  Without one the service runs all the same.  *)

CreateMapping(r) ==
    /\ stage[r] = "create"
    /\ \/ holders' = holders \cup {r} /\ Goto(r, "check")
       \/ Goto(r, "silent") /\ UNCHANGED holders
    /\ UNCHANGED <<page, reading, snapshot>>

(* A mapping with the magic number set is in use by another service. *)
CheckMagic(r) ==
    /\ stage[r] = "check"
    /\ \/ magic /\ CloseMapping(r) /\ Goto(r, "silent")
       \/ ~magic /\ Goto(r, "header") /\ UNCHANGED <<holders, page>>
    /\ UNCHANGED <<reading, snapshot>>

(* The whole layout, not in one piece; its magic number is zero. *)
WriteLayout(r) ==
    /\ \/ stage[r] = "header" /\ header' = r /\ Goto(r, "phase") /\ UNCHANGED phase
       \/ /\ stage[r] = "phase" /\ phase' = [by |-> r, value |-> "starting"] /\ Goto(r, "magic")
          /\ UNCHANGED header
    /\ magic' = FALSE
    /\ UNCHANGED <<holders, reading, snapshot>>

StoreMagic(r) ==
    /\ stage[r] = "magic" /\ magic' = TRUE /\ Goto(r, "up")
    /\ UNCHANGED <<holders, header, phase, reading, snapshot>>

(* set_phase and the other stores while the service runs. *)
Publish(r) ==
    /\ stage[r] = "up" /\ r = runs /\ control \notin {"stopped", "failed"}
    /\ phase' = [by |-> r, value |-> "running"]
    /\ UNCHANGED <<stage, holders, magic, header, reading, snapshot>>

(* service_main has returned: the last reference to the engine is dropped.  *)
Returning(r) == r < runs \/ control \in {"stopped", "failed"}

MutDropClearsMagicFirst(r) ==
    /\ Returning(r)
    /\ \/ stage[r] = "up" /\ magic' = FALSE /\ Goto(r, "drop") /\ UNCHANGED <<holders, header, phase>>
       \/ /\ stage[r] = "drop" /\ phase' = [by |-> r, value |-> "shutdown"] /\ Goto(r, "unmap")
          /\ UNCHANGED <<holders, header, magic>>
       \/ stage[r] = "unmap" /\ CloseMapping(r) /\ Goto(r, "gone")
    /\ UNCHANGED <<reading, snapshot>>

MutDropKeepsMagic(r) ==
    /\ Returning(r)
    /\ \/ /\ stage[r] = "up" /\ phase' = [by |-> r, value |-> "shutdown"] /\ Goto(r, "unmap")
          /\ UNCHANGED <<holders, header, magic>>
       \/ stage[r] = "unmap" /\ CloseMapping(r) /\ Goto(r, "gone")
    /\ UNCHANGED <<reading, snapshot>>

DropPublisher(r) ==
    /\ Returning(r)
    /\ \/ /\ stage[r] = "up" /\ phase' = [by |-> r, value |-> "shutdown"] /\ Goto(r, "drop")
          /\ UNCHANGED <<holders, header, magic>>
       \/ stage[r] = "drop" /\ magic' = FALSE /\ Goto(r, "unmap") /\ UNCHANGED <<holders, header, phase>>
       \/ stage[r] = "unmap" /\ CloseMapping(r) /\ Goto(r, "gone")
    /\ UNCHANGED <<reading, snapshot>>

-----------------------------------------------------------------------------
(* A reader: read_snapshot. *)

OpenMapping(x) ==
    /\ reading[x] = "idle" /\ holders # {}
    /\ holders' = holders \cup {x}
    /\ reading' = [reading EXCEPT ![x] = "magic"]
    /\ snapshot' = [snapshot EXCEPT ![x] = NoRead]
    /\ UNCHANGED <<stage, page>>

(* The magic number, then version and size, which are constants. *)
AcceptMapping(x) ==
    /\ reading[x] = "magic" /\ magic
    /\ reading' = [reading EXCEPT ![x] = "header"]
    /\ UNCHANGED <<stage, holders, page, snapshot>>

ReadFields(x) ==
    /\ \/ /\ reading[x] = "header" /\ reading' = [reading EXCEPT ![x] = "phase"]
          /\ snapshot' = [snapshot EXCEPT ![x].header = header]
       \/ /\ reading[x] = "phase" /\ reading' = [reading EXCEPT ![x] = "done"]
          /\ snapshot' = [snapshot EXCEPT ![x].phase = phase.by]
    /\ UNCHANGED <<stage, holders, page>>

(* It is done, was refused, or is interrupted. *)
CloseReader(x) ==
    /\ reading[x] # "idle"
    /\ reading' = [reading EXCEPT ![x] = "idle"]
    /\ CloseMapping(x)
    /\ UNCHANGED <<stage, snapshot>>

-----------------------------------------------------------------------------
(* The service process: the engine and its publisher come before the trace  *)
(* session.                                                                 *)

EtwStep ==
    /\ ControlStep
    /\ control = "start" => stage[runs] \in {"up", "silent"}
    /\ UNCHANGED dvars

EtwThread == ThreadStep /\ UNCHANGED dvars

EtwOther == (StopTrace \/ ProcessTraceFails \/ RemoveLeftover) /\ UNCHANGED dvars

(* The next process starts when this one was killed, or has reported        *)
(* STOPPED and may still be returning.                                      *)
NextProcess ==
    /\ NewProcess
    /\ \/ /\ control \in {"stopped", "failed"}
          /\ Goto(runs + 1, "create")
          /\ UNCHANGED <<holders, page>>
       \/ /\ stage' = [stage EXCEPT ![runs] = "killed", ![runs + 1] = "create"]
          /\ CloseMapping(runs)
    /\ UNCHANGED <<reading, snapshot>>

(* A process that is still returning is killed. *)
KillReturning(r) ==
    /\ r < runs /\ stage[r] \in {"up", "drop", "unmap"}
    /\ Goto(r, "killed") /\ CloseMapping(r)
    /\ UNCHANGED <<vars, reading, snapshot>>

PublisherStep(r) ==
    /\ CreateMapping(r) \/ CheckMagic(r) \/ WriteLayout(r) \/ StoreMagic(r)
       \/ Publish(r) \/ DropPublisher(r)
    /\ UNCHANGED vars

ReaderStep(x) ==
    /\ OpenMapping(x) \/ AcceptMapping(x) \/ ReadFields(x) \/ CloseReader(x)
    /\ UNCHANGED vars

DiagnosticsNext ==
    \/ EtwStep \/ EtwThread \/ EtwOther \/ NextProcess
    \/ \E r \in Processes : PublisherStep(r) \/ KillReturning(r)
    \/ \E x \in Readers : ReaderStep(x)

(* The service's threads run on, as in EtwMonitor; nobody has to read. *)
DiagnosticsSpec ==
    /\ DiagnosticsInit /\ [][DiagnosticsNext]_kvars
    /\ WF_kvars(EtwStep) /\ WF_kvars(EtwThread)

-----------------------------------------------------------------------------
(* A process that publishes has the page to itself.  The one before it may  *)
(* still be returning after its STOPPED report, readers keep the object     *)
(* alive across processes, and yet nothing another process stores, the      *)
(* parting phase of its predecessor in particular, lands in its page.       *)
PageIsMine ==
    \A r \in Processes : stage[r] = "up" => magic /\ header = r /\ phase.by = r

(* The magic number can be trusted.  It is set only over a page that was    *)
(* written completely, by a process that has not given it up or was killed: *)
(* a clean stop never keeps the next process from publishing, even when     *)
(* readers hold the object.  Hence no accepted snapshot shows zeroed        *)
(* memory, although the page may change hands while it is read.             *)
MagicVouches ==
    /\ magic => header # 0 /\ phase.by # 0 /\ stage[header] \in {"up", "drop", "killed"}
    /\ \A x \in Readers : reading[x] = "done" => 0 \notin {snapshot[x].header, snapshot[x].phase}
=============================================================================
