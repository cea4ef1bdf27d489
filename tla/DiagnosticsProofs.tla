------------------------- MODULE DiagnosticsProofs -------------------------
(***************************************************************************)
(* Proofs about EtwMonitor and Diagnostics: the two kernel objects that     *)
(* outlive a service process, for any number of processes and of readers.  *)
(***************************************************************************)
EXTENDS Diagnostics, TLAPS

USE MaxRunsAssumption, ReadersAssumption

(* The inductive invariant of EtwMonitor: the consumer handle is closed by  *)
(* whoever sets the flag first, and the control state tells who is left.    *)

NoThreadYet == {"start", "enable", "open", "spawn"}

HandleIsFlagged ==
    /\ closed <=> consumer = "closed"
    /\ closes = IF closed THEN 1 ELSE 0
    /\ closed \in BOOLEAN

ThreadOf ==
    /\ control \in NoThreadYet \cup {"failed", "started", "closing", "joining", "stopped"}
    /\ control \in NoThreadYet \cup {"failed"} <=> thread = "none"
    /\ control \in {"start", "enable", "open"} => consumer = "none"
    /\ control = "failed" => consumer # "open"
    /\ control \in {"joining", "stopped"} => closed
    /\ control = "stopped" => thread = "done"

SessionOf ==
    /\ control = "start" => session # "own"
    /\ session = "own" /\ control \in {"failed", "closing", "joining", "stopped"} => refused

EtwInv == HandleIsFlagged /\ ThreadOf /\ SessionOf

(* The first process starts with it. *)
LEMMA InitEtwInv == Init => EtwInv
BY DEF Init, EtwInv, HandleIsFlagged, ThreadOf, SessionOf, NoThreadYet

(* Every step of a process, of its thread and of an administrator keeps it. *)
LEMMA NextEtwInv == EtwInv /\ [Next]_vars => EtwInv'
<1> SUFFICES ASSUME EtwInv, [Next]_vars PROVE EtwInv'
  OBVIOUS
<1> USE DEF EtwInv, HandleIsFlagged, ThreadOf, SessionOf, NoThreadYet
<1>1. CASE StartTrace
  BY <1>1 DEF StartTrace
<1>2. CASE EnableProvider
  BY <1>2 DEF EnableProvider, StopSession
<1>3. CASE OpenTrace
  BY <1>3 DEF OpenTrace, StopSession
<1>4. CASE SpawnWorker
  <2>1. CASE control' = "started"
    BY <1>4, <2>1 DEF SpawnWorker
  <2>2. CASE control' = "failed" /\ Close /\ StopSession /\ UNCHANGED thread
    <3>1. HandleIsFlagged' /\ consumer' = "closed"
      BY <2>2 DEF Close
    <3>2. session' = "own" => refused'
      BY <2>2 DEF StopSession
    <3> QED BY <1>4, <2>2, <3>1, <3>2 DEF SpawnWorker
  <2> QED BY <1>4, <2>1, <2>2 DEF SpawnWorker
<1>5. CASE StopCloses
  BY <1>5 DEF StopCloses, Close
<1>6. CASE JoinWorker
  BY <1>6 DEF JoinWorker
<1>7. CASE ProcessTraceReturns \/ ProcessTraceFails
  BY <1>7 DEF ProcessTraceReturns, ProcessTraceFails
<1>8. CASE ThreadCloses
  BY <1>8 DEF ThreadCloses, Close
<1>9. CASE StopTrace
  BY <1>9 DEF StopTrace, StopSession
<1>10. CASE NewProcess
  BY <1>10 DEF NewProcess
<1>11. CASE RemoveLeftover
  BY <1>11 DEF RemoveLeftover
<1>12. CASE UNCHANGED vars
  BY <1>12 DEF vars
<1> QED BY <1>1, <1>2, <1>3, <1>4, <1>5, <1>6, <1>7, <1>8, <1>9, <1>10, <1>11, <1>12
       DEF Next, ControlStep, ThreadStep

(* What it says of a monitor that has ended. *)
LEMMA EtwInvIsClean == EtwInv => NothingLeftBehind
BY DEF EtwInv, HandleIsFlagged, ThreadOf, SessionOf, NoThreadYet, NothingLeftBehind

(* A failed start and a finished stop leave no handle, no thread and no     *)
(* session that could have been stopped, whatever the two threads did.      *)
THEOREM NothingEverLeftBehind == Spec => []NothingLeftBehind
BY InitEtwInv, NextEtwInv, EtwInvIsClean, PTL DEF Spec
-----------------------------------------------------------------------------
(* The processes with their publishers are the processes of EtwMonitor.     *)

(* Every step of Diagnostics is one of EtwMonitor or leaves it alone. *)
LEMMA DiagnosticsSteps == [DiagnosticsNext]_kvars => [Next]_vars
<1> SUFFICES ASSUME DiagnosticsNext PROVE [Next]_vars
  BY DEF kvars, vars
<1>1. CASE EtwStep \/ EtwThread \/ EtwOther \/ NextProcess
  BY <1>1 DEF EtwStep, EtwThread, EtwOther, NextProcess, Next
<1>2. CASE \E r \in Processes : PublisherStep(r) \/ KillReturning(r)
  BY <1>2 DEF PublisherStep, KillReturning
<1>3. CASE \E x \in Readers : ReaderStep(x)
  BY <1>3 DEF ReaderStep
<1> QED BY <1>1, <1>2, <1>3 DEF DiagnosticsNext

(* The trace session does all it may do, and no more, beside the page.      *)
THEOREM DiagnosticsRunsTheMonitor == DiagnosticsSpec => Spec
<1>1. DiagnosticsInit => Init
  BY DEF DiagnosticsInit
<1> QED BY <1>1, DiagnosticsSteps, PTL DEF DiagnosticsSpec, Spec

(* Hence what was proved of the session holds beside publishers and readers. *)
COROLLARY NothingLeftBesideThePage == DiagnosticsSpec => []NothingLeftBehind
BY NothingEverLeftBehind, DiagnosticsRunsTheMonitor, PTL
-----------------------------------------------------------------------------
(* The inductive invariant of the page.                                     *)

Writing == {"header", "phase", "magic"}
Open    == {"check", "unmap"} \cup Writing \cup {"up", "drop"}
Left    == {"gone", "silent", "killed"}
Past    == {"up", "drop", "unmap"} \cup Left
Stages  == {"none", "create"} \cup Open \cup Past

Reads   == [header : 0..MaxRuns, phase : 0..MaxRuns]

PageTypeOK ==
    /\ runs \in Processes
    /\ stage \in [Processes -> Stages]
    /\ holders \subseteq Processes \cup Readers
    /\ magic \in BOOLEAN /\ header \in 0..MaxRuns
    /\ phase.by \in 0..MaxRuns
    /\ reading \in [Readers -> {"idle", "magic", "header", "phase", "done"}]
    /\ snapshot \in [Readers -> Reads]

(* Only the latest process can still be on its way to publishing. *)
OneStarts ==
    /\ \A r \in Processes : r < runs => stage[r] \in Past
    /\ \A r \in Processes : r > runs => stage[r] = "none"
    /\ control # "start" => stage[runs] \in Past

(* The object lives as long as it is open, and is zeroed when it is not. *)
OpenMeansHeld ==
    /\ \A r \in Processes : stage[r] \in Open => r \in holders
    /\ \A x \in Readers : reading[x] # "idle" => x \in holders
    /\ holders = {} => ~magic /\ header = 0 /\ phase = NoPhase

(* Who has published keeps the page to itself until it clears the magic     *)
(* number; who is about to publish has found it cleared.                    *)
PageOwner ==
    \A r \in Processes :
        /\ stage[r] \in {"up", "drop"} => magic /\ header = r /\ phase.by = r
        /\ stage[r] \in Writing => ~magic
        /\ stage[r] = "phase" => header = r
        /\ stage[r] = "magic" => header = r /\ phase.by = r

(* A reader that was let in reads a page that was written once, and its     *)
(* open handle keeps Windows from zeroing it.                               *)
ReaderSeesWritten ==
    \A x \in Readers :
        /\ reading[x] \in {"header", "phase", "done"} => header # 0 /\ phase.by # 0
        /\ reading[x] \in {"phase", "done"} => snapshot[x].header # 0
        /\ reading[x] = "done" => snapshot[x].phase # 0

PageInv == PageTypeOK /\ OneStarts /\ OpenMeansHeld /\ PageOwner /\ MagicVouches /\ ReaderSeesWritten

(* It holds when the first process starts. *)
LEMMA InitPageInv == DiagnosticsInit => PageInv
<1> SUFFICES ASSUME DiagnosticsInit PROVE PageInv
  OBVIOUS
<1> USE DEF DiagnosticsInit, Init, Processes
<1>1. PageTypeOK
  <2>1. 0 \in 0..MaxRuns /\ phase.by = 0 /\ NoRead \in Reads
    BY DEF NoPhase, NoRead, Reads
  <2>2. stage \in [Processes -> Stages]
    BY DEF Stages
  <2>3. snapshot \in [Readers -> Reads]
    BY <2>1
  <2>4. runs \in Processes
    OBVIOUS
  <2>5. reading \in [Readers -> {"idle", "magic", "header", "phase", "done"}]
    OBVIOUS
  <2>6. holders \subseteq Processes \cup Readers /\ magic \in BOOLEAN /\ header \in 0..MaxRuns
    BY <2>1
  <2> HIDE DEF DiagnosticsInit, Init, Processes
  <2> QED BY <2>1, <2>2, <2>3, <2>4, <2>5, <2>6 DEF PageTypeOK
<1>2. OneStarts /\ OpenMeansHeld
  BY DEF OneStarts, OpenMeansHeld, Open, Writing
<1>3. PageOwner /\ MagicVouches /\ ReaderSeesWritten
  BY DEF PageOwner, Writing, MagicVouches, ReaderSeesWritten
<1> QED BY <1>1, <1>2, <1>3 DEF PageInv

(* Closing a handle zeroes the page with the last one, and only then. *)
LEMMA Closing ==
    ASSUME NEW h, CloseMapping(h), NEW S, holders \subseteq S
    PROVE  /\ holders' \subseteq S
           /\ \A g \in holders : g # h => g \in holders'
           /\ holders' = {} => magic' = FALSE /\ header' = 0 /\ phase' = NoPhase
           /\ holders' # {} => UNCHANGED page
BY DEF CloseMapping

(* A process that leaves the page for good: it was refused, has given the   *)
(* page up, or is killed.                                                   *)
LEMMA ProcessCloses ==
    ASSUME NEW r \in Processes, PageInv, CloseMapping(r), UNCHANGED <<reading, snapshot>>,
           stage' \in [Processes -> Stages], stage'[r] \in Left,
           stage[r] \in {"up", "drop", "killed"} => stage'[r] = "killed",
           \A q \in Processes \ {r} :
               stage'[q] = stage[q] \/ (stage[q] = "none" /\ stage'[q] = "create"),
           runs' \in Processes
    PROVE  (PageTypeOK /\ OpenMeansHeld /\ PageOwner /\ MagicVouches /\ ReaderSeesWritten)'
<1> USE DEF PageInv
<1>1. /\ holders' \subseteq Processes \cup Readers
      /\ \A g \in holders : g # r => g \in holders'
      /\ holders' = {} => magic' = FALSE /\ header' = 0 /\ phase' = NoPhase
      /\ holders' # {} => UNCHANGED page
  BY Closing DEF PageTypeOK
<1>2. NoPhase.by = 0 /\ 0 \in 0..MaxRuns /\ r \notin Readers
  BY DEF NoPhase, Processes
<1>3. PageTypeOK'
  BY <1>1, <1>2 DEF PageTypeOK, page
<1>4. OpenMeansHeld'
  <2>1. \A q \in Processes : stage'[q] \in Open => q \in holders'
    BY <1>1 DEF OpenMeansHeld, Open, Writing, Left
  <2>2. \A x \in Readers : reading'[x] # "idle" => x \in holders'
    BY <1>1, <1>2 DEF OpenMeansHeld
  <2> QED BY <1>1, <2>1, <2>2 DEF OpenMeansHeld
<1>5. PageOwner'
  <2> SUFFICES ASSUME NEW q \in Processes, stage'[q] \in Writing \cup {"up", "drop"}
               PROVE  q # r /\ UNCHANGED <<page, stage[q]>>
    BY DEF PageOwner, Writing, page
  <2>1. q # r /\ stage'[q] = stage[q]
    BY DEF Left, Writing
  <2>2. q \in holders'
    BY <1>4 DEF OpenMeansHeld, Open, Writing
  <2> QED BY <1>1, <2>1, <2>2
<1>6. MagicVouches'
  <2>1. magic' => header' # 0 /\ phase'.by # 0 /\ stage'[header'] \in {"up", "drop", "killed"}
    <3> SUFFICES ASSUME magic' PROVE header' # 0 /\ phase'.by # 0 /\ stage'[header'] \in {"up", "drop", "killed"}
      OBVIOUS
    <3>1. UNCHANGED page
      BY <1>1
    <3>2. header # 0 /\ header \in Processes /\ phase.by # 0 /\ stage[header] \in {"up", "drop", "killed"}
      BY <3>1 DEF MagicVouches, PageTypeOK, Processes, page
    <3> QED BY <3>1, <3>2 DEF page
  <2>2. \A x \in Readers : reading'[x] = "done" => 0 \notin {snapshot'[x].header, snapshot'[x].phase}
    BY DEF MagicVouches
  <2> QED BY <2>1, <2>2 DEF MagicVouches
<1>7. ReaderSeesWritten'
  <2> SUFFICES ASSUME NEW x \in Readers, reading[x] \in {"header", "phase", "done"}
               PROVE  UNCHANGED page
    BY DEF ReaderSeesWritten, page
  <2> QED BY <1>1, <1>2 DEF OpenMeansHeld
<1> QED BY <1>3, <1>4, <1>5, <1>6, <1>7

(* A publisher takes a step. *)
LEMMA PublisherPageInv ==
    ASSUME NEW r \in Processes, PublisherStep(r), PageInv PROVE PageInv'
<1> runs' = runs /\ control' = control
  BY DEF PublisherStep, vars
<1>0. ASSUME NEW s \in Stages, Goto(r, s), stage[r] # "none", s \in Past \/ stage[r] \notin Past
      PROVE  /\ stage' \in [Processes -> Stages] /\ OneStarts'
             /\ stage'[r] = s /\ \A q \in Processes \ {r} : stage'[q] = stage[q]
  BY <1>0 DEF PageInv, PageTypeOK, OneStarts, Goto, Processes
<1>1. ASSUME NEW s \in Left, Goto(r, s), CloseMapping(r), stage[r] \in {"check", "unmap"},
             UNCHANGED <<reading, snapshot>>
      PROVE  PageInv'
  <2>1. s \in Stages /\ s \in Past
    BY DEF Stages, Past
  <2>2. /\ stage' \in [Processes -> Stages] /\ OneStarts'
        /\ stage'[r] = s /\ \A q \in Processes \ {r} : stage'[q] = stage[q]
    BY <1>0, <1>1, <2>1
  <2>3. runs' \in Processes
    BY DEF PageInv, PageTypeOK
  <2>4. stage[r] \in {"up", "drop", "killed"} => stage'[r] = "killed"
    BY <1>1
  <2>5. stage'[r] \in Left
    BY <2>2
  <2>6. \A q \in Processes \ {r} :
            stage'[q] = stage[q] \/ (stage[q] = "none" /\ stage'[q] = "create")
    BY <2>2
  <2>7. (PageTypeOK /\ OpenMeansHeld /\ PageOwner /\ MagicVouches /\ ReaderSeesWritten)'
    BY <1>1, <2>2, <2>3, <2>4, <2>5, <2>6, ProcessCloses
  <2> QED BY <2>2, <2>7 DEF PageInv
<1>2. CASE CreateMapping(r)
  <2> USE <1>2 DEF CreateMapping
  <2>1. PageTypeOK' /\ OneStarts'
    BY DEF PageInv, PageTypeOK, OneStarts, Goto, Stages, Open, Past, Left, Processes, page
  <2>2. OpenMeansHeld'
    BY DEF PageInv, PageTypeOK, OpenMeansHeld, Goto, Open, Writing, page
  <2>3. PageOwner' /\ MagicVouches' /\ ReaderSeesWritten'
    BY DEF PageInv, PageTypeOK, PageOwner, MagicVouches, ReaderSeesWritten, Goto, Writing, Processes, page
  <2> QED BY <2>1, <2>2, <2>3 DEF PageInv
<1>3. CASE CheckMagic(r)
  <2>1. CASE magic /\ CloseMapping(r) /\ Goto(r, "silent")
    BY <1>1, <1>3, <2>1 DEF CheckMagic, Left
  <2>2. CASE ~magic /\ Goto(r, "header") /\ UNCHANGED <<holders, page>>
    <3> USE <1>3, <2>2 DEF CheckMagic
    <3>1. PageTypeOK' /\ OneStarts'
      BY DEF PageInv, PageTypeOK, OneStarts, Goto, Stages, Open, Writing, Past, Left, Processes, page
    <3>2. OpenMeansHeld'
      BY DEF PageInv, PageTypeOK, OpenMeansHeld, Goto, Open, Writing, page
    <3>3. PageOwner' /\ MagicVouches' /\ ReaderSeesWritten'
      BY DEF PageInv, PageTypeOK, PageOwner, MagicVouches, ReaderSeesWritten, Goto, Writing, page
    <3> QED BY <3>1, <3>2, <3>3 DEF PageInv
  <2> QED BY <1>3, <2>1, <2>2 DEF CheckMagic
<1>4. CASE WriteLayout(r)
  <2> DEFINE next == IF stage[r] = "header" THEN "phase" ELSE "magic"
  <2> USE <1>4 DEF WriteLayout
  <2>1. Goto(r, next) /\ stage[r] \in {"header", "phase"}
    BY DEF Goto
  <2>2. /\ stage' \in [Processes -> Stages] /\ OneStarts'
        /\ stage'[r] = next /\ \A q \in Processes \ {r} : stage'[q] = stage[q]
    BY <1>0, <2>1 DEF Stages, Open, Writing, Past, Left
  <2>3. /\ magic' = FALSE /\ holders # {}
        /\ \/ next = "phase" /\ header' = r /\ phase' = phase
           \/ next = "magic" /\ header' = header /\ phase'.by = r
    BY DEF PageInv, OpenMeansHeld, Open, Writing
  <2>4. PageTypeOK'
    <3> r \in 0..MaxRuns
      BY DEF Processes
    <3>1. header' \in 0..MaxRuns /\ phase'.by \in 0..MaxRuns
      BY <2>3 DEF PageInv, PageTypeOK
    <3> QED BY <2>2, <3>1 DEF PageInv, PageTypeOK
  <2>5. OpenMeansHeld'
    BY <2>1, <2>2, <2>3 DEF PageInv, OpenMeansHeld, Open, Writing
  <2>6. \A q \in Processes \ {r} : stage[q] \notin {"up", "drop"} \cup Writing
    BY <2>1 DEF PageInv, PageTypeOK, PageOwner, OneStarts, Writing, Past, Left, Processes
  <2>7. PageOwner'
    BY <2>1, <2>2, <2>3, <2>6 DEF PageInv, PageOwner, Writing
  <2>8. MagicVouches' /\ ReaderSeesWritten'
    BY <2>3 DEF PageInv, MagicVouches, ReaderSeesWritten, Processes
  <2> QED BY <2>2, <2>4, <2>5, <2>7, <2>8 DEF PageInv
<1>5. CASE StoreMagic(r)
  <2> USE <1>5 DEF StoreMagic
  <2>1. /\ stage' \in [Processes -> Stages] /\ OneStarts'
        /\ stage'[r] = "up" /\ \A q \in Processes \ {r} : stage'[q] = stage[q]
    BY <1>0 DEF Stages, Open, Writing, Past, Left
  <2>2. PageTypeOK'
    BY <2>1 DEF PageInv, PageTypeOK
  <2>3. OpenMeansHeld'
    BY <2>1 DEF PageInv, OpenMeansHeld, Open, Writing
  <2>4. \A q \in Processes \ {r} : stage[q] \notin {"up", "drop"} \cup Writing
    BY DEF PageInv, PageTypeOK, PageOwner, OneStarts, Writing, Past, Left, Processes
  <2>5. PageOwner'
    BY <2>1, <2>4 DEF PageInv, PageOwner, Writing
  <2>6. MagicVouches' /\ ReaderSeesWritten'
    BY <2>1 DEF PageInv, PageOwner, MagicVouches, ReaderSeesWritten, Processes
  <2> QED BY <2>1, <2>2, <2>3, <2>5, <2>6 DEF PageInv
<1>6. CASE Publish(r)
  <2> USE <1>6 DEF Publish
  <2>1. PageTypeOK' /\ OneStarts' /\ OpenMeansHeld'
    BY DEF PageInv, PageTypeOK, OneStarts, OpenMeansHeld, Processes, Open
  <2>2. PageOwner' /\ MagicVouches' /\ ReaderSeesWritten'
    BY DEF PageInv, PageOwner, MagicVouches, ReaderSeesWritten, Processes
  <2> QED BY <2>1, <2>2 DEF PageInv
<1>7. CASE DropPublisher(r)
  <2>1. CASE stage[r] = "unmap" /\ CloseMapping(r) /\ Goto(r, "gone")
    BY <1>1, <1>7, <2>1 DEF DropPublisher, Left
  <2>2. CASE stage[r] \in {"up", "drop"}
    <3> DEFINE next == IF stage[r] = "up" THEN "drop" ELSE "unmap"
    <3> USE <1>7, <2>2 DEF DropPublisher
    <3>1. /\ Goto(r, next) /\ UNCHANGED <<holders, header, reading, snapshot>>
          /\ \/ next = "drop" /\ phase'.by = r /\ magic' = magic
             \/ next = "unmap" /\ phase' = phase /\ magic' = FALSE
      BY DEF Goto
    <3>2. /\ stage' \in [Processes -> Stages] /\ OneStarts'
          /\ stage'[r] = next /\ \A q \in Processes \ {r} : stage'[q] = stage[q]
      BY <1>0, <3>1 DEF Stages, Open, Past
    <3>3. PageTypeOK'
      <4> r \in 0..MaxRuns
        BY DEF Processes
      <4>1. phase'.by \in 0..MaxRuns
        BY <3>1 DEF PageInv, PageTypeOK
      <4> QED BY <3>1, <3>2, <4>1 DEF PageInv, PageTypeOK
    <3>4. OpenMeansHeld'
      BY <3>1, <3>2 DEF PageInv, OpenMeansHeld, Open
    <3>5. \A q \in Processes \ {r} : stage[q] \notin {"up", "drop"} \cup Writing
      BY DEF PageInv, PageOwner
    <3>6. PageOwner'
      BY <3>1, <3>2, <3>5 DEF PageInv, PageOwner, Writing
    <3>7. MagicVouches' /\ ReaderSeesWritten'
      BY <3>1, <3>2 DEF PageInv, PageOwner, MagicVouches, ReaderSeesWritten, Processes
    <3> QED BY <3>2, <3>3, <3>4, <3>6, <3>7 DEF PageInv
  <2> QED BY <1>7, <2>1, <2>2 DEF DropPublisher
<1> QED BY <1>2, <1>3, <1>4, <1>5, <1>6, <1>7 DEF PublisherStep

(* A reader takes a step. *)
LEMMA ReaderPageInv ==
    ASSUME NEW x \in Readers, ReaderStep(x), PageInv PROVE PageInv'
<1> runs' = runs /\ control' = control
  BY DEF ReaderStep, vars
<1>0. ASSUME UNCHANGED stage PROVE OneStarts'
  BY <1>0 DEF PageInv, OneStarts
<1>1. CASE OpenMapping(x)
  <2> USE <1>1 DEF OpenMapping
  <2>1. NoRead \in Reads
    BY DEF NoRead, Reads
  <2>2. PageTypeOK'
    BY <2>1 DEF PageInv, PageTypeOK, page
  <2>3. OpenMeansHeld'
    BY DEF PageInv, PageTypeOK, OpenMeansHeld, page
  <2>4. PageOwner' /\ MagicVouches' /\ ReaderSeesWritten'
    BY DEF PageInv, PageTypeOK, PageOwner, MagicVouches, ReaderSeesWritten, page
  <2> QED BY <1>0, <2>2, <2>3, <2>4 DEF PageInv
<1>2. CASE AcceptMapping(x)
  <2> USE <1>2 DEF AcceptMapping
  <2>1. PageTypeOK' /\ OpenMeansHeld'
    BY DEF PageInv, PageTypeOK, OpenMeansHeld, page
  <2>2. PageOwner' /\ MagicVouches' /\ ReaderSeesWritten'
    BY DEF PageInv, PageTypeOK, PageOwner, MagicVouches, ReaderSeesWritten, page
  <2> QED BY <1>0, <2>1, <2>2 DEF PageInv
<1>3. CASE ReadFields(x)
  <2> USE <1>3 DEF ReadFields
  <2>1. header \in 0..MaxRuns /\ phase.by \in 0..MaxRuns /\ snapshot[x] \in Reads
    BY DEF PageInv, PageTypeOK
  <2>2. PICK read \in Reads :
            /\ snapshot' = [snapshot EXCEPT ![x] = read]
            /\ \/ /\ reading[x] = "header" /\ reading' = [reading EXCEPT ![x] = "phase"]
                  /\ read.header = header
               \/ /\ reading[x] = "phase" /\ reading' = [reading EXCEPT ![x] = "done"]
                  /\ read.header = snapshot[x].header /\ read.phase = phase.by
    <3>1. CASE reading[x] = "header"
      <4>1. [snapshot[x] EXCEPT !.header = header] \in Reads
        BY <2>1 DEF Reads
      <4>2. [snapshot[x] EXCEPT !.header = header].header = header
        BY <2>1 DEF Reads
      <4>3. snapshot' = [snapshot EXCEPT ![x] = [snapshot[x] EXCEPT !.header = header]]
        BY <3>1
      <4> QED BY <3>1, <4>1, <4>2, <4>3
    <3>2. CASE reading[x] = "phase"
      <4>1. [snapshot[x] EXCEPT !.phase = phase.by] \in Reads
        BY <2>1 DEF Reads
      <4>2. /\ [snapshot[x] EXCEPT !.phase = phase.by].phase = phase.by
            /\ [snapshot[x] EXCEPT !.phase = phase.by].header = snapshot[x].header
        BY <2>1 DEF Reads
      <4>3. snapshot' = [snapshot EXCEPT ![x] = [snapshot[x] EXCEPT !.phase = phase.by]]
        BY <3>2
      <4> QED BY <3>2, <4>1, <4>2, <4>3
    <3> QED BY <3>1, <3>2
  <2>3. PageTypeOK' /\ OpenMeansHeld'
    BY <2>2 DEF PageInv, PageTypeOK, OpenMeansHeld, page
  <2>4. PageOwner' /\ MagicVouches' /\ ReaderSeesWritten'
    BY <2>2 DEF PageInv, PageTypeOK, PageOwner, MagicVouches, ReaderSeesWritten, page
  <2> QED BY <1>0, <2>3, <2>4 DEF PageInv
<1>4. CASE CloseReader(x)
  <2> USE <1>4 DEF CloseReader
  <2>1. /\ holders' \subseteq Processes \cup Readers
        /\ \A g \in holders : g # x => g \in holders'
        /\ holders' = {} => magic' = FALSE /\ header' = 0 /\ phase' = NoPhase
        /\ holders' # {} => UNCHANGED page
    BY Closing DEF PageInv, PageTypeOK
  <2>2. NoPhase.by = 0 /\ 0 \in 0..MaxRuns /\ x \notin Processes
    BY DEF NoPhase, Processes
  <2>3. PageTypeOK'
    BY <2>1, <2>2 DEF PageInv, PageTypeOK, page
  <2>4. OpenMeansHeld'
    BY <2>1, <2>2 DEF PageInv, PageTypeOK, OpenMeansHeld
  <2>5. PageOwner'
    BY <2>1, <2>4 DEF PageInv, PageOwner, OpenMeansHeld, Open, Writing, page
  <2>6. ReaderSeesWritten'
    BY <2>1, <2>4 DEF PageInv, PageTypeOK, OpenMeansHeld, ReaderSeesWritten, page
  <2>7. MagicVouches'
    BY <2>1 DEF PageInv, PageTypeOK, MagicVouches, page
  <2> QED BY <1>0, <2>3, <2>4, <2>5, <2>6, <2>7 DEF PageInv
<1> QED BY <1>1, <1>2, <1>3, <1>4 DEF ReaderStep

(* The service process and its threads go on; it ends or is killed and      *)
(* another follows.                                                         *)
LEMMA ProcessPageInv ==
    ASSUME PageInv, EtwStep \/ EtwThread \/ EtwOther \/ NextProcess
                      \/ \E r \in Processes : KillReturning(r)
    PROVE  PageInv'
<1>1. ASSUME UNCHANGED <<runs, dvars>>, control' = control \/ stage[runs] \in Past PROVE PageInv'
  BY <1>1 DEF PageInv, PageTypeOK, OneStarts, OpenMeansHeld, PageOwner, MagicVouches,
              ReaderSeesWritten, dvars, page
<1>2. CASE EtwStep
  <2>1. control # "start" => stage[runs] \in Past
    BY DEF PageInv, OneStarts
  <2>2. stage[runs] \in Past
    BY <1>2, <2>1 DEF EtwStep, Past, Left
  <2>3. UNCHANGED <<runs, dvars>>
    BY <1>2 DEF EtwStep, ControlStep, StartTrace, EnableProvider, OpenTrace, SpawnWorker, StopCloses, JoinWorker
  <2> QED BY <1>1, <2>2, <2>3
<1>3. CASE EtwThread \/ EtwOther
  <2>1. control # "start" => stage[runs] \in Past
    BY DEF PageInv, OneStarts
  <2> QED BY <1>1, <1>3, <2>1 DEF EtwThread, ThreadStep, ProcessTraceReturns, ThreadCloses,
              EtwOther, StopTrace, ProcessTraceFails, RemoveLeftover
<1>4. CASE NextProcess
  <2> USE <1>4 DEF NextProcess
  <2>0. /\ runs \in Processes /\ runs + 1 \in Processes /\ runs' = runs + 1 /\ control' = "start"
        /\ stage \in [Processes -> Stages] /\ stage[runs + 1] = "none"
    BY DEF PageInv, PageTypeOK, OneStarts, NewProcess, Processes
  <2>1. CASE control \in {"stopped", "failed"} /\ Goto(runs + 1, "create") /\ UNCHANGED <<holders, page>>
    <3>1. /\ stage' \in [Processes -> Stages] /\ stage'[runs + 1] = "create"
          /\ \A q \in Processes \ {runs + 1} : stage'[q] = stage[q]
      BY <2>0, <2>1 DEF Goto, Stages
    <3>2. stage[runs] \in Past
      BY <2>1 DEF PageInv, OneStarts
    <3>3. OneStarts'
      BY <2>0, <3>1, <3>2 DEF PageInv, OneStarts, Processes
    <3>4. PageTypeOK'
      BY <2>0, <2>1, <3>1 DEF PageInv, PageTypeOK, page
    <3>5. OpenMeansHeld'
      BY <2>1, <3>1 DEF PageInv, OpenMeansHeld, Open, Writing, page
    <3>6. PageOwner' /\ ReaderSeesWritten'
      BY <2>1, <3>1 DEF PageInv, PageOwner, ReaderSeesWritten, Writing, page
    <3>7. MagicVouches'
      BY <2>0, <2>1, <3>1 DEF PageInv, PageTypeOK, MagicVouches, Processes, page
    <3> QED BY <3>3, <3>4, <3>5, <3>6, <3>7 DEF PageInv
  <2>2. CASE /\ stage' = [stage EXCEPT ![runs] = "killed", ![runs + 1] = "create"]
             /\ CloseMapping(runs)
    <3>1. /\ stage' \in [Processes -> Stages] /\ stage'[runs] = "killed" /\ stage'[runs + 1] = "create"
          /\ \A q \in Processes \ {runs, runs + 1} : stage'[q] = stage[q]
      BY <2>0, <2>2 DEF Stages, Past, Left, Processes
    <3>2. OneStarts'
      BY <2>0, <3>1 DEF PageInv, OneStarts, Processes, Past, Left
    <3>3. (PageTypeOK /\ OpenMeansHeld /\ PageOwner /\ MagicVouches /\ ReaderSeesWritten)'
      <4>1. \A q \in Processes \ {runs} :
                stage'[q] = stage[q] \/ (stage[q] = "none" /\ stage'[q] = "create")
        <5> SUFFICES ASSUME NEW q \in Processes \ {runs}
                     PROVE  stage'[q] = stage[q] \/ (stage[q] = "none" /\ stage'[q] = "create")
          OBVIOUS
        <5>1. CASE q = runs + 1
          BY <2>0, <3>1, <5>1
        <5>2. CASE q # runs + 1
          BY <3>1, <5>2
        <5> QED BY <5>1, <5>2
      <4>2. "killed" \in Left
        BY DEF Left
      <4> QED BY <2>0, <2>2, <3>1, <4>1, <4>2, ProcessCloses
    <3> QED BY <3>2, <3>3 DEF PageInv
  <2> QED BY <2>1, <2>2
<1>5. ASSUME NEW r \in Processes, KillReturning(r) PROVE PageInv'
  <2> USE <1>5 DEF KillReturning
  <2>1. /\ stage' \in [Processes -> Stages] /\ stage'[r] = "killed"
        /\ \A q \in Processes \ {r} : stage'[q] = stage[q]
    BY DEF PageInv, PageTypeOK, Goto, Stages, Past, Left
  <2>2. OneStarts' /\ runs' \in Processes
    BY <2>1 DEF PageInv, PageTypeOK, OneStarts, Processes, Past, Left, vars
  <2>3. "killed" \in Left
    BY DEF Left
  <2>4. (PageTypeOK /\ OpenMeansHeld /\ PageOwner /\ MagicVouches /\ ReaderSeesWritten)'
    <3>1. CloseMapping(r) /\ UNCHANGED <<reading, snapshot>>
      OBVIOUS
    <3>2. stage'[r] \in Left /\ runs' \in Processes
      BY <2>1, <2>2, <2>3
    <3>3. \A q \in Processes \ {r} :
              stage'[q] = stage[q] \/ (stage[q] = "none" /\ stage'[q] = "create")
      BY <2>1
    <3> HIDE DEF KillReturning
    <3> QED BY <2>1, <3>1, <3>2, <3>3, ProcessCloses
  <2> QED BY <2>2, <2>4 DEF PageInv
<1> QED BY <1>2, <1>3, <1>4, <1>5

(* The page is in order in every reachable state. *)
LEMMA PageInvHolds == DiagnosticsSpec => []PageInv
<1>1. PageInv /\ [DiagnosticsNext]_kvars => PageInv'
  <2>1. ASSUME PageInv, UNCHANGED kvars PROVE PageInv'
    BY <2>1 DEF PageInv, PageTypeOK, OneStarts, OpenMeansHeld, PageOwner, MagicVouches,
                ReaderSeesWritten, kvars, vars, dvars, page
  <2> QED BY <2>1, PublisherPageInv, ReaderPageInv, ProcessPageInv DEF DiagnosticsNext
<1> QED BY <1>1, InitPageInv, PTL DEF DiagnosticsSpec

(* Whoever publishes has the page to itself: no store of a predecessor that *)
(* is still returning, or was killed, lands in it.                          *)
THEOREM PageAlwaysMine == DiagnosticsSpec => []PageIsMine
<1>1. PageInv => PageIsMine
  BY DEF PageInv, PageOwner, PageIsMine
<1> QED BY <1>1, PageInvHolds, PTL

(* The magic number is set only over a complete page whose owner has not    *)
(* given it up, and no accepted snapshot shows zeroed memory.               *)
THEOREM MagicAlwaysVouches == DiagnosticsSpec => []MagicVouches
BY PageInvHolds, PTL DEF PageInv
=============================================================================
