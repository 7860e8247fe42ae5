------------------------ MODULE HardwareMonitorProofs ------------------------
(***************************************************************************)
(* Theorems about HardwareMonitor, for every set of devices and clients,   *)
(* every number of tasks and crashes, with and without file errors.        *)
(***************************************************************************)
EXTENDS HardwareMonitor, TLAPS

(* Each entry of the map names a task created for its own device.           *)
EntriesFit ==
  \A d \in Devices : tasks[d] # NoTask => device[tasks[d]] = d /\ loop[tasks[d]] # "none"

(* What keeps recordings reachable and sampled.                             *)
MonitorInv ==
  /\ TypeOK
  /\ EntriesFit
  /\ RunningIsListed
  /\ RunningIsSampled

(* What keeps the state file whole: while no two requests have persisted    *)
(* together, at most one persists; it writes the temporary file, after      *)
(* emptying it, and what it is about to rename is a whole text.             *)
OnePersists == \A p, q \in Procs : Persisting(p) /\ Persisting(q) => p = q
WritesTmp ==
  \A p \in Procs : proc[p].fd = IF proc[p].phase = "writing" THEN "tmp" ELSE "none"
WritesEmptied == \A p \in Procs : proc[p].phase = "writing" => tmp.kind # "whole"
RenamesWhole == \A p \in Procs : proc[p].phase = "renaming" => tmp.kind # "torn"

FileParts == OnePersists /\ WritesTmp /\ WritesEmptied /\ RenamesWhole /\ file.kind # "torn"

FileInv == TypeOK /\ (~overlapped => FileParts)

(* What keeps the state file current.  Only Start and Stop change which      *)
(* devices record, and each then persists, so that without overlap nothing   *)
(* changes under a request that persists: what it has seen is what records,  *)
(* until the file says so.                                                   *)
ShotFits(p) ==
  /\ proc[p].phase = "reading" => proc[p].shot = Recording \ proc[p].left
  /\ proc[p].phase \in {"opening", "writing", "renaming"} => proc[p].shot = Recording
  /\ proc[p].phase = "renaming" => tmp = Whole(Recording)
  /\ proc[p].phase = "recording" /\ proc[p].ok => file.list = Recording
ShotIsCurrent == \A p \in Procs : ShotFits(p)

(* Between two requests the file is current unless writing it failed; the    *)
(* one exception is a service that has read the file and started nothing.    *)
QuietIsCurrent ==
  (\A p \in Procs : ~Persisting(p)) /\ ~persistErr /\ service \in {"booting", "up"} =>
    \/ Recording = file.list
    \/ service = "booting" /\ Recording = {} /\ restore = file.list

(* A service that is down remembers nothing, and serves no HTTP while booting. *)
DownIsEmpty ==
  /\ service \in {"down", "failed"} =>
       (\A p \in Procs : proc[p].phase = "idle") /\ Recording = {} /\ ~persistErr
  /\ service = "booting" => \A p \in Clients : proc[p].phase = "idle"

CurrentInv == FileInv /\ DownIsEmpty /\ (~overlapped => ShotIsCurrent /\ QuietIsCurrent)

-----------------------------------------------------------------------------
(* Types *)

\* Records that describe a process stay such records when fields are replaced.
LEMMA ProcAt ==
  \A r \in Proc, ph \in ProcPhase :
    /\ [r EXCEPT !.phase = ph] \in Proc
    /\ [r EXCEPT !.phase = ph].phase = ph
BY DEF Proc

\* The same for another set of fields.
LEMMA ProcOk ==
  \A r \in Proc, ph \in ProcPhase, b \in BOOLEAN :
    /\ [r EXCEPT !.phase = ph, !.ok = b] \in Proc
    /\ [r EXCEPT !.phase = ph, !.ok = b].phase = ph
BY DEF Proc

\* The same for another set of fields.
LEMMA ProcFd ==
  \A r \in Proc, ph \in ProcPhase,
     f \in {"none", "tmp", "file", "unnamed"} :
    /\ [r EXCEPT !.phase = ph, !.fd = f] \in Proc
    /\ [r EXCEPT !.phase = ph, !.fd = f].phase = ph
BY DEF Proc

\* The same for another set of fields.
LEMMA ProcFdOk ==
  \A r \in Proc, ph \in ProcPhase,
     f \in {"none", "tmp", "file", "unnamed"}, b \in BOOLEAN :
    /\ [r EXCEPT !.phase = ph, !.fd = f, !.ok = b] \in Proc
    /\ [r EXCEPT !.phase = ph, !.fd = f, !.ok = b].phase = ph
<1> SUFFICES ASSUME NEW r \in Proc, NEW ph \in ProcPhase,
                    NEW f \in {"none", "tmp", "file", "unnamed"}, NEW b \in BOOLEAN
             PROVE  /\ [r EXCEPT !.phase = ph, !.fd = f, !.ok = b] \in Proc
                    /\ [r EXCEPT !.phase = ph, !.fd = f, !.ok = b].phase = ph
  OBVIOUS
<1> QED
  BY DEF Proc

\* The same for another set of fields.
LEMMA ProcLeft ==
  \A r \in Proc, ph \in ProcPhase, left \in SUBSET Devices :
    /\ [r EXCEPT !.phase = ph, !.left = left] \in Proc
    /\ [r EXCEPT !.phase = ph, !.left = left].phase = ph
BY DEF Proc

\* The same for another set of fields.
LEMMA ProcShot ==
  \A r \in Proc, ph \in ProcPhase, left, shot \in SUBSET Devices :
    /\ [r EXCEPT !.phase = ph, !.left = left, !.shot = shot] \in Proc
    /\ [r EXCEPT !.phase = ph, !.left = left, !.shot = shot].phase = ph
BY DEF Proc

\* The same for another set of fields.
LEMMA ProcTask ==
  \A r \in Proc, ph \in ProcPhase, t \in Tasks \cup {NoTask} :
    /\ [r EXCEPT !.phase = ph, !.task = t] \in Proc
    /\ [r EXCEPT !.phase = ph, !.task = t].phase = ph
    /\ [r EXCEPT !.phase = ph, !.task = t].task = t
BY DEF Proc

\* The same for another set of fields.
LEMMA ProcMoved ==
  \A r \in Proc, f \in {"none", "tmp", "file", "unnamed"} :
    /\ [r EXCEPT !.fd = f] \in Proc
    /\ [r EXCEPT !.fd = f].phase = r.phase
    /\ [r EXCEPT !.fd = f].task = r.task
BY DEF Proc

\* The record of an idle process.
LEMMA ProcIdle == Idle \in Proc /\ Idle.phase # "found"
BY DEF Idle, Proc, ProcPhase

\* Replacing one process record keeps the types.
LEMMA ProcReplaced ==
  ASSUME TypeOK, NEW p \in Procs, NEW new \in Proc, new.phase = "found" => new.task # NoTask,
         proc' = [proc EXCEPT ![p] = new]
  PROVE  /\ proc' \in [Procs -> Proc]
         /\ \A q \in Procs : proc'[q].phase = "found" => proc'[q].task # NoTask
BY DEF TypeOK

\* Taking the read lock of persist() keeps the types.
LEMMA PersistType ==
  ASSUME TypeOK, NEW p \in Procs, Persist(p), tasks' \in [Devices -> Tasks \cup {NoTask}]
  PROVE  /\ proc' \in [Procs -> Proc]
         /\ \A q \in Procs : proc'[q].phase = "found" => proc'[q].task # NoTask
         /\ overlapped' \in BOOLEAN
<1> DEFINE new == [Idle EXCEPT !.phase = "reading", !.left = Listed']
<1>1. Listed' \subseteq Devices
  BY DEF Listed
<1>2. new \in Proc /\ new.phase = "reading"
  BY <1>1, ProcIdle, ProcLeft DEF ProcPhase
<1>3. proc' = [proc EXCEPT ![p] = new] /\ overlapped' \in BOOLEAN
  BY DEF Persist, TypeOK
<1> HIDE DEF new
<1>4. QED
  BY <1>2, <1>3, ProcReplaced

\* Start and Stop keep the types.
LEMMA RequestType ==
  ASSUME TypeOK, NEW p \in Procs,
         \/ \E d \in Devices, t \in Tasks : Start(p, d, t)
         \/ \E d \in Devices : Find(p, d)
         \/ Halt(p)
  PROVE  TypeOK'
<1>1. ASSUME NEW d \in Devices, NEW t \in Tasks, Start(p, d, t) PROVE TypeOK'
  <2>1. /\ tasks' \in [Devices -> Tasks \cup {NoTask}]
        /\ device' \in [Tasks -> Devices \cup {NoDevice}]
        /\ running' \in [Tasks -> BOOLEAN]
        /\ loop' \in [Tasks -> {"none", "collecting", "sleeping", "ended"}]
        /\ restore' \subseteq Devices
    BY <1>1 DEF Start, TypeOK
  <2>2. Persist(p) /\ UNCHANGED <<disk, persistErr, service, crashes, recorded>>
    BY <1>1 DEF Start
  <2>3. QED
    BY <2>1, <2>2, PersistType DEF TypeOK, disk
<1>2. ASSUME NEW d \in Devices, Find(p, d) PROVE TypeOK'
  <2> DEFINE new == [Idle EXCEPT !.phase = "found", !.task = tasks[d]]
  <2>1. tasks[d] \in Tasks /\ tasks[d] # NoTask
    BY <1>2 DEF Find, Listed, TypeOK
  <2>2. new \in Proc /\ new.task # NoTask
    <3>1. "found" \in ProcPhase
      BY DEF ProcPhase
    <3>2. \A t \in Tasks : [Idle EXCEPT !.phase = "found", !.task = t] \in Proc
      BY <3>1, ProcIdle, ProcTask
    <3>3. \A t \in Tasks : [Idle EXCEPT !.phase = "found", !.task = t].task = t
      BY DEF Idle
    <3>4. QED
      BY <2>1, <3>2, <3>3
  <2>3. proc' = [proc EXCEPT ![p] = new]
    BY <1>2 DEF Find
  <2> HIDE DEF new
  <2>4. /\ proc' \in [Procs -> Proc]
        /\ \A q \in Procs : proc'[q].phase = "found" => proc'[q].task # NoTask
    BY <2>2, <2>3, ProcReplaced
  <2>5. QED
    BY <1>2, <2>4 DEF Find, TypeOK, disk, history
<1>3. CASE Halt(p)
  <2>1. /\ running' \in [Tasks -> BOOLEAN]
        /\ recorded' \subseteq Devices
        /\ UNCHANGED <<tasks, device, loop, restore, disk, persistErr, service, crashes>>
        /\ Persist(p)
    BY <1>3 DEF Halt, TypeOK
  <2>2. tasks' \in [Devices -> Tasks \cup {NoTask}]
    BY <2>1 DEF TypeOK
  <2>3. QED
    BY <2>1, <2>2, PersistType DEF TypeOK, disk
<1>4. QED
  BY <1>1, <1>2, <1>3

\* The steps of persist() keep the types.
LEMMA PersistStepType ==
  ASSUME TypeOK, NEW p \in Procs,
         \/ \E d \in Devices : ReadTask(p, d)
         \/ Open(p) \/ Write(p) \/ Rename(p) \/ IoError(p) \/ Record(p)
  PROVE  TypeOK'
<1> USE DEF disk, history
<1>1. proc[p] \in Proc
  BY DEF TypeOK
<1>2. ASSUME NEW d \in Devices, ReadTask(p, d) PROVE TypeOK'
  <2> DEFINE ph == IF proc[p].left = {d} THEN "opening" ELSE proc[p].phase
             rest == proc[p].left \ {d}
             seen == IF d \in Recording THEN proc[p].shot \cup {d} ELSE proc[p].shot
             new == [proc[p] EXCEPT !.phase = ph, !.left = rest, !.shot = seen]
  <2>1. proc' = [proc EXCEPT ![p] = new] /\ ph \in {"opening", "reading"}
    BY <1>2 DEF ReadTask
  <2>2. rest \in SUBSET Devices /\ seen \in SUBSET Devices
    BY <1>1 DEF Proc
  <2> HIDE DEF ph, rest, seen
  <2>3. new \in Proc /\ new.phase # "found"
    <3>1. ph \in ProcPhase /\ ph # "found"
      BY <2>1 DEF ProcPhase
    <3>2. new \in Proc /\ new.phase = ph
      BY <1>1, <2>2, <3>1 DEF Proc
    <3> HIDE DEF new
    <3>3. QED
      BY <3>1, <3>2
  <2> HIDE DEF new
  <2>4. /\ proc' \in [Procs -> Proc]
        /\ \A q \in Procs : proc'[q].phase = "found" => proc'[q].task # NoTask
    BY <2>1, <2>3, ProcReplaced
  <2>5. QED
    BY <1>2, <2>4 DEF ReadTask, TypeOK
<1>3. CASE Open(p)
  <2> DEFINE new == [proc[p] EXCEPT !.phase = "writing", !.fd = "tmp"]
  <2>1. proc' = [proc EXCEPT ![p] = new]
    BY <1>3 DEF Open
  <2>2. new \in Proc /\ new.phase # "found"
    BY <1>1, ProcFd DEF ProcPhase
  <2> HIDE DEF new
  <2>3. /\ proc' \in [Procs -> Proc]
        /\ \A q \in Procs : proc'[q].phase = "found" => proc'[q].task # NoTask
    BY <2>1, <2>2, ProcReplaced
  <2>4. tmp' \in File
    BY <1>3 DEF Open, File, Torn
  <2>5. QED
    BY <1>3, <2>3, <2>4 DEF Open, TypeOK
<1>4. CASE Write(p)
  <2> DEFINE new == [proc[p] EXCEPT !.phase = "renaming", !.fd = "none"]
  <2>1. proc' = [proc EXCEPT ![p] = new]
    BY <1>4 DEF Write
  <2>2. new \in Proc /\ new.phase # "found"
    BY <1>1, ProcFd DEF ProcPhase
  <2> HIDE DEF new
  <2>3. /\ proc' \in [Procs -> Proc]
        /\ \A q \in Procs : proc'[q].phase = "found" => proc'[q].task # NoTask
    BY <2>1, <2>2, ProcReplaced
  <2>4. \A old \in File : Written(p, old) \subseteq File
    BY <1>1 DEF Written, Whole, Torn, File, Proc
  <2>5. tmp' \in File /\ file' \in File
    BY <1>4, <2>4 DEF Write, TypeOK
  <2>6. QED
    BY <1>4, <2>3, <2>5 DEF Write, TypeOK
<1>5. CASE Rename(p)
  <2>1. /\ proc' \in [Procs -> Proc]
        /\ \A q \in Procs : proc'[q].phase = "found" => proc'[q].task # NoTask
    <3>1. CASE tmp = Missing
      <4> DEFINE new == [proc[p] EXCEPT !.phase = "recording", !.ok = FALSE]
      <4>1. proc' = [proc EXCEPT ![p] = new]
        BY <1>5, <3>1 DEF Rename
      <4>2. new \in Proc /\ new.phase # "found"
        BY <1>1, ProcOk DEF ProcPhase
      <4> HIDE DEF new
      <4>3. QED
        BY <4>1, <4>2, ProcReplaced
    <3>2. CASE tmp # Missing
      <4> DEFINE fd(q) == CASE proc[q].fd = "tmp" -> "file"
                            [] proc[q].fd = "file" -> "unnamed"
                            [] OTHER -> proc[q].fd
                 rec(q) == IF q = p THEN [proc[p] EXCEPT !.phase = "recording"]
                           ELSE [proc[q] EXCEPT !.fd = fd(q)]
      <4>1. proc' = [q \in Procs |-> rec(q)]
        BY <1>5, <3>2 DEF Rename
      <4>2. \A q \in Procs : /\ rec(q) \in Proc
                             /\ rec(q).phase = "found" => rec(q).task # NoTask
        <5> SUFFICES ASSUME NEW q \in Procs
                     PROVE  rec(q) \in Proc /\ (rec(q).phase = "found" => rec(q).task # NoTask)
          OBVIOUS
        <5>1. CASE q = p
          BY <5>1, <1>1, ProcAt DEF ProcPhase
        <5>2. CASE q # p
          <6>1. proc[q] \in Proc /\ (proc[q].phase = "found" => proc[q].task # NoTask)
            BY DEF TypeOK
          <6>2. fd(q) \in {"none", "tmp", "file", "unnamed"}
            BY <6>1 DEF Proc
          <6> HIDE DEF fd
          <6>3. rec(q) = [proc[q] EXCEPT !.fd = fd(q)]
            BY <5>2
          <6>4. /\ [proc[q] EXCEPT !.fd = fd(q)] \in Proc
                /\ [proc[q] EXCEPT !.fd = fd(q)].phase = proc[q].phase
                /\ [proc[q] EXCEPT !.fd = fd(q)].task = proc[q].task
            BY <6>1, <6>2, ProcMoved, Zenon
          <6> HIDE DEF rec
          <6>5. QED
            BY <6>1, <6>3, <6>4
        <5>3. QED
          BY <5>1, <5>2
      <4> HIDE DEF rec
      <4>3. QED
        BY <4>1, <4>2
    <3>3. QED
      BY <3>1, <3>2
  <2>2. tmp' \in File /\ file' \in File /\ recorded' \subseteq Devices
    BY <1>5 DEF Rename, TypeOK, File, Missing, Recording, Listed
  <2>3. QED
    BY <1>5, <2>1, <2>2 DEF Rename, TypeOK
<1>6. CASE IoError(p)
  <2> DEFINE new == [proc[p] EXCEPT !.phase = "recording", !.fd = "none", !.ok = FALSE]
  <2>1. proc' = [proc EXCEPT ![p] = new]
    BY <1>6 DEF IoError
  <2>2. new \in Proc /\ new.phase # "found"
    <3>1. "recording" \in ProcPhase
      BY DEF ProcPhase
    <3>2. new \in Proc /\ new.phase = "recording"
      BY <1>1, <3>1, ProcFdOk, Zenon
    <3> HIDE DEF new
    <3>3. QED
      BY <3>2
  <2> HIDE DEF new
  <2>3. /\ proc' \in [Procs -> Proc]
        /\ \A q \in Procs : proc'[q].phase = "found" => proc'[q].task # NoTask
    BY <2>1, <2>2, ProcReplaced
  <2>4. QED
    BY <1>6, <2>3 DEF IoError, TypeOK
<1>7. CASE Record(p)
  <2>1. /\ proc' \in [Procs -> Proc]
        /\ \A q \in Procs : proc'[q].phase = "found" => proc'[q].task # NoTask
    BY <1>7, ProcIdle, ProcReplaced DEF Record
  <2>2. proc[p].ok \in BOOLEAN
    BY <1>1 DEF Proc
  <2>3. QED
    BY <1>7, <2>1, <2>2 DEF Record, TypeOK
<1>8. QED
  BY <1>2, <1>3, <1>4, <1>5, <1>6, <1>7

\* The goroutines, crashes and restarts keep the types.
LEMMA OtherStepType ==
  ASSUME TypeOK,
         (\E t \in Tasks : Collected(t) \/ Wake(t)) \/ Crash \/ ReadFile \/ Serve
  PROVE  TypeOK'
<1> USE DEF disk, history
<1>1. ASSUME NEW t \in Tasks, Collected(t) \/ Wake(t) PROVE TypeOK'
  BY <1>1 DEF Collected, Wake, TypeOK
<1>2. CASE Crash
  <2>1. Idle \in Proc /\ Idle.phase # "found"
    BY DEF Idle, Proc, ProcPhase
  <2>2. /\ proc' \in [Procs -> Proc]
        /\ \A q \in Procs : proc'[q].phase = "found" => proc'[q].task # NoTask
    BY <1>2, <2>1 DEF Crash
  <2>3. crashes' \in 0 .. MaxCrashes
    BY <1>2, MonitorAssumption DEF Crash, TypeOK
  <2>4. QED
    BY <1>2, <2>2, <2>3 DEF Crash, TypeOK
<1>3. CASE ReadFile
  BY <1>3 DEF ReadFile, TypeOK, File
<1>4. CASE Serve
  BY <1>4 DEF Serve, TypeOK
<1>5. QED
  BY <1>1, <1>2, <1>3, <1>4

\* Every step keeps the types.
LEMMA StepType == TypeOK /\ [Next]_vars => TypeOK'
<1> SUFFICES ASSUME TypeOK, [Next]_vars PROVE TypeOK'
  OBVIOUS
<1>1. CASE UNCHANGED vars
  BY <1>1 DEF vars, disk, history, TypeOK
<1>2. CASE Next
  BY <1>2, RequestType, PersistStepType, OtherStepType DEF Next, ProcStep
<1>3. QED
  BY <1>1, <1>2

\* The initial state is well typed.
LEMMA InitType == Init => TypeOK
<1> SUFFICES ASSUME Init PROVE TypeOK
  OBVIOUS
<1>1. proc \in [Procs -> Proc] /\ \A p \in Procs : proc[p].phase # "found"
  BY ProcIdle DEF Init
<1>2. tmp \in File /\ file \in File
  BY DEF Init, Missing, File
<1>3. crashes \in 0 .. MaxCrashes
  BY MonitorAssumption DEF Init
<1>4. QED
  BY <1>1, <1>2, <1>3 DEF Init, TypeOK

-----------------------------------------------------------------------------
(* Recordings *)

\* No step loses or silences a recording that runs.
LEMMA StepMonitor == MonitorInv /\ [Next]_vars => MonitorInv'
<1> SUFFICES ASSUME MonitorInv, [Next]_vars PROVE MonitorInv'
  OBVIOUS
<1> USE DEF EntriesFit, RunningIsListed, RunningIsSampled, LoopRuns
<1>1. TypeOK /\ TypeOK'
  BY StepType DEF MonitorInv
<1>2. ASSUME UNCHANGED <<tasks, device, running, loop>> PROVE MonitorInv'
  BY <1>1, <1>2 DEF MonitorInv
<1>3. ASSUME NEW p \in Procs, ProcStep(p) PROVE MonitorInv'
  <2>1. ASSUME NEW d \in Devices, NEW t \in Tasks, Start(p, d, t) PROVE MonitorInv'
    <3>1. /\ tasks' = [tasks EXCEPT ![d] = t]
          /\ device' = [device EXCEPT ![t] = d]
          /\ running' = [running EXCEPT ![t] = TRUE]
          /\ loop' = [loop EXCEPT ![t] = "collecting"]
          /\ tasks[d] = NoTask \/ ~running[tasks[d]]
          /\ loop[t] = "none"
      BY <2>1 DEF Start, Recording, Listed, Fresh
    <3>2. ~running[t]
      BY <3>1 DEF MonitorInv
    <3>3. EntriesFit'
      <4> SUFFICES ASSUME NEW x \in Devices, tasks'[x] # NoTask
                   PROVE  device'[tasks'[x]] = x /\ loop'[tasks'[x]] # "none"
        OBVIOUS
      <4>1. CASE x = d
        BY <4>1, <3>1, <1>1 DEF TypeOK
      <4>2. CASE x # d
        BY <4>2, <3>1, <1>1 DEF TypeOK, MonitorInv
      <4>3. QED
        BY <4>1, <4>2
    <3>4. RunningIsListed'
      <4> SUFFICES ASSUME NEW s \in Tasks, running'[s] PROVE tasks'[device'[s]] = s
        OBVIOUS
      <4>1. CASE s = t
        BY <4>1, <3>1, <1>1 DEF TypeOK
      <4>2. CASE s # t
        <5>1. running[s] /\ device'[s] = device[s] /\ tasks[device[s]] = s
          BY <4>2, <3>1, <1>1 DEF TypeOK, MonitorInv
        <5>2. device[s] # d
          BY <5>1, <3>1, <1>1 DEF TypeOK, NoTask, Tasks
        <5>3. QED
          BY <5>1, <5>2, <3>1, <1>1 DEF TypeOK
      <4>3. QED
        BY <4>1, <4>2
    <3>5. RunningIsSampled'
      BY <3>1, <1>1 DEF TypeOK, MonitorInv
    <3>6. QED
      BY <1>1, <3>3, <3>4, <3>5 DEF MonitorInv
  <2>2. CASE Halt(p)
    BY <2>2, <1>1 DEF Halt, MonitorInv, TypeOK
  <2>3. CASE \/ \E d \in Devices : Find(p, d) \/ ReadTask(p, d)
             \/ Open(p) \/ Write(p) \/ Rename(p) \/ IoError(p) \/ Record(p)
    BY <2>3, <1>2 DEF Find, ReadTask, Open, Write, Rename, IoError, Record
  <2>4. QED
    BY <1>3, <2>1, <2>2, <2>3 DEF ProcStep
<1>4. ASSUME NEW t \in Tasks, Collected(t) \/ Wake(t) PROVE MonitorInv'
  BY <1>1, <1>4 DEF Collected, Wake, MonitorInv, TypeOK
<1>5. CASE Crash
  BY <1>1, <1>5 DEF Crash, MonitorInv
<1>6. CASE ReadFile \/ Serve \/ UNCHANGED vars
  BY <1>2, <1>6 DEF ReadFile, Serve, vars
<1>7. QED
  BY <1>3, <1>4, <1>5, <1>6 DEF Next

\* The invariant of the recordings holds in every reachable state.
THEOREM MonitorInvariant == Spec => []MonitorInv
<1>1. Init => MonitorInv
  BY InitType, MonitorAssumption
     DEF Init, MonitorInv, EntriesFit, RunningIsListed, RunningIsSampled, Tasks
<1>2. QED
  BY <1>1, StepMonitor, PTL DEF Spec

\* Every reachable state is well typed.
THEOREM MonitorTypeCorrect == Spec => []TypeOK
BY MonitorInvariant, PTL DEF MonitorInv

\* A running recording is the one its device's entry names: Stop reaches it.
THEOREM RunningAlwaysListed == Spec => []RunningIsListed
BY MonitorInvariant, PTL DEF MonitorInv

\* A running recording is sampled: only Stop ends its goroutine.
THEOREM RunningAlwaysSampled == Spec => []RunningIsSampled
BY MonitorInvariant, PTL DEF MonitorInv

-----------------------------------------------------------------------------
(* The state file *)

\* A request that begins to persist does so alone, or is counted as overlapping.
LEMMA PersistFile ==
  ASSUME TypeOK, FileParts, NEW p \in Procs, Persist(p), ~overlapped', UNCHANGED disk
  PROVE  FileParts'
<1>1. \A q \in Procs \ {p} : ~Persisting(q)
  BY DEF Persist
<1>2. /\ proc'[p].phase = "reading"
      /\ proc'[p].fd = "none"
      /\ \A q \in Procs \ {p} : proc'[q] = proc[q]
  BY DEF Persist, Idle, TypeOK
<1>3. OnePersists'
  BY <1>1, <1>2 DEF OnePersists, Persisting
<1>4. (WritesTmp /\ WritesEmptied /\ RenamesWhole /\ file.kind # "torn")'
  BY <1>2 DEF FileParts, WritesTmp, WritesEmptied, RenamesWhole, disk
<1>5. QED
  BY <1>3, <1>4 DEF FileParts

\* A step of the one request that persists keeps the file whole.
LEMMA PersistStepFile ==
  ASSUME TypeOK, TypeOK', FileParts, NEW p \in Procs,
         \/ \E d \in Devices : ReadTask(p, d)
         \/ Open(p) \/ Write(p) \/ Rename(p) \/ IoError(p) \/ Record(p)
  PROVE  FileParts'
<1> USE DEF disk
<1>1. Persisting(p) /\ \A q \in Procs \ {p} : ~Persisting(q)
  BY DEF ReadTask, Open, Write, Rename, IoError, Record, Persisting, FileParts, OnePersists
<1>2. ASSUME \A q \in Procs \ {p} : proc'[q] = proc[q],
             proc'[p].fd = IF proc'[p].phase = "writing" THEN "tmp" ELSE "none",
             proc'[p].phase = "writing" => tmp'.kind # "whole",
             proc'[p].phase = "renaming" => tmp'.kind # "torn",
             file'.kind # "torn"
      PROVE  FileParts'
  <2>1. \A q \in Procs \ {p} : proc'[q].phase \in {"idle", "found"} /\ proc'[q].fd = "none"
    BY <1>1, <1>2 DEF Persisting, FileParts, WritesTmp
  <2>2. OnePersists'
    BY <2>1 DEF OnePersists, Persisting
  <2>3. (WritesTmp /\ WritesEmptied /\ RenamesWhole)'
    BY <1>2, <2>1 DEF WritesTmp, WritesEmptied, RenamesWhole
  <2>4. QED
    BY <1>2, <2>2, <2>3 DEF FileParts
<1>3. ASSUME NEW d \in Devices, ReadTask(p, d) PROVE FileParts'
  <2>1. /\ \A q \in Procs \ {p} : proc'[q] = proc[q]
        /\ proc'[p].fd = proc[p].fd
        /\ proc'[p].phase \in {"reading", "opening"}
        /\ proc[p].phase = "reading"
    BY <1>3 DEF ReadTask, TypeOK, Proc
  <2>2. UNCHANGED disk
    BY <1>3 DEF ReadTask
  <2>3. QED
    BY <1>2, <2>1, <2>2 DEF FileParts, WritesTmp
<1>4. CASE Open(p)
  <2>1. /\ \A q \in Procs \ {p} : proc'[q] = proc[q]
        /\ proc'[p].fd = "tmp"
        /\ proc'[p].phase = "writing"
    BY <1>4 DEF Open, TypeOK, Proc
  <2>2. tmp'.kind = "torn" /\ file' = file
    BY <1>4 DEF Open, Torn
  <2>3. QED
    BY <1>2, <2>1, <2>2 DEF FileParts
<1>5. CASE Write(p)
  <2>1. /\ \A q \in Procs \ {p} : proc'[q] = proc[q]
        /\ proc'[p].fd = "none"
        /\ proc'[p].phase = "renaming"
        /\ proc[p].phase = "writing"
    BY <1>5 DEF Write, TypeOK, Proc
  <2>2. proc[p].fd = "tmp" /\ tmp.kind # "whole"
    BY <2>1 DEF FileParts, WritesTmp, WritesEmptied
  <2>3. tmp' = Whole(proc[p].shot) /\ file' = file
    BY <1>5, <2>2 DEF Write, Written
  <2>4. QED
    BY <1>2, <2>1, <2>3 DEF FileParts, Whole
<1>6. CASE Rename(p)
  <2>1. proc[p].phase = "renaming" /\ tmp.kind # "torn" /\ proc[p].fd = "none"
    BY <1>6 DEF Rename, FileParts, RenamesWhole, WritesTmp
  <2>2. \A q \in Procs : proc[q].fd = "none"
    BY <1>1, <2>1 DEF FileParts, WritesTmp, Persisting
  <2>3. /\ \A q \in Procs \ {p} : proc'[q].phase = proc[q].phase /\ proc'[q].fd = "none"
        /\ proc'[p].fd = "none"
        /\ proc'[p].phase = "recording"
    <3>1. CASE tmp = Missing
      BY <1>6, <2>2, <3>1 DEF Rename, TypeOK, Proc, Missing
    <3>2. CASE tmp # Missing
      BY <1>6, <2>2, <3>2 DEF Rename, TypeOK, Proc
    <3>3. QED
      BY <3>1, <3>2
  <2>4. file'.kind # "torn"
    BY <1>6, <2>1 DEF Rename, FileParts
  <2>5. \A q \in Procs : proc'[q].phase \notin {"writing", "renaming"}
    BY <1>1, <2>3 DEF Persisting
  <2>6. OnePersists'
    BY <1>1, <2>3 DEF OnePersists, Persisting
  <2>7. QED
    BY <2>3, <2>4, <2>5, <2>6 DEF FileParts, WritesTmp, WritesEmptied, RenamesWhole
<1>7. CASE IoError(p)
  <2>1. /\ \A q \in Procs \ {p} : proc'[q] = proc[q]
        /\ proc'[p].fd = "none"
        /\ proc'[p].phase = "recording"
    BY <1>7 DEF IoError, TypeOK, Proc
  <2>2. UNCHANGED disk
    BY <1>7 DEF IoError
  <2>3. QED
    BY <1>2, <2>1, <2>2 DEF FileParts
<1>8. CASE Record(p)
  <2>1. /\ \A q \in Procs \ {p} : proc'[q] = proc[q]
        /\ proc'[p].fd = "none"
        /\ proc'[p].phase = "idle"
    BY <1>8 DEF Record, TypeOK, Idle
  <2>2. UNCHANGED disk
    BY <1>8 DEF Record
  <2>3. QED
    BY <1>2, <2>1, <2>2 DEF FileParts
<1>9. QED
  BY <1>3, <1>4, <1>5, <1>6, <1>7, <1>8

\* No step tears the state file, or lets a second request persist unnoticed.
LEMMA StepFile == FileInv /\ [Next]_vars => FileInv'
<1> SUFFICES ASSUME FileInv, [Next]_vars PROVE FileInv'
  OBVIOUS
<1> USE DEF disk, history
<1>1. TypeOK /\ TypeOK'
  BY StepType DEF FileInv
<1>2. SUFFICES ASSUME ~overlapped' PROVE FileParts'
  BY <1>1 DEF FileInv
<1>3. ASSUME ~overlapped PROVE FileParts
  BY <1>3 DEF FileInv
<1>4. ASSUME NEW p \in Procs, NEW d \in Devices, NEW t \in Tasks, Start(p, d, t)
      PROVE  FileParts'
  <2>1. Persist(p) /\ UNCHANGED disk /\ ~overlapped
    BY <1>2, <1>4 DEF Start, Persist
  <2>2. QED
    BY <1>1, <1>2, <1>3, <2>1, PersistFile
<1>5. ASSUME NEW p \in Procs, Halt(p) PROVE FileParts'
  <2>1. Persist(p) /\ UNCHANGED disk /\ ~overlapped
    BY <1>2, <1>5 DEF Halt, Persist
  <2>2. QED
    BY <1>1, <1>2, <1>3, <2>1, PersistFile
<1>6. ASSUME NEW p \in Procs, NEW d \in Devices, Find(p, d) PROVE FileParts'
  <2>1. FileParts /\ UNCHANGED disk
    BY <1>2, <1>3, <1>6 DEF Find
  <2>2. /\ \A q \in Procs \ {p} : proc'[q] = proc[q]
        /\ proc'[p].phase = "found"
        /\ proc'[p].fd = "none"
    BY <1>1, <1>6 DEF Find, TypeOK, Idle
  <2>3. OnePersists'
    BY <2>1, <2>2 DEF FileParts, OnePersists, Persisting
  <2>4. QED
    BY <2>1, <2>2, <2>3 DEF FileParts, WritesTmp, WritesEmptied, RenamesWhole
<1>7. ASSUME NEW p \in Procs,
             \/ \E d \in Devices : ReadTask(p, d)
             \/ Open(p) \/ Write(p) \/ Rename(p) \/ IoError(p) \/ Record(p)
      PROVE  FileParts'
  <2>1. ~overlapped
    BY <1>2, <1>7 DEF ReadTask, Open, Write, Rename, IoError, Record
  <2>2. QED
    BY <1>1, <1>3, <1>7, <2>1, PersistStepFile
<1>8. CASE Crash
  <2>1. FileParts /\ UNCHANGED disk /\ proc' = [p \in Procs |-> Idle]
    BY <1>2, <1>3, <1>8 DEF Crash
  <2>2. \A p \in Procs : proc'[p].phase = "idle" /\ proc'[p].fd = "none"
    BY <2>1 DEF Idle
  <2>3. QED
    BY <2>1, <2>2
       DEF FileParts, OnePersists, Persisting, WritesTmp, WritesEmptied, RenamesWhole
<1>9. CASE \/ \E t \in Tasks : Collected(t) \/ Wake(t)
           \/ ReadFile \/ Serve \/ UNCHANGED vars
  <2>1. UNCHANGED <<disk, proc, overlapped>>
    BY <1>9 DEF Collected, Wake, ReadFile, Serve, vars
  <2>2. QED
    BY <1>2, <1>3, <2>1
       DEF FileParts, OnePersists, Persisting, WritesTmp, WritesEmptied, RenamesWhole
<1>10. QED
  BY <1>4, <1>5, <1>6, <1>7, <1>8, <1>9 DEF Next, ProcStep

\* At first there is no state file, and nobody persists.
LEMMA InitFile == Init => FileInv
<1> SUFFICES ASSUME Init PROVE FileInv
  OBVIOUS
<1>1. /\ \A p \in Procs : proc[p].phase = "idle" /\ proc[p].fd = "none"
      /\ file.kind # "torn"
  BY DEF Init, Idle, Missing
<1>2. QED
  BY <1>1, InitType
     DEF FileInv, FileParts, OnePersists, Persisting, WritesTmp, WritesEmptied, RenamesWhole

\* The invariant of the state file holds in every reachable state.
THEOREM FileInvariant == Spec => []FileInv
<1>1. Init => FileInv
  BY InitFile
<1>2. QED
  BY <1>1, StepFile, PTL DEF Spec

\* The state file is never torn while no two requests have persisted together.
THEOREM FileAlwaysWhole == Spec => []FileIsWhole
<1>1. FileInv => FileIsWhole
  BY DEF FileInv, FileParts, FileIsWhole
<1>2. QED
  BY <1>1, FileInvariant, PTL
-----------------------------------------------------------------------------
(* The state file is current *)

\* What records depends on the entries and the flags of the tasks alone.
LEMMA SameRecording == UNCHANGED <<tasks, running>> => Recording' = Recording
BY DEF Recording, Listed

\* A request that begins to persist alone has seen nothing and has all to see.
LEMMA PersistCurrent ==
  ASSUME TypeOK, NEW p \in Procs, Persist(p), ~overlapped'
  PROVE  ShotIsCurrent' /\ QuietIsCurrent'
<1>1. /\ proc'[p].phase = "reading"
      /\ proc'[p].left = Listed'
      /\ proc'[p].shot = {}
      /\ \A q \in Procs \ {p} : proc'[q] = proc[q] /\ proc[q].phase \in {"idle", "found"}
  BY DEF Persist, Persisting, Idle, TypeOK
<1>2. Recording' \subseteq Listed'
  BY DEF Recording
<1>3. ShotFits(p)'
  BY <1>1, <1>2 DEF ShotFits
<1>4. \A q \in Procs \ {p} : ShotFits(q)'
  BY <1>1 DEF ShotFits
<1>5. Persisting(p)'
  BY <1>1 DEF Persisting
<1>6. QED
  BY <1>3, <1>4, <1>5 DEF ShotIsCurrent, QuietIsCurrent

\* A step of the one request that persists hands on what it has seen.
LEMMA PersistStepCurrent ==
  ASSUME TypeOK, FileParts, ShotIsCurrent, NEW p \in Procs,
         \/ \E d \in Devices : ReadTask(p, d)
         \/ Open(p) \/ Write(p) \/ Rename(p) \/ IoError(p) \/ Record(p)
  PROVE  ShotIsCurrent' /\ QuietIsCurrent'
<1>1. /\ Recording' = Recording
      /\ ShotFits(p)
      /\ proc[p] \in Proc
  <2>1. UNCHANGED <<tasks, running>>
    BY DEF ReadTask, Open, Write, Rename, IoError, Record
  <2>2. QED
    BY <2>1, SameRecording DEF ShotIsCurrent, TypeOK
<1>2. \A q \in Procs \ {p} : proc[q].phase \in {"idle", "found"}
  BY DEF ReadTask, Open, Write, Rename, IoError, Record, Persisting, FileParts, OnePersists
<1>3. ASSUME \A q \in Procs \ {p} : proc'[q].phase = proc[q].phase,
             ShotFits(p)',
             Persisting(p)' \/ persistErr' \/ file'.list = Recording'
      PROVE  ShotIsCurrent' /\ QuietIsCurrent'
  <2>1. \A q \in Procs \ {p} : ShotFits(q)'
    BY <1>2, <1>3 DEF ShotFits
  <2>2. QED
    BY <1>3, <2>1 DEF ShotIsCurrent, QuietIsCurrent
<1>4. ASSUME NEW d \in Devices, ReadTask(p, d) PROVE ShotIsCurrent' /\ QuietIsCurrent'
  <2>1. /\ \A q \in Procs \ {p} : proc'[q] = proc[q]
        /\ proc'[p].phase = IF proc[p].left = {d} THEN "opening" ELSE "reading"
        /\ proc'[p].left = proc[p].left \ {d}
        /\ proc'[p].shot = IF d \in Recording THEN proc[p].shot \cup {d} ELSE proc[p].shot
        /\ d \in proc[p].left
        /\ proc[p].phase = "reading"
    BY <1>1, <1>4 DEF ReadTask, TypeOK, Proc
  <2>2. proc[p].shot = Recording \ proc[p].left
    BY <1>1, <2>1 DEF ShotFits
  <2>3. proc'[p].shot = Recording \ proc'[p].left
    BY <2>1, <2>2
  <2>4. ShotFits(p)'
    BY <1>1, <2>1, <2>3 DEF ShotFits
  <2>5. QED
    BY <1>3, <2>1, <2>4 DEF Persisting
<1>5. CASE Open(p)
  <2>1. /\ \A q \in Procs \ {p} : proc'[q] = proc[q]
        /\ proc'[p].phase = "writing"
        /\ proc'[p].shot = proc[p].shot
        /\ proc[p].phase = "opening"
    BY <1>1, <1>5 DEF Open, TypeOK, Proc
  <2>2. ShotFits(p)'
    BY <1>1, <2>1 DEF ShotFits
  <2>3. QED
    BY <1>3, <2>1, <2>2 DEF Persisting
<1>6. CASE Write(p)
  <2>1. /\ \A q \in Procs \ {p} : proc'[q] = proc[q]
        /\ proc'[p].phase = "renaming"
        /\ proc'[p].shot = proc[p].shot
        /\ proc[p].phase = "writing"
    BY <1>1, <1>6 DEF Write, TypeOK, Proc
  <2>2. proc[p].shot = Recording
    BY <1>1, <2>1 DEF ShotFits
  <2>3. tmp' = Whole(proc[p].shot)
    <3>1. proc[p].fd = "tmp" /\ tmp.kind # "whole"
      BY <2>1 DEF FileParts, WritesTmp, WritesEmptied
    <3>2. QED
      BY <1>6, <3>1 DEF Write, Written
  <2>4. ShotFits(p)'
    BY <1>1, <2>1, <2>2, <2>3 DEF ShotFits
  <2>5. QED
    BY <1>3, <2>1, <2>4 DEF Persisting
<1>7. CASE Rename(p)
  <2>1. proc[p].phase = "renaming" /\ tmp = Whole(Recording)
    BY <1>1, <1>7 DEF Rename, ShotFits
  <2>2. tmp # Missing /\ tmp.list = Recording
    BY <2>1 DEF Whole, Missing
  <2>3. /\ file' = tmp
        /\ \A q \in Procs \ {p} : proc'[q].phase = proc[q].phase
        /\ proc'[p].phase = "recording"
    BY <1>1, <1>7, <2>2 DEF Rename, TypeOK, Proc
  <2>4. ShotFits(p)'
    BY <1>1, <2>2, <2>3 DEF ShotFits
  <2>5. QED
    BY <1>3, <2>3, <2>4 DEF Persisting
<1>8. CASE IoError(p)
  <2>1. /\ \A q \in Procs \ {p} : proc'[q] = proc[q]
        /\ proc'[p].phase = "recording"
        /\ proc'[p].ok = FALSE
    BY <1>1, <1>8 DEF IoError, TypeOK, Proc
  <2>2. ShotFits(p)'
    BY <2>1 DEF ShotFits
  <2>3. QED
    BY <1>3, <2>1, <2>2 DEF Persisting
<1>9. CASE Record(p)
  <2>1. /\ \A q \in Procs \ {p} : proc'[q] = proc[q]
        /\ proc'[p].phase = "idle"
        /\ persistErr' = ~proc[p].ok
        /\ file' = file
        /\ proc[p].phase = "recording"
    BY <1>9 DEF Record, TypeOK, Idle, disk
  <2>2. persistErr' \/ file'.list = Recording'
    BY <1>1, <2>1 DEF ShotFits
  <2>3. ShotFits(p)'
    BY <2>1 DEF ShotFits
  <2>4. QED
    BY <1>3, <2>1, <2>2, <2>3
<1>10. QED
  BY <1>4, <1>5, <1>6, <1>7, <1>8, <1>9

\* The steps that no request takes leave what was seen and what is current.
LEMMA OtherStepCurrent ==
  ASSUME TypeOK, ShotIsCurrent, QuietIsCurrent, DownIsEmpty,
         \/ \E t \in Tasks : Collected(t) \/ Wake(t)
         \/ Crash \/ ReadFile \/ Serve \/ UNCHANGED vars
  PROVE  ShotIsCurrent' /\ QuietIsCurrent'
<1>1. CASE Crash
  <2>1. \A p \in Procs : proc'[p].phase = "idle"
    BY <1>1 DEF Crash, Idle
  <2>2. service' = "down"
    BY <1>1 DEF Crash
  <2>3. QED
    BY <2>1, <2>2 DEF ShotIsCurrent, ShotFits, QuietIsCurrent
<1>2. ASSUME ~Crash PROVE ShotIsCurrent' /\ UNCHANGED <<tasks, running, proc, file, persistErr>>
  <2>1. UNCHANGED <<tasks, running, proc, tmp, file, persistErr>>
    BY <1>2 DEF Collected, Wake, ReadFile, Serve, vars, disk
  <2>2. Recording' = Recording
    BY <2>1, SameRecording
  <2>3. QED
    BY <2>1, <2>2 DEF ShotIsCurrent, ShotFits
<1>3. ASSUME ~Crash PROVE QuietIsCurrent'
  <2>1. Recording' = Recording
    BY <1>2, <1>3, SameRecording
  <2>2. (\A p \in Procs : ~Persisting(p)) <=> (\A p \in Procs : ~Persisting(p))'
    BY <1>2, <1>3 DEF Persisting
  <2>3. CASE ReadFile
    <3>1. Recording = {} /\ restore' = file.list /\ service' \in {"booting", "failed"}
      BY <2>3 DEF ReadFile, DownIsEmpty
    <3>2. QED
      BY <1>2, <1>3, <2>1, <3>1 DEF QuietIsCurrent
  <2>4. CASE Serve
    <3>1. service = "booting" /\ restore = {}
      BY <2>4 DEF Serve
    <3>2. QED
      BY <1>2, <1>3, <2>1, <2>2, <3>1 DEF QuietIsCurrent
  <2>5. CASE (\E t \in Tasks : Collected(t) \/ Wake(t)) \/ UNCHANGED vars
    <3>1. UNCHANGED <<service, restore>>
      BY <2>5 DEF Collected, Wake, vars
    <3>2. QED
      BY <1>2, <1>3, <2>1, <2>2, <3>1 DEF QuietIsCurrent
  <2>6. QED
    BY <1>3, <2>3, <2>4, <2>5
<1>4. QED
  BY <1>1, <1>2, <1>3

\* Only EnablePersistence works while the service boots, and nobody before.
LEMMA StepDown == TypeOK /\ DownIsEmpty /\ [Next]_vars => DownIsEmpty'
<1> SUFFICES ASSUME TypeOK, DownIsEmpty, [Next]_vars PROVE DownIsEmpty'
  OBVIOUS
<1>1. ASSUME NEW p \in Procs, ProcStep(p) PROVE DownIsEmpty'
  <2>1. service' = service
    BY <1>1 DEF ProcStep, Start, Find, Halt, ReadTask, Open, Write, Rename, IoError, Record
  <2>2. service \in {"booting", "up"} /\ (service = "booting" => p = Boot)
    <3>1. CASE proc[p].phase = "idle"
      <4>1. \E d \in Devices : Ready(p, d)
        BY <1>1, <3>1
           DEF ProcStep, Start, Find, Halt, ReadTask, Open, Write, Rename, IoError, Record
      <4>2. QED
        BY <4>1 DEF Ready
    <3>2. CASE proc[p].phase # "idle"
      BY <3>2 DEF DownIsEmpty, TypeOK, Procs
    <3>3. QED
      BY <3>1, <3>2
  <2>3. CASE service = "up"
    BY <2>1, <2>3 DEF DownIsEmpty
  <2>4. CASE service = "booting"
    <3>1. p = Boot /\ \A q \in Clients : q # p /\ proc[q].phase = "idle"
      BY <2>2, <2>4, MonitorAssumption DEF DownIsEmpty
    <3>2. \A q \in Clients : proc'[q].phase = proc[q].phase
      <4>1. CASE Rename(p)
        BY <3>1, <4>1 DEF Rename, TypeOK, Procs, Proc
      <4>2. CASE ~Rename(p)
        <5>1. \E new : proc' = [proc EXCEPT ![p] = new]
          BY <1>1, <4>2 DEF ProcStep, Start, Find, Halt, Persist, ReadTask, Open, Write, IoError,
             Record
        <5>2. QED
          BY <3>1, <5>1 DEF TypeOK, Procs
      <4>3. QED
        BY <4>1, <4>2
    <3>3. QED
      BY <2>1, <2>4, <3>1, <3>2 DEF DownIsEmpty
  <2>5. QED
    BY <2>2, <2>3, <2>4
<1>2. CASE Crash
  <2>1. /\ \A p \in Procs : proc'[p].phase = "idle"
        /\ service' = "down" /\ ~persistErr'
        /\ \A d \in Devices : tasks'[d] = NoTask
    BY <1>2 DEF Crash, Idle
  <2>2. Recording' = {}
    BY <2>1 DEF Recording, Listed
  <2>3. QED
    BY <2>1, <2>2 DEF DownIsEmpty
<1>3. CASE \/ \E t \in Tasks : Collected(t) \/ Wake(t)
           \/ ReadFile \/ Serve \/ UNCHANGED vars
  <2>1. UNCHANGED <<tasks, running, proc, persistErr>>
    BY <1>3 DEF Collected, Wake, ReadFile, Serve, vars
  <2>2. service' = service \/ service = "down" \/ service' = "up"
    BY <1>3 DEF Collected, Wake, ReadFile, Serve, vars
  <2>3. QED
    BY <2>1, <2>2, SameRecording DEF DownIsEmpty, Procs
<1>4. QED
  BY <1>1, <1>2, <1>3 DEF Next

\* No step lets the state file fall behind unnoticed.
LEMMA StepCurrent == CurrentInv /\ [Next]_vars => CurrentInv'
<1> SUFFICES ASSUME CurrentInv, [Next]_vars PROVE CurrentInv'
  OBVIOUS
<1>1. TypeOK /\ FileInv' /\ DownIsEmpty'
  BY StepFile, StepDown DEF CurrentInv, FileInv
<1>2. SUFFICES ASSUME ~overlapped' PROVE ShotIsCurrent' /\ QuietIsCurrent'
  BY <1>1 DEF CurrentInv
<1>3. ASSUME ~overlapped PROVE FileParts /\ ShotIsCurrent /\ QuietIsCurrent /\ DownIsEmpty
  BY <1>3 DEF CurrentInv, FileInv
<1>4. ASSUME NEW p \in Procs,
             (\E d \in Devices, t \in Tasks : Start(p, d, t)) \/ Halt(p)
      PROVE  ShotIsCurrent' /\ QuietIsCurrent'
  <2>1. Persist(p)
    BY <1>4 DEF Start, Halt
  <2>2. QED
    BY <1>1, <1>2, <2>1, PersistCurrent
<1>5. ASSUME NEW p \in Procs, NEW d \in Devices, Find(p, d)
      PROVE  ShotIsCurrent' /\ QuietIsCurrent'
  <2>1. /\ UNCHANGED <<tasks, running, tmp, file, persistErr, service, restore>>
        /\ ~overlapped
    BY <1>2, <1>5 DEF Find, disk, history
  <2>2. /\ \A q \in Procs \ {p} : proc'[q] = proc[q]
        /\ proc[p].phase = "idle"
        /\ proc'[p].phase = "found"
    BY <1>1, <1>5 DEF Find, Ready, TypeOK, Idle
  <2>3. Recording' = Recording
    BY <2>1, SameRecording
  <2>4. ShotIsCurrent'
    BY <1>3, <2>1, <2>2, <2>3 DEF ShotIsCurrent, ShotFits
  <2>5. (\A q \in Procs : ~Persisting(q))' => \A q \in Procs : ~Persisting(q)
    BY <2>2 DEF Persisting
  <2>6. QuietIsCurrent'
    BY <1>3, <2>1, <2>3, <2>5 DEF QuietIsCurrent
  <2>7. QED
    BY <2>4, <2>6
<1>6. ASSUME NEW p \in Procs,
             \/ \E d \in Devices : ReadTask(p, d)
             \/ Open(p) \/ Write(p) \/ Rename(p) \/ IoError(p) \/ Record(p)
      PROVE  ShotIsCurrent' /\ QuietIsCurrent'
  <2>1. ~overlapped
    BY <1>2, <1>6 DEF ReadTask, Open, Write, Rename, IoError, Record, history
  <2>2. QED
    BY <1>1, <1>3, <1>6, <2>1, PersistStepCurrent
<1>7. CASE \/ \E t \in Tasks : Collected(t) \/ Wake(t)
           \/ Crash \/ ReadFile \/ Serve \/ UNCHANGED vars
  <2>1. ~overlapped
    BY <1>2, <1>7 DEF Collected, Wake, Crash, ReadFile, Serve, vars, history
  <2>2. QED
    BY <1>1, <1>3, <1>7, <2>1, OtherStepCurrent
<1>8. QED
  BY <1>4, <1>5, <1>6, <1>7 DEF Next, ProcStep

\* The invariant of the file's content holds in every reachable state.
THEOREM CurrentInvariant == Spec => []CurrentInv
<1>1. Init => FileInv
  BY InitFile
<1>2. Init => DownIsEmpty /\ ShotIsCurrent /\ QuietIsCurrent
  <2> SUFFICES ASSUME Init PROVE DownIsEmpty /\ ShotIsCurrent /\ QuietIsCurrent
    OBVIOUS
  <2>1. /\ \A p \in Procs : proc[p].phase = "idle"
        /\ service = "down" /\ ~persistErr
        /\ \A d \in Devices : tasks[d] = NoTask
    BY DEF Init, Idle
  <2>2. Recording = {}
    BY <2>1 DEF Recording, Listed
  <2>3. QED
    BY <2>1, <2>2 DEF DownIsEmpty, ShotIsCurrent, ShotFits, QuietIsCurrent, Procs
<1>3. Init => CurrentInv
  BY <1>1, <1>2 DEF CurrentInv
<1>4. QED
  BY <1>3, StepCurrent, PTL DEF Spec

\* A state file that could be written lists exactly what records, also after a
\* restart, while no two requests have persisted together.
THEOREM FileAlwaysCurrent == Spec => []FileIsCurrent
<1>1. CurrentInv => FileIsCurrent
  <2> SUFFICES ASSUME CurrentInv, ~overlapped, service = "up", ~persistErr,
                      \A p \in Procs : proc[p].phase = "idle"
               PROVE  Recording = file.list
    BY DEF FileIsCurrent
  <2>1. \A p \in Procs : ~Persisting(p)
    BY DEF Persisting
  <2>2. QED
    BY <2>1 DEF CurrentInv, QuietIsCurrent
<1>2. QED
  BY <1>1, CurrentInvariant, PTL
=============================================================================
