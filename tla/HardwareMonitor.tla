---------------------------- MODULE HardwareMonitor ----------------------------
(***************************************************************************)
(* The background hardware monitor of the Go device service                *)
(* (internal/device/hardware_monitor.go): a map of recording tasks, one    *)
(* sampling goroutine per task, and a state file that is rewritten after   *)
(* every Start and Stop and read back when the service boots.              *)
(*                                                                         *)
(* Manager.mu guards the map and persistErr, task.mu each status.  Nothing *)
(* guards persist(): every HTTP request writes the same temporary file, so *)
(* the model keeps file names and file contents apart.                     *)
(***************************************************************************)
EXTENDS Naturals, FiniteSets

CONSTANTS
  Devices,    \* device ids
  Clients,    \* HTTP requests that may be under way at the same time
  Boot,       \* EnablePersistence, which runs alone before HTTP is served
  MaxTasks,   \* bound on the hardwareMonitorTask objects created
  IoFails,    \* whether a file operation can fail
  MaxCrashes, \* bound on crashes
  NoDevice

ASSUME MonitorAssumption ==
  /\ Boot \notin Clients
  /\ IoFails \in BOOLEAN
  /\ MaxTasks \in Nat \ {0}
  /\ MaxCrashes \in Nat
  /\ NoDevice \notin Devices

Tasks == 1 .. MaxTasks
NoTask == 0

\* What a file holds: a whole JSON text that lists devices as running, or a part
\* of a text, which cannot be parsed.
File == [kind: {"missing", "torn", "whole"}, list: SUBSET Devices]
Missing == [kind |-> "missing", list |-> {}]
Torn == [kind |-> "torn", list |-> {}]
Whole(ds) == [kind |-> "whole", list |-> ds]

VARIABLES
  tasks,      \* HardwareMonitorManager.tasks
  device,     \* status.DeviceID of each task
  running,    \* status.Running of each task; Stop clears it and cancels the context
  loop,       \* progress of each task's goroutine
  proc,       \* progress of each request and of EnablePersistence
  restore,    \* entries of the state file EnablePersistence has still to start
  tmp, file,  \* the files named `path + ".tmp"` and `path`
  persistErr, \* whether HardwareMonitorManager.persistErr is set
  service,    \* state of the process
  crashes,
  overlapped, \* history: two requests persisted at the same time
  recorded    \* history: published as running and not stopped since

disk == <<tmp, file>>
history == <<overlapped, recorded>>
vars == <<tasks, device, running, loop, proc, restore, disk, persistErr,
          service, crashes, history>>

-----------------------------------------------------------------------------
(* Types *)

Procs == Clients \cup {Boot}
ProcPhase == {"idle", "found", "reading", "opening", "writing", "renaming",
              "recording"}

\* `task` is the task Stop looked up; `left` and `shot` are the devices
\* persist() has still to look at and those it found running; `fd` is the name,
\* if any, of the file it has opened, which a rename changes; `ok` is its result.
Proc == [phase: ProcPhase, task: Tasks \cup {NoTask}, left: SUBSET Devices,
         shot: SUBSET Devices, fd: {"none", "tmp", "file", "unnamed"}, ok: BOOLEAN]
Idle == [phase |-> "idle", task |-> NoTask, left |-> {}, shot |-> {},
         fd |-> "none", ok |-> TRUE]

TypeOK ==
  /\ tasks \in [Devices -> Tasks \cup {NoTask}]
  /\ device \in [Tasks -> Devices \cup {NoDevice}]
  /\ running \in [Tasks -> BOOLEAN]
  /\ loop \in [Tasks -> {"none", "collecting", "sleeping", "ended"}]
  /\ proc \in [Procs -> Proc]
  /\ \A p \in Procs : proc[p].phase = "found" => proc[p].task # NoTask
  /\ restore \subseteq Devices
  /\ tmp \in File
  /\ file \in File
  /\ persistErr \in BOOLEAN
  /\ service \in {"down", "booting", "up", "failed"}
  /\ crashes \in 0 .. MaxCrashes
  /\ overlapped \in BOOLEAN
  /\ recorded \subseteq Devices

-----------------------------------------------------------------------------
(* Helpers *)

Listed == {d \in Devices : tasks[d] # NoTask}
Recording == {d \in Listed : running[tasks[d]]}
LoopRuns(t) == loop[t] \in {"collecting", "sleeping"}

Persisting(p) == proc[p].phase \notin {"idle", "found"}

\* persist() holds the read lock of Manager.mu while it looks at the tasks.
Unlocked == \A p \in Procs : proc[p].phase # "reading"

\* Objects are created in the order of their numbers.
Fresh(t) == loop[t] = "none" /\ \A s \in Tasks : s < t => loop[s] # "none"

\* Who may start a request: HTTP clients once the service is up, and
\* EnablePersistence for the entries it has read.
Ready(p, d) ==
  /\ proc[p].phase = "idle"
  /\ IF p = Boot THEN service = "booting" /\ d \in restore ELSE service = "up"

\* persist() begins: the read lock is taken.
Persist(p) ==
  /\ proc' = [proc EXCEPT ![p] = [Idle EXCEPT !.phase = "reading", !.left = Listed']]
  /\ overlapped' = (overlapped \/ \E q \in Procs \ {p} : Persisting(q))

-----------------------------------------------------------------------------
Init ==
  /\ tasks = [d \in Devices |-> NoTask]
  /\ device = [t \in Tasks |-> NoDevice]
  /\ running = [t \in Tasks |-> FALSE]
  /\ loop = [t \in Tasks |-> "none"]
  /\ proc = [p \in Procs |-> Idle]
  /\ restore = {}
  /\ tmp = Missing
  /\ file = Missing
  /\ persistErr = FALSE
  /\ service = "down"
  /\ crashes = 0
  /\ overlapped = FALSE
  /\ recorded = {}

-----------------------------------------------------------------------------
(* Start and Stop *)

\* Mutant: a running task is replaced too.
StartAlways(p, d, t) ==
  /\ Ready(p, d)
  /\ Unlocked
  /\ Fresh(t)
  /\ tasks' = [tasks EXCEPT ![d] = t]
  /\ device' = [device EXCEPT ![t] = d]
  /\ running' = [running EXCEPT ![t] = TRUE]
  /\ loop' = [loop EXCEPT ![t] = "collecting"]
  /\ restore' = IF p = Boot THEN restore \ {d} ELSE restore
  /\ Persist(p)
  /\ UNCHANGED <<disk, persistErr, service, crashes, recorded>>

\* Start: a stopped task of the device is replaced by a fresh one, whose
\* goroutine begins to collect.  With a running task Start changes nothing.
Start(p, d, t) ==
  /\ Ready(p, d)
  /\ Unlocked
  /\ d \notin Recording
  /\ Fresh(t)
  /\ tasks' = [tasks EXCEPT ![d] = t]
  /\ device' = [device EXCEPT ![t] = d]
  /\ running' = [running EXCEPT ![t] = TRUE]
  /\ loop' = [loop EXCEPT ![t] = "collecting"]
  /\ restore' = IF p = Boot THEN restore \ {d} ELSE restore
  /\ Persist(p)
  /\ UNCHANGED <<disk, persistErr, service, crashes, recorded>>

\* Mutant: the lookup is taken for successful.
FindAny(p, d) ==
  /\ p # Boot
  /\ Ready(p, d)
  /\ proc' = [proc EXCEPT ![p] = [Idle EXCEPT !.phase = "found", !.task = tasks[d]]]
  /\ UNCHANGED <<tasks, device, running, loop, restore, disk, persistErr, service,
                 crashes, history>>

\* Stop, first half: the task is looked up under the read lock.
Find(p, d) ==
  /\ p # Boot
  /\ Ready(p, d)
  /\ d \in Listed
  /\ proc' = [proc EXCEPT ![p] = [Idle EXCEPT !.phase = "found", !.task = tasks[d]]]
  /\ UNCHANGED <<tasks, device, running, loop, restore, disk, persistErr, service,
                 crashes, history>>

\* Stop, second half, under the task's own lock.
Halt(p) ==
  LET t == proc[p].task
  IN  /\ proc[p].phase = "found"
      /\ running' = [running EXCEPT ![t] = FALSE]
      /\ recorded' = IF running[t] THEN recorded \ {device[t]} ELSE recorded
      /\ UNCHANGED <<tasks, device, loop, restore, disk, persistErr, service, crashes>>
      /\ Persist(p)

-----------------------------------------------------------------------------
(* persist *)

\* Mutant: stopped tasks are listed too.
ReadTaskListed(p, d) ==
  /\ proc[p].phase = "reading"
  /\ d \in proc[p].left
  /\ proc' = [proc EXCEPT ![p].phase = IF proc[p].left = {d} THEN "opening" ELSE @,
                          ![p].left = @ \ {d},
                          ![p].shot = @ \cup {d}]
  /\ UNCHANGED <<tasks, device, running, loop, restore, disk, persistErr, service,
                 crashes, history>>

\* snapshot() of one task, under that task's lock only; after the last one the
\* read lock is released and the list encoded.
ReadTask(p, d) ==
  /\ proc[p].phase = "reading"
  /\ d \in proc[p].left
  /\ proc' = [proc EXCEPT ![p].phase = IF proc[p].left = {d} THEN "opening" ELSE @,
                          ![p].left = @ \ {d},
                          ![p].shot = IF d \in Recording THEN @ \cup {d} ELSE @]
  /\ UNCHANGED <<tasks, device, running, loop, restore, disk, persistErr, service,
                 crashes, history>>

\* Mutant: the state file is written in place.
OpenInPlace(p) ==
  /\ proc[p].phase = "opening"
  /\ file' = Torn
  /\ proc' = [proc EXCEPT ![p].phase = "writing", ![p].fd = "file"]
  /\ UNCHANGED <<tasks, device, running, loop, restore, tmp, persistErr, service,
                 crashes, history>>

\* os.WriteFile opens the temporary file, creating or emptying it ...
Open(p) ==
  /\ proc[p].phase = "opening"
  /\ tmp' = Torn
  /\ proc' = [proc EXCEPT ![p].phase = "writing", ![p].fd = "tmp"]
  /\ UNCHANGED <<tasks, device, running, loop, restore, file, persistErr, service,
                 crashes, history>>

\* ... and writes at its start.  Over the text of another request a shorter
\* text leaves a tail behind.
Written(p, old) ==
  {Whole(proc[p].shot)} \cup (IF old.kind = "whole" THEN {Torn} ELSE {})

Write(p) ==
  /\ proc[p].phase = "writing"
  /\ IF proc[p].fd = "tmp" THEN tmp' \in Written(p, tmp) ELSE UNCHANGED tmp
  /\ IF proc[p].fd = "file" THEN file' \in Written(p, file) ELSE UNCHANGED file
  /\ proc' = [proc EXCEPT ![p].phase = "renaming", ![p].fd = "none"]
  /\ UNCHANGED <<tasks, device, running, loop, restore, persistErr, service, crashes,
                 history>>

\* os.Rename: descriptors follow the file.  It fails when another request has
\* renamed the temporary file already.
Rename(p) ==
  /\ proc[p].phase = "renaming"
  /\ \/ /\ tmp # Missing
        /\ file' = tmp
        /\ tmp' = Missing
        /\ proc' = [q \in Procs |->
             IF q = p THEN [proc[p] EXCEPT !.phase = "recording"]
             ELSE [proc[q] EXCEPT !.fd = CASE @ = "tmp" -> "file"
                                           [] @ = "file" -> "unnamed"
                                           [] OTHER -> @]]
        /\ recorded' = recorded \cup (tmp.list \cap Recording)
     \/ /\ tmp = Missing
        /\ proc' = [proc EXCEPT ![p].phase = "recording", ![p].ok = FALSE]
        /\ UNCHANGED <<tmp, file, recorded>>
  /\ UNCHANGED <<tasks, device, running, loop, restore, persistErr, service, crashes,
                 overlapped>>

\* MkdirAll, the open, the write or the rename fails.
IoError(p) ==
  /\ IoFails
  /\ proc[p].phase \in {"opening", "writing", "renaming"}
  /\ proc' = [proc EXCEPT ![p].phase = "recording", ![p].fd = "none", ![p].ok = FALSE]
  /\ UNCHANGED <<tasks, device, running, loop, restore, disk, persistErr, service,
                 crashes, history>>

\* Mutant: only successes are recorded.
RecordSuccess(p) ==
  /\ proc[p].phase = "recording"
  /\ Unlocked
  /\ persistErr' = IF proc[p].ok THEN FALSE ELSE persistErr
  /\ proc' = [proc EXCEPT ![p] = Idle]
  /\ UNCHANGED <<tasks, device, running, loop, restore, disk, service, crashes, history>>

\* recordPersistenceError; then Start or Stop returns.
Record(p) ==
  /\ proc[p].phase = "recording"
  /\ Unlocked
  /\ persistErr' = ~proc[p].ok
  /\ proc' = [proc EXCEPT ![p] = Idle]
  /\ UNCHANGED <<tasks, device, running, loop, restore, disk, service, crashes, history>>

-----------------------------------------------------------------------------
(* The sampling goroutine *)

\* Mutant: the flag is not looked at after a sample.
CollectedAlways(t) ==
  /\ loop[t] = "collecting"
  /\ loop' = [loop EXCEPT ![t] = "sleeping"]
  /\ UNCHANGED <<tasks, device, running, proc, restore, disk, persistErr, service,
                 crashes, history>>

\* Mutant: a failed sample ends the loop.
CollectedOrFailed(t) ==
  /\ loop[t] = "collecting"
  /\ \E next \in {"sleeping", "ended"} : loop' = [loop EXCEPT ![t] = next]
  /\ UNCHANGED <<tasks, device, running, proc, restore, disk, persistErr, service,
                 crashes, history>>

\* The collector has returned; the loop ends when the task was stopped.
Collected(t) ==
  /\ loop[t] = "collecting"
  /\ loop' = [loop EXCEPT ![t] = IF running[t] THEN "sleeping" ELSE "ended"]
  /\ UNCHANGED <<tasks, device, running, proc, restore, disk, persistErr, service,
                 crashes, history>>

\* select: the timer fires, or the context is done; when both are, either.
Wake(t) ==
  /\ loop[t] = "sleeping"
  /\ \E next \in {"collecting"} \cup (IF running[t] THEN {} ELSE {"ended"}) :
       loop' = [loop EXCEPT ![t] = next]
  /\ UNCHANGED <<tasks, device, running, proc, restore, disk, persistErr, service,
                 crashes, history>>

-----------------------------------------------------------------------------
(* Crashes and restarts *)

\* The process ends at any point; names and file contents stay.
Crash ==
  /\ service \in {"booting", "up"}
  /\ crashes < MaxCrashes
  /\ crashes' = crashes + 1
  /\ service' = "down"
  /\ tasks' = [d \in Devices |-> NoTask]
  /\ running' = [t \in Tasks |-> FALSE]
  /\ loop' = [t \in Tasks |-> IF loop[t] = "none" THEN "none" ELSE "ended"]
  /\ proc' = [p \in Procs |-> Idle]
  /\ restore' = {}
  /\ persistErr' = FALSE
  /\ device' = [t \in Tasks |-> NoDevice]
  /\ UNCHANGED <<disk, history>>

\* EnablePersistence reads the state file; main exits when it is no JSON text, and so will
\* every later start.  A file that cannot be read now makes main exit too, before anything
\* has started: the service stays down as it was, which is no step.
ReadFile ==
  /\ service = "down"
  /\ service' = IF file = Torn THEN "failed" ELSE "booting"
  /\ restore' = file.list
  /\ UNCHANGED <<tasks, device, running, loop, proc, disk, persistErr, crashes, history>>

\* Every entry is started; the service begins to serve HTTP.
Serve ==
  /\ service = "booting"
  /\ restore = {}
  /\ proc[Boot].phase = "idle"
  /\ service' = "up"
  /\ UNCHANGED <<tasks, device, running, loop, proc, restore, disk, persistErr,
                 crashes, history>>

-----------------------------------------------------------------------------
ProcStep(p) ==
  \/ \E d \in Devices, t \in Tasks : Start(p, d, t)
  \/ \E d \in Devices : Find(p, d)
  \/ Halt(p)
  \/ \E d \in Devices : ReadTask(p, d)
  \/ Open(p)
  \/ Write(p)
  \/ Rename(p)
  \/ IoError(p)
  \/ Record(p)

Next ==
  \/ \E p \in Procs : ProcStep(p)
  \/ \E t \in Tasks : Collected(t) \/ Wake(t)
  \/ Crash
  \/ ReadFile
  \/ Serve

\* Goroutines are scheduled, a sample ends (ADB commands time out) and timers fire.
Fairness == \A t \in Tasks : WF_vars(Collected(t)) /\ WF_vars(Wake(t))

Spec == Init /\ [][Next]_vars
FairSpec == Spec /\ Fairness

-----------------------------------------------------------------------------
(* Properties *)

\* A task that records is the one its device's entry names, so that Stop and
\* Status reach it: Start never replaces a running task, whatever requests race.
RunningIsListed == \A t \in Tasks : running[t] => tasks[device[t]] = t

\* A recording reported as running is being sampled: its goroutine ends only
\* after Stop (the manual stop is the only way to end a recording).
RunningIsSampled == \A t \in Tasks : running[t] => LoopRuns(t)

\* As long as no two requests persisted at the same time, the state file is a
\* whole JSON text at every instant, also when the process dies while writing.
FileIsWhole == ~overlapped => file.kind # "torn"

\* As long as no two requests persisted at the same time, a state file that
\* could be written lists exactly the recordings under way, also after a restart.
FileIsCurrent ==
  ~overlapped /\ service = "up" /\ ~persistErr /\ (\A p \in Procs : proc[p].phase = "idle") =>
    Recording = file.list

\* A stopped recording ends its goroutine, also when Stop falls into a sample.
StopEndsLoop ==
  \A t \in Tasks : loop[t] # "none" /\ ~running[t] ~> loop[t] = "ended"

\* "At most one recording loop per device, sampling strictly serial" (ADR 0003,
\* decision 2).  The code breaks this: a Stop and a Start during one sample
\* leave the old goroutine collecting beside the new one.
OneLoopPerDevice ==
  \A s, t \in Tasks : loop[s] = "collecting" /\ loop[t] = "collecting" /\ s # t =>
    device[s] # device[t]

\* "A restart is no manual stop; recordings persisted as running must be restored
\* automatically" (hardware_monitor_test.go).  The code breaks this: each
\* restored recording rewrites the file without those still to be restored.
RestartRestores == service = "up" => recorded \subseteq Recording
=============================================================================
