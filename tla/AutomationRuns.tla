---------------------------- MODULE AutomationRuns ----------------------------
(***************************************************************************)
(* The automation runtime of the Go service (internal/automation): tasks   *)
(* and runs in SQLite, one goroutine per run, and the HTTP requests that   *)
(* start, pause, resume and stop runs while it executes.                   *)
(*                                                                         *)
(* Service.mu guards the control map, runControl.mu the run, and SaveRun   *)
(* writes a snapshot after the lock is released: each critical section and *)
(* each database write is a step of its own.                               *)
(***************************************************************************)
EXTENDS Naturals, FiniteSets

CONSTANTS
  Tasks,        \* automation tasks
  Runs,         \* requests to run a task; each creates at most one run
  Controls,     \* pause, resume and stop requests, each performed once
  TotalSteps,   \* actions of a task
  Outcomes,     \* what SaveRun can return: TRUE stored, FALSE an error
  RecoverLimit, \* runs RecoverInterrupted reads (200)
  MaxCrashes,   \* bound on crashes
  NoTask, NoRun

ASSUME RunsAssumption ==
  /\ TotalSteps \in Nat \ {0}
  /\ Outcomes \subseteq BOOLEAN
  /\ IsFiniteSet(Runs)
  /\ RecoverLimit \in Nat
  /\ MaxCrashes \in Nat
  /\ NoTask \notin Tasks
  /\ NoRun \notin Runs
  /\ Runs \cap Controls = {}

VARIABLES
  policy,    \* automation_tasks: the concurrency policy of each stored task
  db,        \* automation_runs: the last stored snapshot of each run
  run,       \* the Run in memory, with the task read by GetTask
  pc,        \* progress of each run: its request, then its goroutine
  controls,  \* keys of Service.controls
  paused,    \* runControl.paused
  woken,     \* the resume channel wait() selects on has been closed
  cancelled, \* runControl.cancel was called
  ctl,       \* progress of each control request
  snap,      \* the snapshot a goroutine or request is about to save
  up,        \* the service is running (FALSE until recovery ends)
  crashes,
  permitted  \* history, for the properties only: the requests under way whose task
             \* has allowed overlapping runs since they read it

memory == <<run, pc, controls, paused, woken, cancelled, ctl, snap>>
vars == <<policy, db, memory, up, crashes, permitted>>

-----------------------------------------------------------------------------
(* Types *)

Status == {"queued", "running", "paused", "succeeded", "failed", "stopped"}
Active == {"queued", "running", "paused"}
Final == Status \ Active

\* model.go `transitions`; nothing in the code uses the status "skipped".
Transitions == [queued |-> {"running", "stopped"},
                running |-> {"paused", "succeeded", "failed", "stopped"},
                paused |-> {"running", "failed", "stopped"},
                succeeded |-> {}, failed |-> {}, stopped |-> {}]

Policy == {"absent", "skip", "allow"}
Snapshot == [status: Status, steps: 0 .. TotalSteps]
NotSaved == [status |-> "none", steps |-> 0]

\* "new" to "dropping": Service.Run.  "starting" to "leaving": execute.  "lost":
\* the process died.
RunPhase == {"new", "read", "creating", "dropping", "starting", "startSaving",
             "looping", "blocked", "acting", "progressSaving", "ending.stopped",
             "ending.failed", "ending.succeeded", "endSaving", "leaving", "ended",
             "lost"}
CtlPhase == {"new", "found", "pausing", "pauseSaving", "unpausing", "resuming",
             "resumeSaving", "stopping", "stopSaving", "cancelling", "done"}

TypeOK ==
  /\ policy \in [Tasks -> Policy]
  /\ db \in [Runs -> Snapshot \cup {NotSaved}]
  /\ run \in [Runs -> [task: Tasks \cup {NoTask}, policy: Policy,
                       status: Status, steps: 0 .. TotalSteps]]
  /\ pc \in [Runs -> RunPhase]
  /\ controls \subseteq Runs
  /\ paused \in [Runs -> BOOLEAN]
  /\ woken \in [Runs -> BOOLEAN]
  /\ cancelled \in [Runs -> BOOLEAN]
  /\ ctl \in [Controls -> [phase: CtlPhase, run: Runs \cup {NoRun}]]
  /\ snap \in [Runs \cup Controls -> Snapshot \cup {NotSaved}]
  /\ up \in BOOLEAN
  /\ crashes \in 0 .. MaxCrashes
  /\ permitted \subseteq Runs

-----------------------------------------------------------------------------
(* Helpers *)

Shot(r) == [status |-> run[r].status, steps |-> run[r].steps]

\* A goroutine executes r, or its request is about to start one.
Alive(r) == pc[r] \notin {"new", "read", "ended", "lost"}

\* transitionRun up to the unlock: the status changes and the snapshot that is
\* saved afterwards is taken.
Transition(p, r, next) ==
  /\ run' = [run EXCEPT ![r].status = next]
  /\ snap' = [snap EXCEPT ![p] = [status |-> next, steps |-> run[r].steps]]

\* Three outcomes of transitionRun before the save.
Same(r, next) == run[r].status = next
Legal(r, next) == next \in Transitions[run[r].status]
Illegal(r, next) == ~Same(r, next) /\ ~Legal(r, next)

\* repository.SaveRun of the snapshot p holds, for run r.
Stored(p, r, ok) ==
  /\ db' = IF ok THEN [db EXCEPT ![r] = snap[p]] ELSE db
  /\ snap' = [snap EXCEPT ![p] = NotSaved]

Go(r, from, to) ==
  /\ up
  /\ pc[r] = from
  /\ pc' = [pc EXCEPT ![r] = to]

\* A control request that returns, with or without an error, is done.
Done == [phase |-> "done", run |-> NoRun]

Step(k, from, to) ==
  /\ up
  /\ ctl[k].phase = from
  /\ ctl' = [ctl EXCEPT ![k] = IF to = "done" THEN Done ELSE [@ EXCEPT !.phase = to]]

-----------------------------------------------------------------------------
NoRunYet == [task |-> NoTask, policy |-> "absent", status |-> "queued", steps |-> 0]
NoControlYet == [phase |-> "new", run |-> NoRun]

Init ==
  /\ policy = [t \in Tasks |-> "absent"]
  /\ db = [r \in Runs |-> NotSaved]
  /\ run = [r \in Runs |-> NoRunYet]
  /\ pc = [r \in Runs |-> "new"]
  /\ controls = {}
  /\ paused = [r \in Runs |-> FALSE]
  /\ woken = [r \in Runs |-> FALSE]
  /\ cancelled = [r \in Runs |-> FALSE]
  /\ ctl = [k \in Controls |-> NoControlYet]
  /\ snap = [p \in Runs \cup Controls |-> NotSaved]
  /\ up = FALSE
  /\ crashes = 0
  /\ permitted = {}

-----------------------------------------------------------------------------
(* Tasks *)

\* The requests that have read the task and not locked the map yet, for the history.
Readers(t) == {r \in Runs : pc[r] = "read" /\ run[r].task = t}

\* Save: validation and defaults leave a policy, "skip" when none was given.
SaveTask(t, p) ==
  /\ up
  /\ policy' = [policy EXCEPT ![t] = p]
  /\ permitted' = IF p = "allow" THEN permitted \cup Readers(t) ELSE permitted
  /\ UNCHANGED <<db, memory, up, crashes>>

\* Delete: the runs of the task keep their rows, foreign keys are not enabled.
DeleteTask(t) ==
  /\ up
  /\ policy[t] # "absent"
  /\ policy' = [policy EXCEPT ![t] = "absent"]
  /\ UNCHANGED <<db, memory, up, crashes, permitted>>

-----------------------------------------------------------------------------
(* Service.Run *)

\* GetTask, before Service.mu is taken.
ReadTask(r, t) ==
  /\ Go(r, "new", IF policy[t] = "absent" THEN "ended" ELSE "read")
  /\ run' = [run EXCEPT ![r].task = t, ![r].policy = policy[t]]
  /\ permitted' = IF policy[t] = "allow" THEN permitted \cup {r} ELSE permitted
  /\ UNCHANGED <<policy, db, controls, paused, woken, cancelled, ctl, snap, up, crashes>>

\* Mutant: the stored rows are searched instead of the map.
TaskRowRunning(t) == \E r \in Runs : run[r].task = t /\ db[r].status = "running"

\* The map holds a run of the task: the run ids start with the task id.
TaskBusy(t) == \E r \in controls : run[r].task = t

Skip(r) ==
  /\ Go(r, "read", "ended")
  /\ run[r].policy = "skip" /\ TaskBusy(run[r].task)
  /\ permitted' = permitted \ {r}
  /\ UNCHANGED <<policy, db, run, controls, paused, woken, cancelled, ctl, snap, up, crashes>>

Register(r) ==
  /\ Go(r, "read", "creating")
  /\ ~(run[r].policy = "skip" /\ TaskBusy(run[r].task))
  /\ controls' = controls \cup {r}
  /\ snap' = [snap EXCEPT ![r] = Shot(r)]
  /\ permitted' = permitted \ {r}
  /\ UNCHANGED <<policy, db, run, paused, woken, cancelled, ctl, up, crashes>>

\* The queued run is saved; on success its goroutine starts.
Create(r, ok) ==
  /\ Go(r, "creating", IF ok THEN "starting" ELSE "dropping")
  /\ Stored(r, r, ok)
  /\ UNCHANGED <<policy, permitted, run, controls, paused, woken, cancelled, ctl, up, crashes>>

\* On an error the run is cancelled and taken out of the map.
Drop(r) ==
  /\ Go(r, "dropping", "ended")
  /\ cancelled' = [cancelled EXCEPT ![r] = TRUE]
  /\ controls' = controls \ {r}
  /\ UNCHANGED <<policy, permitted, db, run, paused, woken, ctl, snap, up, crashes>>

-----------------------------------------------------------------------------
(* execute *)

\* The first transition precedes the deferred delete: when it fails, also when
\* only its save fails, the goroutine ends and its control stays in the map.
Start(r) ==
  \/ /\ Same(r, "running")
     /\ Go(r, "starting", "looping")
     /\ UNCHANGED <<policy, permitted, db, run, controls, paused, woken, cancelled, ctl, snap, up, crashes>>
  \/ /\ Legal(r, "running")
     /\ Go(r, "starting", "startSaving")
     /\ Transition(r, r, "running")
     /\ UNCHANGED <<policy, permitted, db, controls, paused, woken, cancelled, ctl, up, crashes>>
  \/ /\ Illegal(r, "running")
     /\ Go(r, "starting", "ended")
     /\ UNCHANGED <<policy, permitted, db, run, controls, paused, woken, cancelled, ctl, snap, up, crashes>>

StartSaved(r, ok) ==
  /\ Go(r, "startSaving", IF ok THEN "looping" ELSE "ended")
  /\ Stored(r, r, ok)
  /\ UNCHANGED <<policy, permitted, run, controls, paused, woken, cancelled, ctl, up, crashes>>

\* Mutant: the loop leaves out the last action.
LoopEndsEarly(r) ==
  /\ Go(r, "looping", "ending.succeeded")
  /\ run[r].steps + 1 >= TotalSteps
  /\ UNCHANGED <<policy, permitted, db, run, controls, paused, woken, cancelled, ctl, snap, up, crashes>>

\* The loop over the actions is over.
LoopEnds(r) ==
  /\ Go(r, "looping", "ending.succeeded")
  /\ run[r].steps = TotalSteps
  /\ UNCHANGED <<policy, permitted, db, run, controls, paused, woken, cancelled, ctl, snap, up, crashes>>

\* Mutant: the loop does not stop at the last action.
WaitAgain(r) ==
  /\ Go(r, "looping", IF paused[r] THEN "blocked"
                      ELSE IF cancelled[r] THEN "ending.stopped" ELSE "acting")
  /\ UNCHANGED <<policy, permitted, db, run, controls, paused, woken, cancelled, ctl, snap, up, crashes>>

\* wait() reads `paused` and the current resume channel together.
Wait(r) ==
  /\ run[r].steps < TotalSteps
  /\ Go(r, "looping", IF paused[r] THEN "blocked"
                      ELSE IF cancelled[r] THEN "ending.stopped" ELSE "acting")
  /\ UNCHANGED <<policy, permitted, db, run, controls, paused, woken, cancelled, ctl, snap, up, crashes>>

\* Mutant: wait() selects on the resume channel only.
UnblockByResume(r) ==
  /\ woken[r]
  /\ Go(r, "blocked", "looping")
  /\ woken' = [woken EXCEPT ![r] = FALSE]
  /\ UNCHANGED <<policy, permitted, db, run, controls, paused, cancelled, ctl, snap, up, crashes>>

\* The select of wait(): the context is done, or the channel was closed.
Unblock(r) ==
  /\ \/ cancelled[r] /\ Go(r, "blocked", "ending.stopped")
     \/ woken[r] /\ Go(r, "blocked", "looping")
  /\ woken' = [woken EXCEPT ![r] = FALSE]
  /\ UNCHANGED <<policy, permitted, db, run, controls, paused, cancelled, ctl, snap, up, crashes>>

\* ExecuteAutomationAction returns nil; updateRunProgress.  An action that was
\* under way, or that ignores the context, succeeds also after cancel().
ActionSucceeds(r) ==
  /\ Go(r, "acting", "progressSaving")
  /\ run' = [run EXCEPT ![r].steps = @ + 1]
  /\ snap' = [snap EXCEPT ![r] = [status |-> run[r].status, steps |-> run[r].steps + 1]]
  /\ UNCHANGED <<policy, permitted, db, controls, paused, woken, cancelled, ctl, up, crashes>>

ActionFails(r) ==
  /\ Go(r, "acting", IF cancelled[r] THEN "ending.stopped" ELSE "ending.failed")
  /\ UNCHANGED <<policy, permitted, db, run, controls, paused, woken, cancelled, ctl, snap, up, crashes>>

\* When the progress cannot be saved the run is left as it is.
ProgressSaved(r, ok) ==
  /\ Go(r, "progressSaving", IF ok THEN "looping" ELSE "leaving")
  /\ Stored(r, r, ok)
  /\ UNCHANGED <<policy, permitted, run, controls, paused, woken, cancelled, ctl, up, crashes>>

\* The last transition; an illegal one is only logged.
End(r, from, next) ==
  \/ /\ Legal(r, next)
     /\ Go(r, from, "endSaving")
     /\ Transition(r, r, next)
     /\ UNCHANGED <<policy, permitted, db, controls, paused, woken, cancelled, ctl, up, crashes>>
  \/ /\ ~Legal(r, next)
     /\ Go(r, from, "leaving")
     /\ UNCHANGED <<policy, permitted, db, run, controls, paused, woken, cancelled, ctl, snap, up, crashes>>

EndSaved(r, ok) ==
  /\ Go(r, "endSaving", "leaving")
  /\ Stored(r, r, ok)
  /\ UNCHANGED <<policy, permitted, run, controls, paused, woken, cancelled, ctl, up, crashes>>

\* The deferred delete.
Leave(r) ==
  /\ Go(r, "leaving", "ended")
  /\ controls' = controls \ {r}
  /\ UNCHANGED <<policy, permitted, db, run, paused, woken, cancelled, ctl, snap, up, crashes>>

-----------------------------------------------------------------------------
(* Service.Control *)

\* Lookup in the map, of a run whose id a client can know: ids are random, and
\* shown once the row exists.  The control found is used also after its run left.
Find(k, r) ==
  /\ up
  /\ ctl[k].phase = "new"
  /\ db[r] # NotSaved
  /\ ctl' = [ctl EXCEPT ![k] = IF r \in controls THEN [phase |-> "found", run |-> r]
                               ELSE Done]
  /\ UNCHANGED <<policy, permitted, db, run, pc, controls, paused, woken, cancelled, snap, up, crashes>>

Pause(k) ==
  LET r == ctl[k].run
  IN  /\ Step(k, "found", IF paused[r] THEN "done" ELSE "pausing")
      /\ paused' = [paused EXCEPT ![r] = TRUE]
      /\ UNCHANGED <<policy, permitted, db, run, pc, controls, woken, cancelled, snap, up, crashes>>

\* Closing the channel wakes the goroutine that selects on it, if one does.
Resume(k) ==
  LET r == ctl[k].run
  IN  /\ Step(k, "found", IF paused[r] THEN "resuming" ELSE "done")
      /\ paused' = [paused EXCEPT ![r] = FALSE]
      /\ woken' = [woken EXCEPT ![r] = @ \/ (paused[r] /\ pc[r] = "blocked")]
      /\ UNCHANGED <<policy, permitted, db, run, pc, controls, cancelled, snap, up, crashes>>

Stop(k) ==
  /\ Step(k, "found", "stopping")
  /\ UNCHANGED <<policy, permitted, db, run, pc, controls, paused, woken, cancelled, snap, up, crashes>>

\* transitionRun: the status is the wanted one already (`same` follows), or the
\* snapshot is to be saved, or the transition is refused (`refused` follows).
Change(k, from, next, same, saving, refused) ==
  LET r == ctl[k].run
  IN  /\ ctl[k].phase = from
      /\ \/ /\ Legal(r, next)
            /\ Step(k, from, saving)
            /\ Transition(k, r, next)
         \/ /\ ~Legal(r, next)
            /\ Step(k, from, IF Same(r, next) THEN same ELSE refused)
            /\ UNCHANGED <<run, snap>>
      /\ UNCHANGED <<policy, permitted, db, pc, controls, paused, woken, cancelled, up, crashes>>

Save(k, from, saved, failed, ok) ==
  /\ Step(k, from, IF ok THEN saved ELSE failed)
  /\ Stored(k, ctl[k].run, ok)
  /\ UNCHANGED <<policy, permitted, run, pc, controls, paused, woken, cancelled, up, crashes>>

\* A pause that fails takes `paused` back, without closing the channel.
Unpause(k) ==
  /\ Step(k, "unpausing", "done")
  /\ paused' = [paused EXCEPT ![ctl[k].run] = FALSE]
  /\ UNCHANGED <<policy, permitted, db, run, pc, controls, woken, cancelled, snap, up, crashes>>

\* Mutant: stop takes the run out of the map itself.
CancelForgets(k) ==
  /\ Step(k, "cancelling", "done")
  /\ cancelled' = [cancelled EXCEPT ![ctl[k].run] = TRUE]
  /\ controls' = controls \ {ctl[k].run}
  /\ UNCHANGED <<policy, permitted, db, run, pc, paused, woken, snap, up, crashes>>

\* Stop cancels the context last; not when its transition or its save failed.
Cancel(k) ==
  /\ Step(k, "cancelling", "done")
  /\ cancelled' = [cancelled EXCEPT ![ctl[k].run] = TRUE]
  /\ UNCHANGED <<policy, permitted, db, run, pc, controls, paused, woken, snap, up, crashes>>

-----------------------------------------------------------------------------
(* Crashes and recovery *)

\* The process dies; the database stays.  Lost goroutines do not come back, and
\* a lost request has no effect any more.
Crash ==
  /\ up
  /\ crashes < MaxCrashes
  /\ crashes' = crashes + 1
  /\ up' = FALSE
  /\ pc' = [r \in Runs |-> IF pc[r] = "new" THEN "new" ELSE "lost"]
  /\ ctl' = [k \in Controls |-> IF ctl[k].phase = "new" THEN ctl[k]
                                ELSE Done]
  /\ run' = [r \in Runs |-> NoRunYet]
  /\ controls' = {}
  /\ paused' = [r \in Runs |-> FALSE]
  /\ woken' = [r \in Runs |-> FALSE]
  /\ cancelled' = [r \in Runs |-> FALSE]
  /\ snap' = [p \in Runs \cup Controls |-> NotSaved]
  /\ permitted' = {}
  /\ UNCHANGED <<policy, db>>

Rows == {r \in Runs : db[r] # NotSaved}

\* Mutant: paused runs are taken for finished ones.
RecoveredUnlessPaused(rows) ==
  [r \in Runs |-> IF r \in rows /\ db[r].status \in {"queued", "running"}
                  THEN [db[r] EXCEPT !.status = "failed"] ELSE db[r]]

\* RecoverInterrupted marks the active runs among the rows it reads.
Recovered(rows) ==
  [r \in Runs |-> IF r \in rows /\ db[r].status \in Active
                  THEN [db[r] EXCEPT !.status = "failed"] ELSE db[r]]

\* The newest RecoverLimit rows are read; their order is not modelled.  A crash
\* between two updates leaves the rest to the next start, which reads the same
\* rows, so the recovery is one step.
Recover ==
  /\ ~up
  /\ up' = TRUE
  /\ \E rows \in SUBSET Rows :
       /\ rows = Rows \/ Cardinality(rows) = RecoverLimit
       /\ Cardinality(rows) <= RecoverLimit
       /\ db' = Recovered(rows)
  /\ UNCHANGED <<policy, permitted, memory, crashes>>

-----------------------------------------------------------------------------
RunStep(r) ==
  \/ \E t \in Tasks : ReadTask(r, t)
  \/ Skip(r)
  \/ Register(r)
  \/ \E ok \in Outcomes : Create(r, ok)
  \/ Drop(r)
  \/ Start(r)
  \/ \E ok \in Outcomes : StartSaved(r, ok)
  \/ LoopEnds(r)
  \/ Wait(r)
  \/ Unblock(r)
  \/ ActionSucceeds(r)
  \/ ActionFails(r)
  \/ \E ok \in Outcomes : ProgressSaved(r, ok)
  \/ End(r, "ending.stopped", "stopped")
  \/ End(r, "ending.failed", "failed")
  \/ End(r, "ending.succeeded", "succeeded")
  \/ \E ok \in Outcomes : EndSaved(r, ok)
  \/ Leave(r)

ControlStep(k) ==
  \/ \E r \in Runs : Find(k, r)
  \/ Pause(k)
  \/ Resume(k)
  \/ Stop(k)
  \/ Change(k, "pausing", "paused", "done", "pauseSaving", "unpausing")
  \/ Change(k, "resuming", "running", "done", "resumeSaving", "done")
  \/ Change(k, "stopping", "stopped", "cancelling", "stopSaving", "done")
  \/ \E ok \in Outcomes :
       \/ Save(k, "pauseSaving", "done", "unpausing", ok)
       \/ Save(k, "resumeSaving", "done", "done", ok)
       \/ Save(k, "stopSaving", "cancelling", "done", ok)
  \/ Unpause(k)
  \/ Cancel(k)

Next ==
  \/ \E t \in Tasks, p \in {"skip", "allow"} : SaveTask(t, p)
  \/ \E t \in Tasks : DeleteTask(t)
  \/ \E r \in Runs : RunStep(r)
  \/ \E k \in Controls : ControlStep(k)
  \/ Crash
  \/ Recover

\* Goroutines are scheduled, database calls return, and so does every action:
\* delays end with the context and Core calls with the command.
Fairness ==
  /\ \A r \in Runs : WF_vars(pc[r] # "new" /\ RunStep(r))
  /\ \A k \in Controls : WF_vars(ctl[k].phase \notin {"new", "found"} /\ ControlStep(k))

Spec == Init /\ [][Next]_vars
FairSpec == Spec /\ Fairness

-----------------------------------------------------------------------------
(* Properties *)

\* Every goroutine that executes a run can be reached by Control: its entry is
\* in the map from before it starts until after its last step.
AliveIsControllable == \A r \in Runs : Alive(r) => r \in controls

\* A run starts beside another of its task that executes only when the task, as it
\* is stored, has allowed it while the request was under way: the policy is read
\* before the map is locked, so a save between the two may count or not, but a
\* policy that was "skip" all the while always holds, also against a run that is
\* registered and not saved yet, and against one whose row is behind.
SkipStartsAlone ==
  [][\A r \in Runs : r \in controls' \ controls /\ r \notin permitted =>
       \A s \in Runs : Alive(s) => run[s].task # run[r].task]_vars

\* Whatever order the snapshots are stored in, a run is reported as succeeded
\* only with all its actions performed.
SuccessIsComplete ==
  \A r \in Runs : db[r].status = "succeeded" => db[r].steps = TotalSteps

\* After a restart no run of an earlier process is reported as active, also
\* when the process died between a status change and its save.
LostRunsAreFinal ==
  RecoverLimit >= Cardinality(Runs) /\ up =>
    \A r \in Runs : pc[r] = "lost" => db[r].status \notin Active

\* A stopped run ends, also when it was paused or a pause was in progress.
StopEndsRun ==
  \A r \in Runs : cancelled[r] ~> pc[r] \in {"ended", "lost"}

\* "Pause, resume and stop must update the persisted status, not only switch a
\* boolean in memory while the UI is still shown running" (service_test.go):
\* once every save is done the rows show the status the runs have.  The code
\* breaks this: snapshots are stored in another order than they were taken.
RowsFollowRuns ==
  up /\ (\A p \in Runs \cup Controls : snap[p] = NotSaved) =>
    \A r \in Runs : db[r] # NotSaved /\ pc[r] # "lost" => db[r].status = run[r].status

\* "The task already has a running instance" (the refusal of Service.Run): a
\* task is skipped only while a run of it executes.  The code breaks this: a
\* run that is stopped before its goroutine starts stays in the map for good.
SkippedMeansRunning ==
  [][\A r \in Runs : pc[r] = "read" /\ pc'[r] = "ended" =>
       \E s \in Runs : Alive(s) /\ run[s].task = run[r].task]_vars
=============================================================================
