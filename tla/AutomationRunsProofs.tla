------------------------- MODULE AutomationRunsProofs -------------------------
(***************************************************************************)
(* Theorems about AutomationRuns, for every set of tasks, runs and control *)
(* requests, every number of actions and of crashes, and with or without   *)
(* database errors.                                                        *)
(***************************************************************************)
EXTENDS AutomationRuns, FiniteSetTheorems, TLAPS

RunRecord == [task: Tasks \cup {NoTask}, policy: Policy, status: Status,
              steps: 0 .. TotalSteps]
CtlRecord == [phase: CtlPhase, run: Runs \cup {NoRun}]

(* A control request under way names the run it has found.                  *)
ControlsFit == \A k \in Controls : ctl[k].phase \notin {"new", "done"} => ctl[k].run \in Runs

(* An action is performed only when one is left.                            *)
ActsInRange == \A r \in Runs : pc[r] = "acting" => run[r].steps < TotalSteps

TypeInv == TypeOK /\ ControlsFit /\ ActsInRange

(* Where a run is seen as succeeded, or is about to, all actions are done.  *)
RunsComplete == \A r \in Runs : run[r].status = "succeeded" => run[r].steps = TotalSteps
EndsComplete == \A r \in Runs : pc[r] = "ending.succeeded" => run[r].steps = TotalSteps
ShotsComplete ==
  \A p \in Runs \cup Controls : snap[p].status = "succeeded" => snap[p].steps = TotalSteps

SuccessInv ==
  TypeInv /\ RunsComplete /\ EndsComplete /\ ShotsComplete /\ SuccessIsComplete

(* Nothing that could still be saved belongs to a run of an earlier process. *)
ListedAlive == \A r \in controls : pc[r] # "lost"
ControlsAlive ==
  \A k \in Controls : ctl[k].phase \notin {"new", "done"} => pc[ctl[k].run] # "lost"

LostInv == TypeInv /\ ListedAlive /\ ControlsAlive /\ LostRunsAreFinal

-----------------------------------------------------------------------------
(* Types *)

\* Changing the status of a run keeps the records, and every count of actions.
LEMMA StatusChanged ==
  ASSUME run \in [Runs -> RunRecord], NEW r \in Runs, NEW x \in Status,
         run' = [run EXCEPT ![r].status = x]
  PROVE  /\ run' \in [Runs -> RunRecord]
         /\ \A s \in Runs : run'[s].steps = run[s].steps
         /\ run'[r].status = x
         /\ \A s \in Runs \ {r} : run'[s] = run[s]
<1>1. run[r] \in RunRecord
  OBVIOUS
<1>2. QED
  BY <1>1 DEF RunRecord

\* Counting an action, while one is left, keeps the records.
LEMMA StepCounted ==
  ASSUME run \in [Runs -> RunRecord], NEW r \in Runs, run[r].steps < TotalSteps,
         run' = [run EXCEPT ![r].steps = @ + 1]
  PROVE  /\ run' \in [Runs -> RunRecord]
         /\ run'[r].status = run[r].status
         /\ \A s \in Runs \ {r} : run'[s] = run[s]
<1>1. run[r] \in RunRecord /\ run[r].steps + 1 \in 0 .. TotalSteps
  BY RunsAssumption DEF RunRecord
<1>2. QED
  BY <1>1 DEF RunRecord

\* Reading the task of a run keeps the records, its status and its count.
LEMMA TaskRead ==
  ASSUME run \in [Runs -> RunRecord], NEW r \in Runs, NEW t \in Tasks, NEW p \in Policy,
         run' = [run EXCEPT ![r].task = t, ![r].policy = p]
  PROVE  /\ run' \in [Runs -> RunRecord]
         /\ \A s \in Runs : run'[s].steps = run[s].steps /\ run'[s].status = run[s].status
<1>1. run[r] \in RunRecord
  OBVIOUS
<1>2. QED
  BY <1>1 DEF RunRecord

\* A snapshot of a run is a Snapshot.
LEMMA ShotType ==
  ASSUME run \in [Runs -> RunRecord], NEW r \in Runs
  PROVE  Shot(r) \in Snapshot /\ \A x \in Status : [status |-> x, steps |-> run[r].steps] \in Snapshot
BY DEF Shot, Snapshot, RunRecord

\* SaveRun keeps the types of the database and of the snapshots.
LEMMA StoredType ==
  ASSUME TypeOK, NEW p \in Runs \cup Controls, NEW r, NEW ok, Stored(p, r, ok)
  PROVE  /\ db' \in [Runs -> Snapshot \cup {NotSaved}]
         /\ snap' \in [Runs \cup Controls -> Snapshot \cup {NotSaved}]
BY DEF TypeOK, Stored

\* transitionRun keeps the types of the runs and of the snapshots, and no number
\* of performed actions changes.
LEMMA TransitionType ==
  ASSUME TypeOK, NEW p \in Runs \cup Controls, NEW r \in Runs, NEW next \in Status,
         Transition(p, r, next)
  PROVE  /\ run' \in [Runs -> RunRecord]
         /\ snap' \in [Runs \cup Controls -> Snapshot \cup {NotSaved}]
         /\ \A s \in Runs : run'[s].steps = run[s].steps
<1>1. run \in [Runs -> RunRecord]
  BY DEF TypeOK, RunRecord
<1>2. run' = [run EXCEPT ![r].status = next]
  BY DEF Transition
<1>3. run' \in [Runs -> RunRecord] /\ \A s \in Runs : run'[s].steps = run[s].steps
  BY <1>1, <1>2, StatusChanged
<1>4. [status |-> next, steps |-> run[r].steps] \in Snapshot
  BY <1>1, ShotType
<1>5. snap' \in [Runs \cup Controls -> Snapshot \cup {NotSaved}]
  BY <1>4 DEF Transition, TypeOK
<1>6. QED
  BY <1>3, <1>5

\* Every step of a run's request and goroutine keeps the types.
LEMMA RunStepType ==
  ASSUME TypeInv, NEW r \in Runs, RunStep(r)
  PROVE  TypeInv'
<1> USE DEF Go, memory
<1>1. TypeOK /\ ControlsFit /\ ActsInRange /\ run \in [Runs -> RunRecord]
  BY DEF TypeInv, TypeOK, RunRecord
<1>2. ASSUME pc' \in [Runs -> RunPhase],
             \A s \in Runs \ {r} : pc'[s] = pc[s],
             pc'[r] = "acting" => run'[r].steps < TotalSteps,
             \A s \in Runs \ {r} : run'[s].steps = run[s].steps,
             run' \in [Runs -> RunRecord],
             db' \in [Runs -> Snapshot \cup {NotSaved}],
             snap' \in [Runs \cup Controls -> Snapshot \cup {NotSaved}],
             controls' \subseteq Runs,
             cancelled' \in [Runs -> BOOLEAN],
             woken' \in [Runs -> BOOLEAN],
             permitted' \subseteq permitted \cup {r},
             UNCHANGED <<policy, paused, ctl, up, crashes>>
      PROVE  TypeInv'
  <2>1. TypeOK'
    BY <1>1, <1>2 DEF TypeOK, RunRecord
  <2>2. ControlsFit' /\ ActsInRange'
    BY <1>1, <1>2 DEF ControlsFit, ActsInRange
  <2>3. QED
    BY <2>1, <2>2 DEF TypeInv
<1>3. ASSUME NEW t \in Tasks, ReadTask(r, t) PROVE TypeInv'
  <2>1. policy[t] \in Policy
    BY <1>1 DEF TypeOK
  <2>2. run' \in [Runs -> RunRecord] /\ \A s \in Runs : run'[s].steps = run[s].steps
    BY <1>1, <1>3, <2>1, TaskRead DEF ReadTask
  <2>3. QED
    BY <1>1, <1>2, <1>3, <2>2 DEF ReadTask, TypeOK, RunPhase
<1>4. CASE Skip(r) \/ LoopEnds(r) \/ ActionFails(r)
  BY <1>1, <1>2, <1>4 DEF Skip, LoopEnds, ActionFails, TypeOK, RunPhase
<1>5. CASE Wait(r)
  BY <1>1, <1>2, <1>5 DEF Wait, TypeOK, RunPhase
<1>6. CASE Unblock(r)
  BY <1>1, <1>2, <1>6 DEF Unblock, TypeOK, RunPhase
<1>7. CASE Drop(r) \/ Leave(r)
  BY <1>1, <1>2, <1>7 DEF Drop, Leave, TypeOK, RunPhase
<1>8. CASE Register(r)
  <2>1. snap' \in [Runs \cup Controls -> Snapshot \cup {NotSaved}]
    BY <1>1, <1>8, ShotType DEF Register, TypeOK
  <2>2. QED
    BY <1>1, <1>2, <1>8, <2>1 DEF Register, TypeOK, RunPhase
<1>9. ASSUME NEW ok \in Outcomes,
             Create(r, ok) \/ StartSaved(r, ok) \/ ProgressSaved(r, ok) \/ EndSaved(r, ok)
      PROVE  TypeInv'
  <2>1. Stored(r, r, ok)
    BY <1>9 DEF Create, StartSaved, ProgressSaved, EndSaved
  <2>2. /\ db' \in [Runs -> Snapshot \cup {NotSaved}]
        /\ snap' \in [Runs \cup Controls -> Snapshot \cup {NotSaved}]
    BY <1>1, <2>1, StoredType
  <2>3. QED
    BY <1>1, <1>2, <1>9, <2>2
       DEF Create, StartSaved, ProgressSaved, EndSaved, TypeOK, RunPhase
<1>10. CASE Start(r)
  <2>1. CASE Transition(r, r, "running")
    <3>1. /\ run' \in [Runs -> RunRecord]
          /\ snap' \in [Runs \cup Controls -> Snapshot \cup {NotSaved}]
          /\ \A s \in Runs : run'[s].steps = run[s].steps
      BY <1>1, <2>1, TransitionType DEF Status
    <3>2. QED
      BY <1>1, <1>2, <1>10, <3>1 DEF Start, TypeOK, RunPhase
  <2>2. CASE UNCHANGED <<run, snap>>
    BY <1>1, <1>2, <1>10, <2>2 DEF Start, TypeOK, RunPhase
  <2>3. QED
    BY <1>10, <2>1, <2>2 DEF Start
<1>11. CASE ActionSucceeds(r)
  <2>1. run[r].steps < TotalSteps
    BY <1>1, <1>11 DEF ActionSucceeds, ActsInRange
  <2>2. run' \in [Runs -> RunRecord] /\ \A s \in Runs \ {r} : run'[s] = run[s]
    BY <1>1, <1>11, <2>1, StepCounted DEF ActionSucceeds
  <2>3. [status |-> run[r].status, steps |-> run[r].steps + 1] \in Snapshot
    <3>1. run[r].steps + 1 \in 0 .. TotalSteps /\ run[r].status \in Status
      BY <1>1, <2>1, RunsAssumption DEF RunRecord
    <3>2. QED
      BY <3>1 DEF Snapshot
  <2>4. snap' \in [Runs \cup Controls -> Snapshot \cup {NotSaved}]
    BY <1>1, <1>11, <2>3 DEF ActionSucceeds, TypeOK
  <2>5. QED
    BY <1>1, <1>2, <1>11, <2>2, <2>4 DEF ActionSucceeds, TypeOK, RunPhase
<1>12. ASSUME NEW from, NEW next \in Status, End(r, from, next) PROVE TypeInv'
  <2>1. CASE Transition(r, r, next)
    <3>1. /\ run' \in [Runs -> RunRecord]
          /\ snap' \in [Runs \cup Controls -> Snapshot \cup {NotSaved}]
          /\ \A s \in Runs : run'[s].steps = run[s].steps
      BY <1>1, <2>1, TransitionType
    <3>2. QED
      BY <1>1, <1>2, <1>12, <3>1 DEF End, TypeOK, RunPhase
  <2>2. CASE UNCHANGED <<run, snap>>
    BY <1>1, <1>2, <1>12, <2>2 DEF End, TypeOK, RunPhase
  <2>3. QED
    BY <1>12, <2>1, <2>2 DEF End
<1>13. QED
  BY <1>3, <1>4, <1>5, <1>6, <1>7, <1>8, <1>9, <1>10, <1>11, <1>12 DEF RunStep, Status

\* A control request that moves on keeps the types, and the run it names.
LEMMA MoveType ==
  ASSUME TypeInv, NEW k \in Controls, NEW from, NEW to \in CtlPhase, Step(k, from, to),
         from \notin {"new", "done"}
  PROVE  ctl' \in [Controls -> CtlRecord] /\ ControlsFit' /\ ctl[k].run \in Runs
<1>1. ctl \in [Controls -> CtlRecord] /\ ctl[k].phase = from /\ ctl[k].run \in Runs
  BY DEF TypeInv, TypeOK, CtlRecord, ControlsFit, Step
<1> DEFINE new == IF to = "done" THEN Done ELSE [ctl[k] EXCEPT !.phase = to]
<1>2. ctl' = [ctl EXCEPT ![k] = new]
  BY DEF Step
<1>3. new \in CtlRecord /\ (new.phase \notin {"new", "done"} => new.run \in Runs)
  <2>1. ctl[k] \in CtlRecord
    BY <1>1
  <2>2. CASE to = "done"
    BY <2>2 DEF Done, CtlRecord, CtlPhase
  <2>3. CASE to # "done"
    BY <1>1, <2>1, <2>3 DEF CtlRecord
  <2>4. QED
    BY <2>2, <2>3
<1> HIDE DEF new
<1>4. QED
  BY <1>1, <1>2, <1>3 DEF TypeInv, ControlsFit

\* Every step of a control request keeps the types.
LEMMA ControlStepType ==
  ASSUME TypeInv, NEW k \in Controls, ControlStep(k)
  PROVE  TypeInv'
<1>1. /\ TypeOK /\ ControlsFit /\ ActsInRange
      /\ run \in [Runs -> RunRecord]
      /\ ctl \in [Controls -> CtlRecord]
  BY DEF TypeInv, TypeOK, RunRecord, CtlRecord
<1>2. ASSUME ctl' \in [Controls -> CtlRecord],
             ControlsFit',
             run' \in [Runs -> RunRecord],
             \A s \in Runs : run'[s].steps = run[s].steps,
             db' \in [Runs -> Snapshot \cup {NotSaved}],
             snap' \in [Runs \cup Controls -> Snapshot \cup {NotSaved}],
             paused' \in [Runs -> BOOLEAN],
             woken' \in [Runs -> BOOLEAN],
             cancelled' \in [Runs -> BOOLEAN],
             UNCHANGED <<policy, permitted, pc, controls, up, crashes>>
      PROVE  TypeInv'
  <2>1. TypeOK'
    BY <1>1, <1>2 DEF TypeOK, RunRecord, CtlRecord
  <2>2. ActsInRange'
    BY <1>1, <1>2 DEF ActsInRange
  <2>3. QED
    BY <1>2, <2>1, <2>2 DEF TypeInv
<1>3. ASSUME NEW r \in Runs, Find(k, r) PROVE TypeInv'
  <2> DEFINE new == IF r \in controls THEN [phase |-> "found", run |-> r] ELSE Done
  <2>1. new \in CtlRecord /\ (new.phase \notin {"new", "done"} => new.run \in Runs)
    BY DEF Done, CtlRecord, CtlPhase
  <2>2. ctl' = [ctl EXCEPT ![k] = new]
    BY <1>3 DEF Find
  <2> HIDE DEF new
  <2>3. ctl' \in [Controls -> CtlRecord] /\ ControlsFit'
    BY <1>1, <2>1, <2>2 DEF ControlsFit
  <2>4. QED
    BY <1>1, <1>2, <1>3, <2>3 DEF Find, TypeOK
<1>4. CASE Pause(k) \/ Stop(k) \/ Unpause(k) \/ Cancel(k)
  <2>1. PICK from, to \in CtlPhase : Step(k, from, to) /\ from \notin {"new", "done"}
    BY <1>4 DEF Pause, Stop, Unpause, Cancel, CtlPhase
  <2>2. ctl' \in [Controls -> CtlRecord] /\ ControlsFit'
    BY <2>1, MoveType
  <2>3. QED
    BY <1>1, <1>2, <1>4, <2>2 DEF Pause, Stop, Unpause, Cancel, TypeOK
<1>5. CASE Resume(k)
  <2>1. PICK from, to \in CtlPhase : Step(k, from, to) /\ from \notin {"new", "done"}
    BY <1>5 DEF Resume, CtlPhase
  <2>2. ctl' \in [Controls -> CtlRecord] /\ ControlsFit' /\ ctl[k].run \in Runs
    BY <2>1, MoveType
  <2>3. QED
    BY <1>1, <1>2, <1>5, <2>2 DEF Resume, TypeOK
<1>6. ASSUME NEW from \in CtlPhase \ {"new", "done"}, NEW next \in Status, NEW same \in CtlPhase,
             NEW saving \in CtlPhase, NEW refused \in CtlPhase,
             Change(k, from, next, same, saving, refused)
      PROVE  TypeInv'
  <2>1. PICK to \in CtlPhase : Step(k, from, to)
    BY <1>6 DEF Change
  <2>2. ctl' \in [Controls -> CtlRecord] /\ ControlsFit' /\ ctl[k].run \in Runs
    BY <2>1, MoveType
  <2>3. /\ run' \in [Runs -> RunRecord]
        /\ snap' \in [Runs \cup Controls -> Snapshot \cup {NotSaved}]
        /\ \A s \in Runs : run'[s].steps = run[s].steps
    <3>1. CASE Transition(k, ctl[k].run, next)
      BY <1>1, <2>2, <3>1, TransitionType
    <3>2. CASE UNCHANGED <<run, snap>>
      BY <1>1, <3>2 DEF TypeOK
    <3>3. QED
      BY <1>6, <3>1, <3>2 DEF Change
  <2>4. QED
    BY <1>1, <1>2, <1>6, <2>2, <2>3 DEF Change, TypeOK
<1>7. ASSUME NEW from \in CtlPhase \ {"new", "done"}, NEW saved \in CtlPhase,
             NEW failed \in CtlPhase, NEW ok, Save(k, from, saved, failed, ok)
      PROVE  TypeInv'
  <2>1. PICK to \in CtlPhase : Step(k, from, to)
    BY <1>7 DEF Save
  <2>2. ctl' \in [Controls -> CtlRecord] /\ ControlsFit'
    BY <2>1, MoveType
  <2>3. Stored(k, ctl[k].run, ok)
    BY <1>7 DEF Save
  <2>4. /\ db' \in [Runs -> Snapshot \cup {NotSaved}]
        /\ snap' \in [Runs \cup Controls -> Snapshot \cup {NotSaved}]
    BY <1>1, <2>3, StoredType
  <2>5. UNCHANGED <<policy, permitted, run, pc, controls, paused, woken, cancelled, up, crashes>>
    BY <1>7 DEF Save
  <2>6. QED
    BY <1>1, <1>2, <2>2, <2>4, <2>5 DEF TypeOK
<1>8. CASE \/ Change(k, "pausing", "paused", "done", "pauseSaving", "unpausing")
           \/ Change(k, "resuming", "running", "done", "resumeSaving", "done")
           \/ Change(k, "stopping", "stopped", "cancelling", "stopSaving", "done")
  <2>1. /\ {"pausing", "resuming", "stopping"} \subseteq CtlPhase \ {"new", "done"}
        /\ {"done", "cancelling", "pauseSaving", "resumeSaving", "stopSaving",
            "unpausing"} \subseteq CtlPhase
        /\ {"paused", "running", "stopped"} \subseteq Status
    BY DEF CtlPhase, Status
  <2>2. QED
    BY <1>6, <1>8, <2>1
<1>9. ASSUME NEW ok \in Outcomes,
             \/ Save(k, "pauseSaving", "done", "unpausing", ok)
             \/ Save(k, "resumeSaving", "done", "done", ok)
             \/ Save(k, "stopSaving", "cancelling", "done", ok)
      PROVE  TypeInv'
  BY <1>7, <1>9 DEF CtlPhase
<1>10. QED
  BY <1>3, <1>4, <1>5, <1>8, <1>9 DEF ControlStep

\* Changes of tasks, crashes and the recovery keep the types.
LEMMA OtherStepType ==
  ASSUME TypeInv,
         \/ \E t \in Tasks, p \in {"skip", "allow"} : SaveTask(t, p)
         \/ \E t \in Tasks : DeleteTask(t)
         \/ Crash \/ Recover
  PROVE  TypeInv'
<1> USE DEF TypeInv, memory
<1>1. CASE \/ \E t \in Tasks, p \in {"skip", "allow"} : SaveTask(t, p)
           \/ \E t \in Tasks : DeleteTask(t)
  BY <1>1 DEF SaveTask, Readers, DeleteTask, TypeOK, Policy, ControlsFit, ActsInRange
<1>2. CASE Crash
  <2>1. NoRunYet \in RunRecord
    BY RunsAssumption DEF NoRunYet, RunRecord, Policy, Status
  <2>2. run' \in [Runs -> RunRecord]
    BY <1>2, <2>1 DEF Crash
  <2>3. ctl' \in [Controls -> CtlRecord]
    BY <1>2 DEF Crash, TypeOK, CtlRecord, Done, CtlPhase
  <2>4. crashes' \in 0 .. MaxCrashes
    BY <1>2, RunsAssumption DEF Crash, TypeOK
  <2>5. pc' \in [Runs -> RunPhase]
    BY <1>2 DEF Crash, RunPhase
  <2>6. ControlsFit' /\ ActsInRange'
    BY <1>2 DEF Crash, ControlsFit, ActsInRange, Done
  <2>7. QED
    BY <1>2, <2>2, <2>3, <2>4, <2>5, <2>6 DEF Crash, TypeOK, RunRecord, CtlRecord
<1>3. CASE Recover
  <2>1. \A rows \in SUBSET Rows : Recovered(rows) \in [Runs -> Snapshot \cup {NotSaved}]
    <3> SUFFICES ASSUME NEW rows \in SUBSET Rows, NEW r \in Runs
                 PROVE  Recovered(rows)[r] \in Snapshot \cup {NotSaved}
      BY DEF Recovered
    <3>1. CASE r \in rows
      <4>1. db[r] \in Snapshot
        BY <3>1 DEF Rows, TypeOK
      <4>2. [db[r] EXCEPT !.status = "failed"] \in Snapshot
        BY <4>1 DEF Snapshot, Status
      <4>3. QED
        BY <4>1, <4>2 DEF Recovered
    <3>2. CASE r \notin rows
      BY <3>2 DEF Recovered, TypeOK
    <3>3. QED
      BY <3>1, <3>2
  <2>2. db' \in [Runs -> Snapshot \cup {NotSaved}]
    BY <1>3, <2>1 DEF Recover
  <2>3. QED
    BY <1>3, <2>2 DEF Recover, TypeOK, ControlsFit, ActsInRange
<1>4. QED
  BY <1>1, <1>2, <1>3

\* Every step keeps the types.
LEMMA StepType == TypeInv /\ [Next]_vars => TypeInv'
<1> SUFFICES ASSUME TypeInv, [Next]_vars PROVE TypeInv'
  OBVIOUS
<1>1. CASE UNCHANGED vars
  BY <1>1 DEF vars, memory, TypeInv, TypeOK, ControlsFit, ActsInRange
<1>2. CASE Next
  BY <1>2, RunStepType, ControlStepType, OtherStepType DEF Next
<1>3. QED
  BY <1>1, <1>2

\* The initial state is well typed.
LEMMA InitType == Init => TypeInv
<1> SUFFICES ASSUME Init PROVE TypeInv
  OBVIOUS
<1>1. run \in [Runs -> RunRecord]
  BY RunsAssumption DEF Init, NoRunYet, RunRecord, Policy, Status
<1>2. ctl \in [Controls -> CtlRecord] /\ ControlsFit
  BY DEF Init, NoControlYet, CtlRecord, CtlPhase, ControlsFit
<1>3. pc \in [Runs -> RunPhase] /\ ActsInRange
  BY DEF Init, RunPhase, ActsInRange
<1>4. crashes \in 0 .. MaxCrashes
  BY RunsAssumption DEF Init
<1>5. QED
  BY <1>1, <1>2, <1>3, <1>4 DEF Init, TypeInv, TypeOK, RunRecord, CtlRecord, Policy

-----------------------------------------------------------------------------
(* The control map *)

\* No step takes an executing run out of the map.
LEMMA StepAlive == TypeInv /\ AliveIsControllable /\ [Next]_vars => AliveIsControllable'
<1> SUFFICES ASSUME TypeInv, AliveIsControllable, [Next]_vars PROVE AliveIsControllable'
  OBVIOUS
<1> USE DEF AliveIsControllable, Alive, memory, Go, TypeInv, TypeOK
<1>1. ASSUME NEW r \in Runs, RunStep(r) PROVE AliveIsControllable'
  <2>1. CASE \E t \in Tasks : ReadTask(r, t)
    BY <2>1 DEF ReadTask
  <2>2. CASE Skip(r) \/ Register(r) \/ Drop(r) \/ Leave(r)
    BY <2>2 DEF Skip, Register, Drop, Leave
  <2>3. CASE \E ok \in Outcomes : \/ Create(r, ok) \/ StartSaved(r, ok)
                                  \/ ProgressSaved(r, ok) \/ EndSaved(r, ok)
    BY <2>3 DEF Create, StartSaved, ProgressSaved, EndSaved
  <2>4. CASE Start(r)
    BY <2>4 DEF Start
  <2>5. CASE LoopEnds(r) \/ Wait(r) \/ Unblock(r) \/ ActionSucceeds(r) \/ ActionFails(r)
    BY <2>5 DEF LoopEnds, Wait, Unblock, ActionSucceeds, ActionFails
  <2>6. CASE \/ End(r, "ending.stopped", "stopped") \/ End(r, "ending.failed", "failed")
             \/ End(r, "ending.succeeded", "succeeded")
    BY <2>6 DEF End
  <2>7. QED
    BY <1>1, <2>1, <2>2, <2>3, <2>4, <2>5, <2>6 DEF RunStep
<1>2. ASSUME NEW k \in Controls, ControlStep(k) PROVE AliveIsControllable'
  <2>1. UNCHANGED <<pc, controls>>
    BY <1>2 DEF ControlStep, Find, Pause, Resume, Stop, Change, Save, Unpause, Cancel
  <2>2. QED
    BY <2>1
<1>3. CASE Crash
  BY <1>3 DEF Crash
<1>4. CASE \/ \E t \in Tasks, p \in {"skip", "allow"} : SaveTask(t, p)
           \/ \E t \in Tasks : DeleteTask(t)
           \/ Recover \/ UNCHANGED vars
  BY <1>4 DEF SaveTask, DeleteTask, Recover, vars
<1>5. QED
  BY <1>1, <1>2, <1>3, <1>4 DEF Next

\* Only Register puts a run into the map.
LEMMA OnlyRegisterAdds ==
  ASSUME TypeInv, [Next]_vars, NEW r \in Runs, r \in controls', r \notin controls
  PROVE  Register(r)
<1> USE DEF memory
<1>1. ASSUME NEW s \in Runs, RunStep(s) PROVE Register(s) \/ controls' \subseteq controls
  BY <1>1 DEF RunStep, ReadTask, Skip, Create, Drop, Start, StartSaved, LoopEnds, Wait,
              Unblock, ActionSucceeds, ActionFails, ProgressSaved, End, EndSaved, Leave
<1>2. ASSUME NEW s \in Runs, Register(s) PROVE controls' = controls \cup {s}
  BY <1>2 DEF Register
<1>3. ASSUME NEW k \in Controls, ControlStep(k) PROVE UNCHANGED controls
  BY <1>3 DEF ControlStep, Find, Pause, Resume, Stop, Change, Save, Unpause, Cancel
<1>4. CASE Crash
  BY <1>4 DEF Crash
<1>5. CASE \/ \E t \in Tasks, p \in {"skip", "allow"} : SaveTask(t, p)
           \/ \E t \in Tasks : DeleteTask(t)
           \/ Recover \/ UNCHANGED vars
  BY <1>5 DEF SaveTask, DeleteTask, Recover, vars
<1>6. QED
  BY <1>1, <1>2, <1>3, <1>4, <1>5 DEF Next

\* A request that has not been permitted to overlap has read the policy "skip".
PermitsFit == \A r \in Runs : pc[r] = "read" /\ r \notin permitted => run[r].policy = "skip"

\* It stays so: a permission ends with the request, and only ReadTask reads a policy.
LEMMA StepPermits == TypeInv /\ PermitsFit /\ [Next]_vars => PermitsFit'
<1> SUFFICES ASSUME TypeInv, PermitsFit, [Next]_vars PROVE PermitsFit'
  OBVIOUS
<1> USE DEF memory, Go
<1>1. /\ pc \in [Runs -> RunPhase] /\ run \in [Runs -> RunRecord]
      /\ policy \in [Tasks -> Policy]
  BY DEF TypeInv, TypeOK, RunRecord
<1>2. ASSUME NEW r \in Runs, \A s \in Runs \ {r} : pc'[s] = pc[s] /\ run'[s] = run[s],
             pc'[r] # "read", permitted \ {r} \subseteq permitted'
      PROVE  PermitsFit'
  BY <1>2 DEF PermitsFit
<1>3. ASSUME NEW r \in Runs, RunStep(r) PROVE PermitsFit'
  <2>1. ASSUME NEW t \in Tasks, ReadTask(r, t) PROVE PermitsFit'
    <3>1. run[r] \in RunRecord /\ policy[t] \in Policy
      BY <1>1
    <3>2. run'[r].policy = policy[t] /\ \A s \in Runs \ {r} : run'[s] = run[s]
      BY <1>1, <2>1, <3>1 DEF ReadTask, RunRecord
    <3>3. QED
      BY <1>1, <2>1, <3>1, <3>2 DEF ReadTask, PermitsFit, Policy
  <2>2. CASE Skip(r) \/ Register(r) \/ Drop(r) \/ Leave(r)
    BY <1>1, <1>2, <2>2 DEF Skip, Register, Drop, Leave
  <2>3. CASE \E ok \in Outcomes : \/ Create(r, ok) \/ StartSaved(r, ok)
                                  \/ ProgressSaved(r, ok) \/ EndSaved(r, ok)
    BY <1>1, <1>2, <2>3 DEF Create, StartSaved, ProgressSaved, EndSaved
  <2>4. CASE Start(r)
    BY <1>1, <1>2, <2>4 DEF Start, Transition
  <2>5. CASE LoopEnds(r) \/ Wait(r) \/ Unblock(r) \/ ActionSucceeds(r) \/ ActionFails(r)
    BY <1>1, <1>2, <2>5 DEF LoopEnds, Wait, Unblock, ActionSucceeds, ActionFails
  <2>6. CASE \/ End(r, "ending.stopped", "stopped") \/ End(r, "ending.failed", "failed")
             \/ End(r, "ending.succeeded", "succeeded")
    BY <1>1, <1>2, <2>6 DEF End, Transition
  <2>7. QED
    BY <1>3, <2>1, <2>2, <2>3, <2>4, <2>5, <2>6 DEF RunStep
<1>4. ASSUME NEW k \in Controls, ControlStep(k) PROVE PermitsFit'
  <2>1. UNCHANGED <<pc, permitted>>
    BY <1>4 DEF ControlStep, Find, Pause, Resume, Stop, Change, Save, Unpause, Cancel
  <2>2. UNCHANGED run \/ \E r, x : run' = [run EXCEPT ![r].status = x]
    BY <1>4 DEF ControlStep, Find, Pause, Resume, Stop, Change, Save, Unpause, Cancel, Transition
  <2>3. \A r \in Runs : run[r] \in RunRecord
    BY <1>1
  <2>4. \A r \in Runs : run'[r].policy = run[r].policy
    BY <1>1, <2>2, <2>3 DEF RunRecord
  <2>5. QED
    BY <2>1, <2>4 DEF PermitsFit
<1>5. CASE Crash
  BY <1>5 DEF Crash, PermitsFit
<1>6. CASE \/ \E t \in Tasks, p \in {"skip", "allow"} : SaveTask(t, p)
           \/ \E t \in Tasks : DeleteTask(t)
           \/ Recover \/ UNCHANGED vars
  BY <1>6 DEF SaveTask, DeleteTask, Recover, vars, PermitsFit
<1>7. QED
  BY <1>3, <1>4, <1>5, <1>6 DEF Next

\* A run that registers without a permission finds no executing run of its task.
LEMMA StepSkip ==
  ASSUME TypeInv, AliveIsControllable, PermitsFit, [Next]_vars, NEW r \in Runs,
         r \in controls' \ controls, r \notin permitted
  PROVE  \A s \in Runs : Alive(s) => run[s].task # run[r].task
<1>1. Register(r)
  BY OnlyRegisterAdds
<1>2. run[r].policy = "skip"
  BY <1>1 DEF Register, Go, PermitsFit
<1>3. ~TaskBusy(run[r].task)
  BY <1>1, <1>2 DEF Register
<1>4. QED
  BY <1>3 DEF TaskBusy, AliveIsControllable

-----------------------------------------------------------------------------
(* Success *)

\* SaveRun of a complete snapshot leaves the rows and the snapshots complete.
LEMMA StoredComplete ==
  ASSUME TypeInv, ShotsComplete, SuccessIsComplete,
         NEW p \in Runs \cup Controls, NEW r, NEW ok, Stored(p, r, ok)
  PROVE  ShotsComplete' /\ SuccessIsComplete'
BY DEF TypeInv, TypeOK, ShotsComplete, SuccessIsComplete, Stored, NotSaved

\* A transition to another status, or of a run that is complete, leaves the runs
\* and the snapshots complete.
LEMMA TransitionComplete ==
  ASSUME TypeInv, RunsComplete, ShotsComplete,
         NEW p \in Runs \cup Controls, NEW r \in Runs, NEW next \in Status,
         next = "succeeded" => run[r].steps = TotalSteps, Transition(p, r, next)
  PROVE  /\ RunsComplete' /\ ShotsComplete'
         /\ \A s \in Runs : run'[s].steps = run[s].steps
<1>1. run \in [Runs -> RunRecord] /\ run' = [run EXCEPT ![r].status = next]
  BY DEF TypeInv, TypeOK, RunRecord, Transition
<1>2. /\ \A s \in Runs : run'[s].steps = run[s].steps
      /\ run'[r].status = next
      /\ \A s \in Runs \ {r} : run'[s] = run[s]
  BY <1>1, StatusChanged
<1>3. RunsComplete'
  BY <1>2 DEF RunsComplete
<1>4. ShotsComplete'
  BY DEF TypeInv, TypeOK, Transition, ShotsComplete
<1>5. QED
  BY <1>2, <1>3, <1>4

\* No step of a run's request or goroutine makes an incomplete run a success.
LEMMA RunStepSuccess ==
  ASSUME SuccessInv, TypeInv', NEW r \in Runs, RunStep(r)
  PROVE  SuccessInv'
<1> USE DEF Go, memory
<1>1. /\ TypeInv /\ RunsComplete /\ EndsComplete /\ ShotsComplete /\ SuccessIsComplete
      /\ pc \in [Runs -> RunPhase]
      /\ run \in [Runs -> RunRecord]
  BY DEF SuccessInv, TypeInv, TypeOK, RunRecord
<1>2. ASSUME UNCHANGED <<db, run, snap>>, \A s \in Runs \ {r} : pc'[s] = pc[s],
             pc'[r] = "ending.succeeded" => run[r].steps = TotalSteps
      PROVE  SuccessInv'
  BY <1>1, <1>2 DEF SuccessInv, RunsComplete, EndsComplete, ShotsComplete, SuccessIsComplete
<1>3. ASSUME NEW t \in Tasks, ReadTask(r, t) PROVE SuccessInv'
  <2>1. policy[t] \in Policy
    BY <1>1 DEF TypeInv, TypeOK
  <2>2. \A s \in Runs : run'[s].steps = run[s].steps /\ run'[s].status = run[s].status
    BY <1>1, <1>3, <2>1, TaskRead DEF ReadTask
  <2>3. RunsComplete' /\ EndsComplete'
    BY <1>1, <1>3, <2>2 DEF ReadTask, RunsComplete, EndsComplete
  <2>4. QED
    BY <1>1, <1>3, <2>3 DEF ReadTask, SuccessInv, ShotsComplete, SuccessIsComplete
<1>4. CASE Register(r)
  <2>1. ShotsComplete'
    BY <1>1, <1>4 DEF Register, ShotsComplete, RunsComplete, Shot, TypeInv, TypeOK
  <2>2. QED
    BY <1>1, <1>4, <2>1
       DEF Register, SuccessInv, RunsComplete, EndsComplete, SuccessIsComplete
<1>5. CASE Skip(r) \/ Drop(r) \/ LoopEnds(r) \/ ActionFails(r) \/ Leave(r)
  BY <1>1, <1>2, <1>5 DEF Skip, Drop, LoopEnds, ActionFails, Leave
<1>6. CASE Wait(r) \/ Unblock(r)
  BY <1>1, <1>2, <1>6 DEF Wait, Unblock
<1>7. ASSUME NEW ok \in Outcomes,
             Create(r, ok) \/ StartSaved(r, ok) \/ ProgressSaved(r, ok) \/ EndSaved(r, ok)
      PROVE  SuccessInv'
  <2>1. Stored(r, r, ok) /\ UNCHANGED run
    BY <1>7 DEF Create, StartSaved, ProgressSaved, EndSaved
  <2>2. ShotsComplete' /\ SuccessIsComplete'
    BY <1>1, <2>1, StoredComplete
  <2>3. RunsComplete' /\ EndsComplete'
    BY <1>1, <1>7, <2>1
       DEF Create, StartSaved, ProgressSaved, EndSaved, RunsComplete, EndsComplete
  <2>4. QED
    BY <2>2, <2>3 DEF SuccessInv
<1>8. ASSUME NEW from, NEW next \in Status, NEW to \in RunPhase \ {"ending.succeeded"},
             pc' = [pc EXCEPT ![r] = to], UNCHANGED db,
             next = "succeeded" => run[r].steps = TotalSteps, Transition(r, r, next)
      PROVE  SuccessInv'
  <2>1. /\ RunsComplete' /\ ShotsComplete'
        /\ \A s \in Runs : run'[s].steps = run[s].steps
    BY <1>1, <1>8, TransitionComplete
  <2>2. EndsComplete' /\ SuccessIsComplete'
    BY <1>1, <1>8, <2>1 DEF EndsComplete, SuccessIsComplete
  <2>3. QED
    BY <2>1, <2>2 DEF SuccessInv
<1>9. CASE Start(r)
  BY <1>1, <1>2, <1>8, <1>9 DEF Start, RunPhase, Status
<1>10. CASE ActionSucceeds(r)
  <2>1. run[r].steps < TotalSteps /\ run[r].steps \in 0 .. TotalSteps
    BY <1>1, <1>10 DEF ActionSucceeds, TypeInv, ActsInRange, RunRecord
  <2>2. run[r].status # "succeeded"
    BY <1>1, <2>1, RunsAssumption DEF RunsComplete
  <2>3. run'[r].status # "succeeded" /\ \A s \in Runs \ {r} : run'[s] = run[s]
    BY <1>1, <1>10, <2>1, <2>2, StepCounted DEF ActionSucceeds
  <2>4. RunsComplete' /\ EndsComplete'
    BY <1>1, <1>10, <2>3 DEF ActionSucceeds, RunsComplete, EndsComplete
  <2>5. ShotsComplete' /\ SuccessIsComplete'
    BY <1>1, <1>10, <2>2 DEF ActionSucceeds, ShotsComplete, SuccessIsComplete, TypeInv, TypeOK
  <2>6. QED
    BY <2>4, <2>5 DEF SuccessInv
<1>11. CASE \/ End(r, "ending.stopped", "stopped")
            \/ End(r, "ending.failed", "failed")
            \/ End(r, "ending.succeeded", "succeeded")
  <2>1. CASE UNCHANGED <<run, snap>>
    BY <1>1, <1>2, <1>11, <2>1 DEF End
  <2>2. CASE Transition(r, r, "stopped") \/ Transition(r, r, "failed")
    BY <1>1, <1>8, <1>11, <2>2 DEF End, RunPhase, Status
  <2>3. CASE End(r, "ending.succeeded", "succeeded") /\ Transition(r, r, "succeeded")
    BY <1>1, <1>8, <2>3 DEF End, EndsComplete, RunPhase, Status
  <2>4. QED
    BY <1>11, <2>1, <2>2, <2>3 DEF End
<1>12. QED
  BY <1>3, <1>4, <1>5, <1>6, <1>7, <1>9, <1>10, <1>11 DEF RunStep

\* No control request makes an incomplete run a success.
LEMMA ControlStepSuccess ==
  ASSUME SuccessInv, TypeInv', NEW k \in Controls, ControlStep(k)
  PROVE  SuccessInv'
<1>1. TypeInv /\ RunsComplete /\ EndsComplete /\ ShotsComplete /\ SuccessIsComplete
  BY DEF SuccessInv
<1>2. ASSUME UNCHANGED <<db, run, snap, pc>> PROVE SuccessInv'
  BY <1>1, <1>2 DEF SuccessInv, RunsComplete, EndsComplete, ShotsComplete, SuccessIsComplete
<1>3. ASSUME NEW from \in CtlPhase \ {"new", "done"}, NEW next \in Status \ {"succeeded"},
             NEW same, NEW saving, NEW refused, Change(k, from, next, same, saving, refused)
      PROVE  SuccessInv'
  <2>1. CASE Transition(k, ctl[k].run, next)
    <3>1. ctl[k].run \in Runs
      BY <1>1, <1>3 DEF Change, Step, TypeInv, ControlsFit
    <3>2. /\ RunsComplete' /\ ShotsComplete'
          /\ \A s \in Runs : run'[s].steps = run[s].steps
      BY <1>1, <2>1, <3>1, TransitionComplete
    <3>3. EndsComplete' /\ SuccessIsComplete'
      BY <1>1, <1>3, <3>2 DEF Change, EndsComplete, SuccessIsComplete
    <3>4. QED
      BY <3>2, <3>3 DEF SuccessInv
  <2>2. CASE UNCHANGED <<run, snap>>
    BY <1>2, <1>3, <2>2 DEF Change
  <2>3. QED
    BY <1>3, <2>1, <2>2 DEF Change
<1>4. ASSUME NEW from, NEW saved, NEW failed, NEW ok, Save(k, from, saved, failed, ok)
      PROVE  SuccessInv'
  <2>1. Stored(k, ctl[k].run, ok) /\ UNCHANGED <<run, pc>>
    BY <1>4 DEF Save
  <2>2. ShotsComplete' /\ SuccessIsComplete'
    BY <1>1, <2>1, StoredComplete
  <2>3. QED
    BY <1>1, <2>1, <2>2 DEF SuccessInv, RunsComplete, EndsComplete
<1>5. CASE \/ \E r \in Runs : Find(k, r)
           \/ Pause(k) \/ Resume(k) \/ Stop(k) \/ Unpause(k) \/ Cancel(k)
  BY <1>2, <1>5 DEF Find, Pause, Resume, Stop, Unpause, Cancel
<1>6. CASE \/ Change(k, "pausing", "paused", "done", "pauseSaving", "unpausing")
           \/ Change(k, "resuming", "running", "done", "resumeSaving", "done")
           \/ Change(k, "stopping", "stopped", "cancelling", "stopSaving", "done")
  BY <1>3, <1>6 DEF CtlPhase, Status
<1>7. QED
  BY <1>4, <1>5, <1>6 DEF ControlStep

\* No step at all does.
LEMMA StepSuccess == SuccessInv /\ [Next]_vars => SuccessInv'
<1> SUFFICES ASSUME SuccessInv, [Next]_vars PROVE SuccessInv'
  OBVIOUS
<1> USE DEF memory
<1>1. /\ TypeInv /\ RunsComplete /\ EndsComplete /\ ShotsComplete /\ SuccessIsComplete
      /\ TypeInv'
  BY StepType DEF SuccessInv
<1>2. CASE Crash
  <2>1. \A r \in Runs : run'[r].status = "queued" /\ pc'[r] \in {"new", "lost"}
    BY <1>2 DEF Crash, NoRunYet
  <2>2. \A p \in Runs \cup Controls : snap'[p].status = "none"
    BY <1>2 DEF Crash, NotSaved
  <2>3. QED
    BY <1>1, <1>2, <2>1, <2>2
       DEF Crash, SuccessInv, RunsComplete, EndsComplete, ShotsComplete, SuccessIsComplete
<1>3. CASE Recover
  <2>1. PICK rows \in SUBSET Rows : db' = Recovered(rows)
    BY <1>3 DEF Recover
  <2>2. ASSUME NEW r \in Runs, db'[r].status = "succeeded" PROVE db'[r] = db[r]
    <3>1. CASE r \in rows /\ db[r].status \in Active
      <4>1. db[r] \in Snapshot
        BY <1>1, <3>1, <2>1 DEF Rows, TypeInv, TypeOK
      <4>2. db'[r].status = "failed"
        BY <2>1, <3>1, <4>1 DEF Recovered, Snapshot
      <4>3. QED
        BY <2>2, <4>2
    <3>2. QED
      BY <2>1, <3>1 DEF Recovered
  <2>3. QED
    BY <1>1, <1>3, <2>2
       DEF Recover, SuccessInv, RunsComplete, EndsComplete, ShotsComplete, SuccessIsComplete
<1>4. CASE \/ \E t \in Tasks, p \in {"skip", "allow"} : SaveTask(t, p)
           \/ \E t \in Tasks : DeleteTask(t)
           \/ UNCHANGED vars
  BY <1>1, <1>4 DEF SaveTask, DeleteTask, vars, SuccessInv, RunsComplete, EndsComplete,
                    ShotsComplete, SuccessIsComplete
<1>5. QED
  BY <1>1, <1>2, <1>3, <1>4, RunStepSuccess, ControlStepSuccess DEF Next

-----------------------------------------------------------------------------
(* Runs of earlier processes *)

\* No step of a run or of a request touches the row of a lost run.
LEMMA RunStepLost ==
  ASSUME LostInv, NEW r \in Runs, RunStep(r)
  PROVE  (ListedAlive /\ ControlsAlive /\ LostRunsAreFinal)'
<1> USE DEF Go, memory
<1>1. /\ TypeInv /\ ListedAlive /\ ControlsAlive /\ LostRunsAreFinal
      /\ pc \in [Runs -> RunPhase] /\ controls \subseteq Runs
      /\ db \in [Runs -> Snapshot \cup {NotSaved}]
  BY DEF LostInv, TypeInv, TypeOK
<1>2. /\ pc'[r] # "lost" /\ \A s \in Runs \ {r} : pc'[s] = pc[s]
      /\ \A s \in Runs \ {r} : db'[s] = db[s]
      /\ controls' \subseteq controls \cup {r}
      /\ UNCHANGED <<ctl, up>>
  <2> USE DEF Stored
  <2>1. CASE \E t \in Tasks : ReadTask(r, t)
    BY <1>1, <2>1 DEF ReadTask
  <2>2. CASE Skip(r) \/ Register(r) \/ Drop(r) \/ Leave(r)
    BY <1>1, <2>2 DEF Skip, Register, Drop, Leave
  <2>3. CASE \E ok \in Outcomes : \/ Create(r, ok) \/ StartSaved(r, ok)
                                  \/ ProgressSaved(r, ok) \/ EndSaved(r, ok)
    BY <1>1, <2>3 DEF Create, StartSaved, ProgressSaved, EndSaved
  <2>4. CASE Start(r)
    BY <1>1, <2>4 DEF Start
  <2>5. CASE LoopEnds(r) \/ Wait(r) \/ Unblock(r) \/ ActionSucceeds(r) \/ ActionFails(r)
    BY <1>1, <2>5 DEF LoopEnds, Wait, Unblock, ActionSucceeds, ActionFails
  <2>6. CASE \/ End(r, "ending.stopped", "stopped") \/ End(r, "ending.failed", "failed")
             \/ End(r, "ending.succeeded", "succeeded")
    BY <1>1, <2>6 DEF End
  <2>7. QED
    BY <2>1, <2>2, <2>3, <2>4, <2>5, <2>6 DEF RunStep
<1>3. ListedAlive'
  BY <1>1, <1>2 DEF ListedAlive
<1>4. ControlsAlive'
  BY <1>1, <1>2 DEF ControlsAlive, TypeInv, ControlsFit
<1>5. LostRunsAreFinal'
  BY <1>1, <1>2 DEF LostRunsAreFinal
<1>6. QED
  BY <1>3, <1>4, <1>5

\* The same of a control request: it has found its run in the map.
LEMMA ControlStepLost ==
  ASSUME LostInv, NEW k \in Controls, ControlStep(k)
  PROVE  (ListedAlive /\ ControlsAlive /\ LostRunsAreFinal)'
<1>1. /\ TypeInv /\ ListedAlive /\ ControlsAlive /\ LostRunsAreFinal
      /\ db \in [Runs -> Snapshot \cup {NotSaved}]
      /\ ctl \in [Controls -> CtlRecord]
  BY DEF LostInv, TypeInv, TypeOK, CtlRecord
<1>2. UNCHANGED <<pc, controls, up>>
  BY DEF ControlStep, Find, Pause, Resume, Stop, Change, Save, Unpause, Cancel
<1>3. /\ \A j \in Controls \ {k} : ctl'[j] = ctl[j]
      /\ \/ ctl'[k].phase \in {"new", "done"}
         \/ ctl'[k].run = ctl[k].run /\ ctl[k].phase \notin {"new", "done"}
         \/ ctl'[k].run \in controls
  <2>1. ASSUME NEW r \in Runs, Find(k, r)
        PROVE  /\ \A j \in Controls \ {k} : ctl'[j] = ctl[j]
               /\ ctl'[k].phase \in {"new", "done"} \/ ctl'[k].run \in controls
    BY <1>1, <2>1 DEF Find, Done, CtlRecord
  <2>2. ASSUME NEW from, NEW to, Step(k, from, to), from \notin {"new", "done"}
        PROVE  /\ \A j \in Controls \ {k} : ctl'[j] = ctl[j]
               /\ \/ ctl'[k].phase \in {"new", "done"}
                  \/ ctl'[k].run = ctl[k].run /\ ctl[k].phase \notin {"new", "done"}
    <3>1. ctl[k] \in CtlRecord
      BY <1>1
    <3>2. QED
      BY <1>1, <2>2, <3>1 DEF Step, Done, CtlRecord
  <2>3. \/ \E r \in Runs : Find(k, r)
        \/ \E from, to : Step(k, from, to) /\ from \notin {"new", "done"}
    BY DEF ControlStep, Pause, Resume, Stop, Change, Save, Unpause, Cancel
  <2>4. QED
    BY <2>1, <2>2, <2>3
<1>4. ListedAlive' /\ ControlsAlive'
  BY <1>1, <1>2, <1>3 DEF ListedAlive, ControlsAlive
<1>5. UNCHANGED db \/ /\ \A s \in Runs \ {ctl[k].run} : db'[s] = db[s]
                      /\ ctl[k].phase \notin {"new", "done"}
  BY <1>1 DEF ControlStep, Find, Pause, Resume, Stop, Change, Save, Unpause, Cancel,
              Stored, Step
<1>6. LostRunsAreFinal'
  BY <1>1, <1>2, <1>5 DEF LostRunsAreFinal, ControlsAlive
<1>7. QED
  BY <1>4, <1>6

\* No step leaves a run of an earlier process active once the service is up.
LEMMA StepLost == LostInv /\ [Next]_vars => LostInv'
<1> SUFFICES ASSUME LostInv, [Next]_vars PROVE LostInv'
  OBVIOUS
<1> USE DEF memory
<1>1. /\ TypeInv /\ ListedAlive /\ ControlsAlive /\ LostRunsAreFinal
      /\ TypeInv'
  BY StepType DEF LostInv
<1>2. SUFFICES (ListedAlive /\ ControlsAlive /\ LostRunsAreFinal)'
  BY <1>1 DEF LostInv
<1>3. CASE Crash
  <2>1. controls' = {} /\ ~up' /\ \A k \in Controls : ctl'[k].phase \in {"new", "done"}
    BY <1>3 DEF Crash, Done
  <2>2. QED
    BY <2>1 DEF ListedAlive, ControlsAlive, LostRunsAreFinal
<1>4. CASE Recover
  <2>1. ListedAlive' /\ ControlsAlive'
    BY <1>1, <1>4 DEF Recover, ListedAlive, ControlsAlive
  <2>2. ASSUME RecoverLimit >= Cardinality(Runs), NEW r \in Runs
        PROVE  db'[r].status \notin Active
    <3>1. PICK rows \in SUBSET Rows :
            /\ rows = Rows \/ Cardinality(rows) = RecoverLimit
            /\ db' = Recovered(rows)
      BY <1>4 DEF Recover
    <3>2. rows = Rows
      <4>1. CASE Cardinality(rows) = RecoverLimit
        <5>1. rows \subseteq Runs /\ Rows \subseteq Runs /\ IsFiniteSet(Runs)
          BY RunsAssumption DEF Rows
        <5>2. Cardinality(rows) \in Nat /\ Cardinality(Runs) \in Nat
          BY <5>1, FS_Subset, FS_CardinalityType
        <5>3. Cardinality(rows) <= Cardinality(Runs)
              /\ (Cardinality(rows) = Cardinality(Runs) => rows = Runs)
          BY <5>1, FS_Subset
        <5>4. rows = Runs
          BY <2>2, <4>1, <5>2, <5>3, RunsAssumption
        <5>5. QED
          BY <5>1, <5>4
      <4>2. QED
        BY <3>1, <4>1
    <3>3. CASE r \in Rows /\ db[r].status \in Active
      <4>1. db[r] \in Snapshot
        BY <1>1, <3>3 DEF Rows, TypeInv, TypeOK
      <4>2. db'[r].status = "failed"
        BY <3>1, <3>2, <3>3, <4>1 DEF Recovered, Snapshot
      <4>3. QED
        BY <4>2 DEF Active
    <3>4. CASE r \notin Rows
      <4>1. db'[r] = NotSaved
        BY <3>1, <3>2, <3>4 DEF Recovered, Rows
      <4>2. QED
        BY <4>1 DEF NotSaved, Active
    <3>5. CASE db[r].status \notin Active
      BY <3>1, <3>5 DEF Recovered
    <3>6. QED
      BY <3>3, <3>4, <3>5
  <2>3. QED
    BY <2>1, <2>2 DEF LostRunsAreFinal
<1>5. CASE \/ \E t \in Tasks, p \in {"skip", "allow"} : SaveTask(t, p)
           \/ \E t \in Tasks : DeleteTask(t)
           \/ UNCHANGED vars
  BY <1>1, <1>5 DEF SaveTask, DeleteTask, vars, ListedAlive, ControlsAlive, LostRunsAreFinal
<1>6. QED
  BY <1>3, <1>4, <1>5, RunStepLost, ControlStepLost DEF Next

-----------------------------------------------------------------------------
(* Theorems of the specification *)

\* The typing invariant holds in every reachable state.
THEOREM TypeInvariant == Spec => []TypeInv
BY InitType, StepType, PTL DEF Spec

\* Every reachable state is well typed.
THEOREM RunsTypeCorrect == Spec => []TypeOK
BY TypeInvariant, PTL DEF TypeInv

\* An executing run is always in the control map: every request can reach it.
THEOREM AliveAlwaysControllable == Spec => []AliveIsControllable
<1>1. Init => AliveIsControllable
  BY DEF Init, AliveIsControllable, Alive
<1>2. QED
  BY <1>1, TypeInvariant, StepAlive, PTL DEF Spec

\* A run starts beside another one of its task only when the task, as it is stored, has
\* allowed it since the request read it.
THEOREM SkipAlwaysStartsAlone == Spec => SkipStartsAlone
<1>1. Init => PermitsFit
  BY DEF Init, PermitsFit
<1>2. TypeInv /\ AliveIsControllable /\ PermitsFit /\ [Next]_vars =>
        [\A r \in Runs : r \in controls' \ controls /\ r \notin permitted =>
           \A s \in Runs : Alive(s) => run[s].task # run[r].task]_vars
  BY StepSkip
<1>3. QED
  BY <1>1, <1>2, TypeInvariant, AliveAlwaysControllable, StepPermits, PTL
     DEF Spec, SkipStartsAlone

\* No row ever reports a success with actions left.
THEOREM SuccessAlwaysComplete == Spec => []SuccessIsComplete
<1>1. Init => SuccessInv
  BY InitType DEF Init, NoRunYet, NotSaved, SuccessInv, RunsComplete, EndsComplete,
                  ShotsComplete, SuccessIsComplete
<1>2. SuccessInv => SuccessIsComplete
  BY DEF SuccessInv
<1>3. QED
  BY <1>1, <1>2, StepSuccess, PTL DEF Spec

\* Once the service is up, no run of an earlier process is reported as active.
THEOREM LostRunsAlwaysFinal == Spec => []LostRunsAreFinal
<1>1. Init => LostInv
  BY InitType DEF Init, NoControlYet, LostInv, ListedAlive, ControlsAlive, LostRunsAreFinal
<1>2. LostInv => LostRunsAreFinal
  BY DEF LostInv
<1>3. QED
  BY <1>1, <1>2, StepLost, PTL DEF Spec
=============================================================================
