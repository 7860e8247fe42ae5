----------------------------- MODULE ScrcpyServers -----------------------------
(***************************************************************************)
(* The long-running `adb shell app_process` children of the screen sessions  *)
(* (AdbProcessManager of adb.rs).  A child is spawned before the map is       *)
(* locked; the child it replaces and the child a stop takes out are killed    *)
(* and waited for while the lock is held.                                    *)
(***************************************************************************)
EXTENDS CoreCalls

CONSTANTS
  Screens, \* session ids of adb.scrcpy.start
  Procs    \* adb processes (bound: processes spawned)

ASSUME ServersAssumption == None \notin Procs /\ None \notin Screens

VARIABLES
  proc,     \* what each process does; "reaped" when Core has waited for it
  owner,    \* history: the session a process was spawned for
  children, \* AdbProcessManager.children
  guard,    \* the request that holds the lock across a wait
  stray,    \* history: the processes whose kill failed
  faults    \* kills that failed

servers == <<proc, owner, children, guard, stray, faults>>

ProcState == {"unborn", "alive", "killed", "exited", "reaped"}
Runs(p) == proc[p] \in {"alive", "killed"}

ServersType ==
  /\ proc \in [Procs -> ProcState]
  /\ owner \in [Procs -> Screens \cup {None}]
  /\ children \in [Screens -> Procs \cup {None}]
  /\ guard \in Callers \cup {None}
  /\ stray \subseteq Procs
  /\ faults \in 0 .. MaxFaults

ServersInit ==
  /\ proc = [p \in Procs |-> "unborn"]
  /\ owner = [p \in Procs |-> None]
  /\ children = [s \in Screens |-> None]
  /\ guard = None /\ stray = {} /\ faults = 0

\* The process ends, by itself or because it was killed.
Exit(p) ==
  /\ Runs(p)
  /\ proc' = [proc EXCEPT ![p] = "exited"]
  /\ UNCHANGED <<owner, children, guard, stray, faults>>

\* Child::kill: an exited process counts as killed; on a running one it may fail.
Kill(p) ==
  \/ /\ proc' = [proc EXCEPT ![p] = IF @ = "alive" THEN "killed" ELSE @]
     /\ UNCHANGED <<stray, faults>>
  \/ /\ proc[p] = "alive" /\ faults < MaxFaults
     /\ faults' = faults + 1 /\ stray' = stray \cup {p}
     /\ UNCHANGED proc

-----------------------------------------------------------------------------
(* adb.scrcpy.start *)

Spawn(c) ==
  /\ At(c, "start", "begin")
  /\ \E p \in Procs :
       /\ proc[p] = "unborn"
       /\ proc' = [proc EXCEPT ![p] = "alive"]
       /\ owner' = [owner EXCEPT ![p] = call[c].arg]
       /\ To(c, "spawned", p)
  /\ UNCHANGED <<children, guard, stray, faults>>

\* Mutant: the child that is replaced is dropped, which does not end it.
InsertOver(c) ==
  /\ At(c, "start", "spawned") /\ guard = None
  /\ children' = [children EXCEPT ![call[c].arg] = call[c].got]
  /\ Answered(c)
  /\ UNCHANGED <<proc, owner, guard, stray, faults>>

\* The child enters the map; the one it replaces is killed and waited for, also when
\* the kill failed.
Insert(c) ==
  LET previous == children[call[c].arg]
  IN  /\ At(c, "start", "spawned") /\ guard = None
      /\ children' = [children EXCEPT ![call[c].arg] = call[c].got]
      /\ IF previous = None
         THEN Answered(c) /\ UNCHANGED <<proc, guard, stray, faults>>
         ELSE Kill(previous) /\ guard' = c /\ To(c, "reaping", previous)
      /\ UNCHANGED owner

\* Child::wait returns and the lock is released.
Reap(c) ==
  /\ call[c].at = "reaping" /\ core = "running" /\ proc[call[c].got] = "exited"
  /\ proc' = [proc EXCEPT ![call[c].got] = "reaped"]
  /\ guard' = None
  /\ Answered(c)
  /\ UNCHANGED <<owner, children, stray, faults>>

-----------------------------------------------------------------------------
(* adb.scrcpy.stop *)

\* Mutant: the child is killed but not waited for.
StopWithoutWait(c) ==
  LET child == children[call[c].arg]
  IN  /\ At(c, "stop", "begin") /\ guard = None
      /\ children' = [children EXCEPT ![call[c].arg] = None]
      /\ Answered(c)
      /\ IF child = None THEN UNCHANGED <<proc, stray, faults>> ELSE Kill(child)
      /\ UNCHANGED <<owner, guard>>

\* Mutant: a child that has not exited is waited for without being killed.
StopWithoutKill(c) ==
  LET child == children[call[c].arg]
  IN  /\ At(c, "stop", "begin") /\ guard = None
      /\ children' = [children EXCEPT ![call[c].arg] = None]
      /\ IF child = None THEN Answered(c) /\ UNCHANGED guard
         ELSE guard' = c /\ To(c, "reaping", child)
      /\ UNCHANGED <<proc, owner, stray, faults>>

\* The child leaves the map.  One that has exited is reaped at once, else it is killed and
\* waited for; when the kill fails the request fails and the child is dropped, running.
Stop(c) ==
  LET child == children[call[c].arg]
  IN  /\ At(c, "stop", "begin") /\ guard = None
      /\ children' = [children EXCEPT ![call[c].arg] = None]
      /\ CASE child = None -> Answered(c) /\ UNCHANGED <<proc, guard, stray, faults>>
           [] child # None /\ proc[child] = "exited" ->
                /\ proc' = [proc EXCEPT ![child] = "reaped"]
                /\ Answered(c)
                /\ UNCHANGED <<guard, stray, faults>>
           [] OTHER ->
                /\ Kill(child)
                /\ IF child \in stray' \ stray THEN Answered(c) /\ UNCHANGED guard
                   ELSE guard' = c /\ To(c, "reaping", child)
      /\ UNCHANGED owner

(* Drop: the children in the map are killed and waited for, one after the other *)

InMap == {children[s] : s \in Screens} \ {None}
Doomed(p) == Runs(p) /\ (proc[p] = "killed" \/ p \in stray)

\* A child is killed once the one before it has exited, which it must do by itself when
\* its kill failed.
DropKill ==
  /\ core = "dropping" /\ \A p \in InMap : ~Doomed(p)
  /\ \E p \in InMap : proc[p] = "alive" /\ Kill(p)
  /\ UNCHANGED <<core, owner, children, guard>>

\* No child is left to wait for.
DropEnds ==
  /\ core = "dropping" /\ \A p \in InMap : ~Runs(p)
  /\ core' = "ended"
  /\ proc' = [p \in Procs |-> IF p \in InMap THEN "reaped" ELSE proc[p]]
  /\ children' = [s \in Screens |-> None]
  /\ UNCHANGED <<owner, guard, stray, faults>>

DropChildren == DropKill \/ DropEnds

ServersCall(c) == Spawn(c) \/ Insert(c) \/ Reap(c) \/ Stop(c)

-----------------------------------------------------------------------------
(* Properties *)

\* Every running server process can still be stopped: it is in the map under the session
\* it was spawned for, or a request holds it, unless killing it failed.  An orderly end of
\* Core leaves none behind when nothing else keeps the manager alive.
ServersAreOwned ==
  core = "running" \/ (core \in {"dropping", "ended"} /\ ~remote) =>
    \A p \in Procs : Runs(p) /\ p \notin stray =>
      children[owner[p]] = p \/ \E c \in Callers : call[c].got = p

\* A stop that is answered leaves no server of its session running, whatever starts of
\* the session it interleaved with, except the one a start still has in hand.
StoppedMeansGone ==
  [][\A c \in Callers : call[c].op = "stop" /\ call'[c] = Idle /\ core' = "running" =>
       \A p \in Procs : Runs(p)' /\ owner[p] = call[c].arg =>
         p \in stray' \/ \E d \in Callers : call[d].op = "start" /\ call[d].got = p]_<<call, servers>>
===============================================================================
