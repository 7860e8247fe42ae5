------------------------------- MODULE CoreHost -------------------------------
(***************************************************************************)
(* Core as main.rs puts it together: the keep-alive thread, the pairing       *)
(* sessions and the screen server processes, used by the stdio thread and     *)
(* the thread of remote control at the same time.                            *)
(***************************************************************************)
EXTENDS KeepAlive, WirelessPairing, ScrcpyServers

vars == <<core, remote, call, taken, keepalive, pairings, servers>>

TypeOK ==
  /\ core \in {"running", "dropping", "ended", "aborted"}
  /\ remote \in BOOLEAN
  /\ call \in [Callers -> Busy(Asked \cup QrSessions \cup Screens \cup {None},
                             Config \cup Procs \cup {None}) \cup {Idle}]
  /\ taken \in 0 .. MaxCalls
  /\ KeepAliveType /\ PairingType /\ ServersType

Init == CallsInit /\ KeepAliveInit /\ PairingInit /\ ServersInit

\* handle_request: a method of one of the services.
Request(c) ==
  \/ \E a \in Asked : Take(c, "configure", a)
  \/ Take(c, "create", None)
  \/ \E s \in made : Take(c, "pair", s) \/ Take(c, "cancel", s)
  \/ \E s \in Screens : Take(c, "start", s) \/ Take(c, "stop", s)

\* The answer of a handler that fails before it changes anything: the QR code cannot be
\* drawn, adb is missing or cannot be started.
Refuse(c) ==
  /\ core = "running" /\ call[c].at = "begin" /\ call[c].op \in {"create", "pair", "start"}
  /\ Answered(c)

ConfigureCall(c) == Merge(c) \/ Apply(c) \/ SendConfig(c)

\* main: the input ends.  The service is dropped, and the children with it, unless the
\* thread of remote control shares it; then they outlive the process.
EndOfInput ==
  /\ core = "running" /\ call[Stdio] = Idle
  /\ core' = IF remote THEN "ended" ELSE "dropping"
  /\ call' = [c \in Callers |-> Idle] /\ guard' = None
  /\ UNCHANGED <<proc, owner, children, stray, faults>>

\* The answer cannot be written, or the server kills Core: the process ends without a drop.
Abort ==
  /\ core \in {"running", "dropping"} /\ core' = "aborted"
  /\ call' = [c \in Callers |-> Idle] /\ guard' = None
  /\ UNCHANGED <<proc, owner, children, stray, faults>>

\* A handler goes on.
Step(c) ==
  \/ Refuse(c) /\ UNCHANGED <<core, remote, taken, keepalive, pairings, servers>>
  \/ ConfigureCall(c) /\ UNCHANGED <<core, remote, taken, pairings, servers>>
  \/ PairingCall(c) /\ UNCHANGED <<core, remote, taken, keepalive, servers>>
  \/ ServersCall(c) /\ UNCHANGED <<core, remote, taken, keepalive, pairings>>

LoopStep == KeepAliveStep /\ UNCHANGED <<core, remote, call, taken, pairings, servers>>
DropStep == DropChildren /\ UNCHANGED <<remote, call, taken, keepalive, pairings>>
ExitStep(p) == Exit(p) /\ UNCHANGED <<core, remote, call, taken, keepalive, pairings>>

Next ==
  \/ \E c \in Callers :
       \/ Request(c) /\ UNCHANGED <<core, remote, keepalive, pairings, servers>>
       \/ Step(c)
  \/ LoopStep \/ DropStep
  \/ \E s \in QrSessions : Age(s) /\ UNCHANGED <<core, remote, call, taken, keepalive, servers>>
  \/ \E p \in Procs : ExitStep(p)
  \/ (EndOfInput \/ Abort) /\ UNCHANGED <<remote, taken, keepalive, pairings>>

\* Both threads are scheduled, also to drop the service, and their adb commands end, the
\* keep-alive thread is scheduled and its adb ends, and a killed process exits.
Fairness ==
  /\ \A c \in Callers : WF_vars(Step(c))
  /\ WF_vars(LoopStep) /\ WF_vars(DropStep)
  /\ \A p \in Procs : WF_vars(proc[p] = "killed" /\ ExitStep(p))

Spec == Init /\ [][Next]_vars
LiveSpec == Spec /\ Fairness

\* Every request is answered, also when both threads want the lock of the children, and
\* Core ends when it drops its service, unless a process could not be killed: the start
\* that replaces it and the drop wait for it.
CallsEnd ==
  /\ \A c \in Callers : call[c] # Idle ~> call[c] = Idle \/ faults > 0
  /\ core = "dropping" ~> core # "dropping" \/ faults > 0
===============================================================================
