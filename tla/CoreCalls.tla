------------------------------- MODULE CoreCalls -------------------------------
(***************************************************************************)
(* The requests Core works on (protocol.rs, main.rs, ipc/stdio.rs): the      *)
(* stdio thread takes one after the other, and so does the thread of remote  *)
(* control, which runs when a listening address is configured and admits the *)
(* administrator to every method.  A handler is several steps; what it shares *)
(* with the other thread is in the modules of the services.                  *)
(***************************************************************************)
EXTENDS Naturals, Sequences, FiniteSets

CONSTANTS
  Stdio, Quic, \* the two threads
  None,        \* no value
  MaxCalls,    \* bound on the requests taken
  MaxFaults    \* bound on failed kills

Callers == {Stdio, Quic}

ASSUME CallsAssumption ==
  /\ Stdio # Quic /\ None \notin Callers
  /\ MaxCalls \in Nat /\ MaxFaults \in Nat

VARIABLES
  core,   \* "running", "dropping" its service, "ended" with its input, or "aborted"
  remote, \* whether remote control listens
  call,   \* the request each thread works on
  taken   \* the requests taken so far

Ops == {"configure", "create", "pair", "cancel", "start", "stop"}
Phases == {"begin", "merged", "applied", "discover", "pairing", "paired", "spawned", "reaping"}

\* What a request asks for (arg) and what its handler holds meanwhile (got).
Busy(args, gots) == [op: Ops, at: Phases, arg: args, got: gots]
Idle == [op |-> "none", at |-> "idle", arg |-> None, got |-> None]

At(c, op, at) == core = "running" /\ call[c].op = op /\ call[c].at = at
To(c, at, got) ==
  call' = [call EXCEPT ![c] = [op |-> call[c].op, at |-> at, arg |-> call[c].arg, got |-> got]]
Answered(c) == call' = [call EXCEPT ![c] = Idle]

\* The next request of a thread that has none.
Take(c, op, arg) ==
  /\ core = "running" /\ call[c] = Idle /\ (c = Quic => remote)
  /\ taken < MaxCalls /\ taken' = taken + 1
  /\ call' = [call EXCEPT ![c] = [op |-> op, at |-> "begin", arg |-> arg, got |-> None]]

CallsInit ==
  /\ core = "running"
  /\ remote \in BOOLEAN
  /\ call = [c \in Callers |-> Idle]
  /\ taken = 0
===============================================================================
