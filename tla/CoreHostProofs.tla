---------------------------- MODULE CoreHostProofs ----------------------------
(***************************************************************************)
(* What holds of Core's services for any threads, sessions and processes,    *)
(* and any number of requests: no bound of the model checker is used.        *)
(***************************************************************************)
EXTENDS CoreHost, SequenceTheorems, TLAPS

\* What a request asks for and holds fits the step it is at.
Fits(r, m) ==
  \/ r = Idle
  \/ /\ r \in Busy(Asked, {None}) /\ r.op = "configure" /\ r.at = "begin"
  \/ /\ r \in Busy(Asked, Config) /\ r.op = "configure" /\ r.at \in {"merged", "applied"}
     /\ r.at = "applied" => validate(r.got.interval)
  \/ r \in Busy({None}, {None}) /\ r.op = "create" /\ r.at = "begin"
  \/ /\ r \in Busy(m, {None}) /\ r.op \in {"pair", "cancel"}
     /\ r.at \in {"begin", "discover", "pairing", "paired"}
  \/ r \in Busy(Screens, {None}) /\ r.op \in {"start", "stop"} /\ r.at = "begin"
  \/ r \in Busy(Screens, Procs) /\ r.op = "start" /\ r.at = "spawned"
  \/ r \in Busy(Screens, Procs) /\ r.op \in {"start", "stop"} /\ r.at = "reaping"

CallsFit == \A c \in Callers : Fits(call[c], made)

\* The last configuration on the channel is the one that was sent last.
ChannelInv ==
  /\ channel # <<>> => channel[Len(channel)] = sent
  /\ ConfigSettles

PairInv == over \cap pending = {}

\* A request holds a process it has just spawned, or one it waits for.
Holds(c, p) == call[c].at \in {"spawned", "reaping"} /\ call[c].got = p

OwnedInv ==
  core \in {"running", "dropping"} =>
    \A p \in Procs : Runs(p) /\ p \notin stray =>
      children[owner[p]] = p \/ \E c \in Callers : Holds(c, p)

\* A process is born with its owner, and keeps it in the map and in a request's hands.
BornInv ==
  /\ \A p \in Procs : proc[p] # "unborn" => owner[p] \in Screens
  /\ \A s \in Screens : children[s] # None => proc[children[s]] # "unborn" /\ owner[children[s]] = s
  /\ \A c \in Callers : call[c].at = "spawned" =>
       proc[call[c].got] # "unborn" /\ owner[call[c].got] = call[c].arg

\* The lock is held by the one request that waits for a child; a stop has emptied its entry.
GuardInv ==
  /\ \A c \in Callers : call[c].at = "reaping" => guard = c
  /\ \A c \in Callers : call[c].at = "reaping" /\ call[c].op = "stop" => children[call[c].arg] = None

\* Only the stdio thread works without a listener, and nothing is left after its end.
EndInv ==
  /\ ~remote => call[Quic] = Idle
  /\ core # "running" => \A c \in Callers : call[c] = Idle
  /\ core = "ended" /\ ~remote => \A p \in Procs : Runs(p) => p \in stray

HostInv == TypeOK /\ CallsFit /\ ChannelInv /\ PairInv /\ OwnedInv /\ BornInv /\ GuardInv /\ EndInv
-----------------------------------------------------------------------------
(* Requests *)

LEMMA FitsGrow ==
  ASSUME NEW r, NEW m, NEW n, m \subseteq n, Fits(r, m)
  PROVE  Fits(r, n)
  BY DEF Fits, Busy

Type(m) == Busy(Asked \cup m \cup Screens \cup {None}, Config \cup Procs \cup {None}) \cup {Idle}

LEMMA FitsType ==
  ASSUME NEW r, NEW m, Fits(r, m)
  PROVE  r \in Type(m)
  BY DEF Fits, Busy, Type

\* The requests all fit after one of them was given a record that fits.
LEMMA Updated ==
  ASSUME TypeOK, CallsFit, made \subseteq made', NEW c \in Callers, NEW new,
         Fits(new, made'), call' = [call EXCEPT ![c] = new]
  PROVE  CallsFit'
<1> SUFFICES ASSUME NEW d \in Callers PROVE Fits(call'[d], made')
  BY DEF CallsFit
<1>1. CASE d = c
  BY <1>1 DEF TypeOK
<1>2. CASE d # c
  <2>1. call'[d] = call[d]
    BY <1>2 DEF TypeOK
  <2> QED BY <2>1, FitsGrow DEF CallsFit
<1> QED BY <1>1, <1>2

LEMMA AnsweredFits ==
  ASSUME TypeOK, CallsFit, made \subseteq made', NEW c \in Callers, Answered(c)
  PROVE  CallsFit'
<1>1. Fits(Idle, made')
  BY DEF Fits
<1> QED BY <1>1, Updated DEF Answered

LEMMA ToFits ==
  ASSUME TypeOK, CallsFit, made \subseteq made', NEW c \in Callers, NEW x, NEW y, To(c, x, y),
         Fits([op |-> call[c].op, at |-> x, arg |-> call[c].arg, got |-> y], made')
  PROVE  CallsFit'
  BY Updated DEF To
-----------------------------------------------------------------------------
(* Types *)

LEMMA InitTypes == Init => TypeOK /\ CallsFit
<1> SUFFICES ASSUME Init PROVE TypeOK /\ CallsFit
  OBVIOUS
<1> USE CallsAssumption, KeepAliveAssumption
    DEF Init, CallsInit, KeepAliveInit, PairingInit, ServersInit
<1>1. CallsFit
  BY DEF CallsFit, Fits
<1>2. KeepAliveType
  BY DEF KeepAliveType, Default, Valid, Config, validate, LoopPhase
<1>3. PairingType /\ ServersType
  BY DEF PairingType, ServersType, ProcState
<1>4. call \in [Callers -> Type(made)]
  BY DEF Type
<1> QED BY <1>1, <1>2, <1>3, <1>4 DEF TypeOK, Type

\* The type of the requests follows from their fitting.
LEMMA CallsTyped ==
  ASSUME TypeOK, CallsFit', made' \subseteq QrSessions,
         \/ \E c \in Callers : \E new : call' = [call EXCEPT ![c] = new]
         \/ call' = [c \in Callers |-> Idle]
         \/ call' = call
  PROVE  call' \in [Callers -> Type(QrSessions)]
<1>1. \A c \in Callers : call'[c] \in Type(made')
  BY FitsType DEF CallsFit
<1>2. \A c \in Callers : call'[c] \in Type(QrSessions)
  BY <1>1 DEF Type, Busy
<1>3. call \in [Callers -> Type(QrSessions)]
  BY DEF TypeOK, Type
<1> QED BY <1>2, <1>3

LEMMA ConfigureTypes ==
  ASSUME TypeOK, CallsFit, NEW c \in Callers, ConfigureCall(c),
         UNCHANGED <<core, remote, taken, pairings, servers>>
  PROVE  TypeOK' /\ CallsFit'
<1> USE DEF pairings, servers
<1>0. Fits(call[c], made)
  BY DEF CallsFit
<1>1. KeepAliveType' /\ CallsFit'
  <2>1. CASE Merge(c)
    <3> DEFINE got == [enabled  |-> IF call[c].arg.enabled = None THEN config.enabled ELSE call[c].arg.enabled,
                       interval |-> IF call[c].arg.interval = None THEN config.interval ELSE call[c].arg.interval]
    <3>1. call[c] \in Busy(Asked, {None}) /\ call[c].op = "configure"
      BY <1>0, <2>1 DEF Merge, At, Fits, Idle
    <3>2. got \in Config
      BY <3>1 DEF TypeOK, KeepAliveType, Valid, Config, Asked, Busy
    <3> HIDE DEF got
    <3>3. Fits([op |-> call[c].op, at |-> "merged", arg |-> call[c].arg, got |-> got], made')
      BY <3>1, <3>2 DEF Fits, Phases, Busy, Ops
    <3>4. To(c, "merged", got) /\ UNCHANGED keepalive
      BY <2>1 DEF Merge, got
    <3> QED BY <3>3, <3>4, <2>1, ToFits DEF TypeOK, KeepAliveType, keepalive
  <2>2. CASE Apply(c)
    <3>1. call[c] \in Busy(Asked, Config) /\ call[c].op = "configure"
      BY <1>0, <2>2 DEF Apply, At, Fits, Idle
    <3>2. call[c].got \in Config
      BY <3>1 DEF Busy
    <3>3. CASE validate(call[c].got.interval)
      <4>1. Fits([op |-> call[c].op, at |-> "applied", arg |-> call[c].arg, got |-> call[c].got], made')
        BY <3>1, <3>2, <3>3 DEF Fits, Phases, Busy, Ops
      <4> QED BY <4>1, <3>2, <3>3, <2>2, ToFits DEF Apply, TypeOK, KeepAliveType, Valid
    <3>4. CASE ~validate(call[c].got.interval)
      BY <3>4, <2>2, AnsweredFits DEF Apply, TypeOK, KeepAliveType
    <3> QED BY <3>3, <3>4
  <2>3. CASE SendConfig(c)
    <3>1. call[c].got \in Valid
      BY <1>0, <2>3 DEF SendConfig, At, Fits, Idle, Busy, Valid
    <3>2. CallsFit'
      BY <2>3, AnsweredFits DEF SendConfig
    <3>3. channel' \in Seq(Valid) /\ sent' \in Valid /\ UNCHANGED <<config, loop>>
      BY <3>1, <2>3 DEF SendConfig, TypeOK, KeepAliveType
    <3> QED BY <3>2, <3>3 DEF TypeOK, KeepAliveType
  <2> QED BY <2>1, <2>2, <2>3 DEF ConfigureCall
<1>2. \E new : call' = [call EXCEPT ![c] = new]
  BY DEF ConfigureCall, Merge, Apply, SendConfig, To, Answered
<1>3. call' \in [Callers -> Type(QrSessions)]
  BY <1>1, <1>2, CallsTyped DEF TypeOK, PairingType
<1> QED BY <1>1, <1>3 DEF TypeOK, Type, PairingType, ServersType, Runs
LEMMA PairingTypes ==
  ASSUME TypeOK, CallsFit, NEW c \in Callers, PairingCall(c),
         UNCHANGED <<core, remote, taken, keepalive, servers>>
  PROVE  TypeOK' /\ CallsFit'
<1> USE DEF keepalive, servers
<1>0. Fits(call[c], made)
  BY DEF CallsFit
<1>1. PairingType' /\ made \subseteq made'
  <2>1. call[c].op \in {"pair", "cancel"} => call[c].arg \in made
    BY <1>0 DEF Fits, Idle, Busy
  <2>2. PairingType
    BY DEF TypeOK
  <2>3. CASE CreateQr(c)
    BY <2>2, <2>3 DEF PairingType, CreateQr, Purged
  <2>4. CASE LookUp(c) \/ Discover(c) \/ Pair(c)
    BY <2>2, <2>4 DEF PairingType, LookUp, Discover, Pair, Purged, pairings
  <2>5. CASE Confirm(c) \/ CancelQr(c)
    BY <2>1, <2>2, <2>5 DEF PairingType, Confirm, CancelQr, At
  <2> QED BY <2>3, <2>4, <2>5 DEF PairingCall
<1>2. CallsFit'
  <2>1. CASE Answered(c)
    BY <1>1, <2>1, AnsweredFits
  <2>2. CASE \E x \in {"discover", "pairing", "paired"} : call[c].op = "pair" /\ To(c, x, None)
    <3>1. PICK x \in {"discover", "pairing", "paired"} : call[c].op = "pair" /\ To(c, x, None)
      BY <2>2
    <3>2. call[c] \in Busy(made, {None})
      BY <1>0, <3>1 DEF Fits, Idle
    <3>3. Fits([op |-> call[c].op, at |-> x, arg |-> call[c].arg, got |-> None], made')
      BY <1>1, <3>1, <3>2 DEF Fits, Busy, Ops, Phases
    <3> QED BY <1>1, <3>1, <3>3, ToFits
  <2> QED BY <2>1, <2>2 DEF PairingCall, CreateQr, LookUp, Discover, Pair, Confirm, CancelQr, At
<1>3. \E new : call' = [call EXCEPT ![c] = new]
  BY DEF PairingCall, CreateQr, LookUp, Discover, Pair, Confirm, CancelQr, To, Answered
<1>4. call' \in [Callers -> Type(QrSessions)]
  BY <1>1, <1>2, <1>3, CallsTyped DEF PairingType
<1> QED BY <1>1, <1>2, <1>4 DEF TypeOK, Type, KeepAliveType, ServersType

LEMMA KillTypes ==
  ASSUME ServersType, NEW p \in Procs, Kill(p)
  PROVE  /\ proc' \in [Procs -> ProcState] /\ stray' \subseteq Procs
         /\ faults' \in 0 .. MaxFaults
  BY CallsAssumption DEF ServersType, Kill, ProcState

LEMMA ServersTypes ==
  ASSUME TypeOK, CallsFit, NEW c \in Callers, ServersCall(c),
         UNCHANGED <<core, remote, taken, keepalive, pairings>>
  PROVE  TypeOK' /\ CallsFit'
<1> USE DEF keepalive, pairings
<1>0. Fits(call[c], made)
  BY DEF CallsFit
<1>1. ServersType' /\ CallsFit'
  <2>1. CASE Spawn(c)
    <3>1. call[c] \in Busy(Screens, {None}) /\ call[c].op = "start"
      BY <1>0, <2>1 DEF Spawn, At, Fits, Idle
    <3>2. PICK p \in Procs : /\ proc' = [proc EXCEPT ![p] = "alive"]
                             /\ owner' = [owner EXCEPT ![p] = call[c].arg]
                            /\ To(c, "spawned", p)
      BY <2>1 DEF Spawn
    <3>3. Fits([op |-> call[c].op, at |-> "spawned", arg |-> call[c].arg, got |-> p], made')
      BY <3>1 DEF Fits, Busy, Ops, Phases
    <3>4. CallsFit'
      BY <3>2, <3>3, ToFits
    <3>5. ServersType'
      BY <3>1, <3>2, <2>1 DEF Spawn, TypeOK, ServersType, ProcState, Busy
    <3> QED BY <3>4, <3>5
  <2>2. CASE Insert(c)
    <3>1. call[c] \in Busy(Screens, Procs) /\ call[c].op = "start"
      BY <1>0, <2>2 DEF Insert, At, Fits, Idle, Busy
    <3> DEFINE previous == children[call[c].arg]
    <3>2. call[c].arg \in Screens /\ call[c].got \in Procs /\ previous \in Procs \cup {None}
      BY <3>1 DEF Busy, TypeOK, ServersType
    <3>3. children' \in [Screens -> Procs \cup {None}] /\ UNCHANGED owner
      BY <2>2, <3>2 DEF Insert, TypeOK, ServersType
    <3>4. CASE previous = None
      BY <3>3, <3>4, <2>2, AnsweredFits DEF Insert, TypeOK, ServersType
    <3>5. CASE previous # None
      <4>1. Kill(previous) /\ guard' = c /\ To(c, "reaping", previous)
        BY <2>2, <3>5 DEF Insert
      <4>2. Fits([op |-> call[c].op, at |-> "reaping", arg |-> call[c].arg, got |-> previous], made')
        BY <3>1, <3>2, <3>5 DEF Fits, Busy, Ops, Phases
      <4>3. CallsFit'
        BY <4>1, <4>2, ToFits
      <4> QED BY <4>1, <4>3, <3>2, <3>3, <3>5, KillTypes DEF TypeOK, ServersType
    <3> QED BY <3>4, <3>5
  <2>3. CASE Reap(c)
    BY <2>3, AnsweredFits DEF Reap, TypeOK, ServersType, ProcState
  <2>4. CASE Stop(c)
    <3>1. call[c] \in Busy(Screens, {None}) /\ call[c].op = "stop"
      BY <1>0, <2>4 DEF Stop, At, Fits, Idle, Busy
    <3> DEFINE child == children[call[c].arg]
    <3>2. call[c].arg \in Screens /\ child \in Procs \cup {None}
      BY <3>1 DEF Busy, TypeOK, ServersType
    <3>3. children' \in [Screens -> Procs \cup {None}] /\ UNCHANGED owner
      BY <2>4, <3>2 DEF Stop, TypeOK, ServersType
    <3>4. CASE child = None
      BY <3>3, <3>4, <2>4, AnsweredFits DEF Stop, TypeOK, ServersType
    <3>5. CASE child # None /\ proc[child] = "exited"
      <4>1. proc' = [proc EXCEPT ![child] = "reaped"] /\ Answered(c) /\ UNCHANGED <<guard, stray, faults>>
        BY <2>4, <3>5 DEF Stop
      <4> QED BY <4>1, <3>3, AnsweredFits DEF TypeOK, ServersType, ProcState
    <3>6. CASE child # None /\ proc[child] # "exited"
      <4>1. /\ Kill(child)
            /\ \/ Answered(c) /\ UNCHANGED guard
               \/ guard' = c /\ To(c, "reaping", child)
        BY <2>4, <3>6 DEF Stop
      <4>2. Fits([op |-> call[c].op, at |-> "reaping", arg |-> call[c].arg, got |-> child], made')
        BY <3>1, <3>2, <3>6 DEF Fits, Busy, Ops, Phases
      <4>3. CallsFit'
        BY <4>1, <4>2, ToFits, AnsweredFits
      <4> QED BY <4>1, <4>3, <3>2, <3>3, <3>6, KillTypes DEF TypeOK, ServersType
    <3> QED BY <3>4, <3>5, <3>6
  <2> QED BY <2>1, <2>2, <2>3, <2>4 DEF ServersCall
<1>2. \E new : call' = [call EXCEPT ![c] = new]
  BY DEF ServersCall, Spawn, Insert, Reap, Stop, To, Answered
<1>3. call' \in [Callers -> Type(QrSessions)]
  BY <1>1, <1>2, CallsTyped DEF TypeOK, PairingType
<1> QED BY <1>1, <1>3 DEF TypeOK, Type, KeepAliveType, PairingType

LEMMA RequestTypes ==
  ASSUME TypeOK, CallsFit, NEW c \in Callers, Request(c),
         UNCHANGED <<core, remote, keepalive, pairings, servers>>
  PROVE  TypeOK' /\ CallsFit'
<1> USE DEF keepalive, pairings, servers
<1>1. PICK op \in Ops, a \in Asked \cup made \cup Screens \cup {None} :
         /\ Take(c, op, a)
         /\ \/ op = "configure" /\ a \in Asked
            \/ op = "create" /\ a = None
            \/ op \in {"pair", "cancel"} /\ a \in made
            \/ op \in {"start", "stop"} /\ a \in Screens
  BY DEF Request, Ops
<1>2. Fits([op |-> op, at |-> "begin", arg |-> a, got |-> None], made')
  BY <1>1 DEF Fits, Busy, Ops, Phases
<1>3. CallsFit' /\ \E new : call' = [call EXCEPT ![c] = new]
  BY <1>1, <1>2, Updated DEF Take
<1>4. call' \in [Callers -> Type(QrSessions)]
  BY <1>3, CallsTyped DEF TypeOK, PairingType
<1>5. taken' \in 0 .. MaxCalls
  BY <1>1, CallsAssumption DEF Take, TypeOK
<1> QED BY <1>3, <1>4, <1>5 DEF TypeOK, Type, KeepAliveType, PairingType, ServersType

\* The steps that are no request's.
LEMMA OtherTypes ==
  ASSUME TypeOK, CallsFit,
         \/ LoopStep
         \/ \E s \in QrSessions : Age(s) /\ UNCHANGED <<core, remote, call, taken, keepalive, servers>>
         \/ \E p \in Procs : ExitStep(p)
         \/ UNCHANGED vars
  PROVE  TypeOK' /\ CallsFit'
<1> USE DEF keepalive, pairings, servers, vars
<1>1. UNCHANGED <<core, remote, call, taken, made>>
  BY DEF LoopStep, KeepAliveStep, ExitStep, Exit, Age
<1>2. CallsFit'
  BY <1>1 DEF CallsFit
<1>3. KeepAliveType'
  <2>1. CASE LoopStep
    <3>1. CASE TakeConfig
      <4>1. Head(channel) \in Valid /\ Tail(channel) \in Seq(Valid) /\ loop' \in LoopPhase
        BY <3>1 DEF TypeOK, KeepAliveType, TakeConfig, LoopPhase
      <4> QED BY <3>1, <4>1 DEF TypeOK, KeepAliveType, TakeConfig
    <3>2. CASE CheckEnds \/ ReadConfig \/ TimeOut
      BY <3>2 DEF TypeOK, KeepAliveType, CheckEnds, ReadConfig, TimeOut, LoopPhase
    <3> QED BY <2>1, <3>1, <3>2 DEF LoopStep, KeepAliveStep
  <2> QED BY <2>1 DEF TypeOK, KeepAliveType, ExitStep, Age
<1>4. PairingType'
  BY DEF TypeOK, PairingType, LoopStep, ExitStep, Age
<1>5. ServersType'
  BY DEF TypeOK, ServersType, ProcState, LoopStep, ExitStep, Exit, Age
<1> QED BY <1>1, <1>2, <1>3, <1>4, <1>5 DEF TypeOK
LEMMA EndTypes ==
  ASSUME TypeOK, CallsFit, EndOfInput \/ Abort, UNCHANGED <<remote, taken, keepalive, pairings>>
  PROVE  TypeOK' /\ CallsFit'
<1> USE DEF keepalive, pairings
<1>1. call' = [k \in Callers |-> Idle] /\ guard' = None /\ core' \in {"dropping", "ended", "aborted"}
  BY DEF EndOfInput, Abort
<1>2. CallsFit'
  BY <1>1 DEF CallsFit, Fits
<1>3. ServersType'
  BY <1>1 DEF TypeOK, ServersType, ProcState, EndOfInput, Abort
<1>4. call' \in [Callers -> Type(QrSessions)]
  BY <1>1 DEF Type
<1> QED BY <1>1, <1>2, <1>3, <1>4 DEF TypeOK, Type, KeepAliveType, PairingType

LEMMA DropTypes ==
  ASSUME TypeOK, CallsFit, DropStep
  PROVE  TypeOK' /\ CallsFit'
<1> USE DEF DropStep, keepalive, pairings
<1>1. CallsFit'
  BY DEF CallsFit
<1>2. ServersType' /\ core' \in {"dropping", "ended"}
  <2>1. CASE DropKill
    <3>1. PICK p \in Procs : Kill(p)
      BY <2>1 DEF DropKill, InMap, TypeOK, ServersType
    <3>2. proc' \in [Procs -> ProcState] /\ stray' \subseteq Procs /\ faults' \in 0 .. MaxFaults
      BY <3>1, KillTypes DEF TypeOK
    <3> QED BY <2>1, <3>2 DEF DropKill, TypeOK, ServersType
  <2>2. CASE DropEnds
    BY <2>2 DEF DropEnds, TypeOK, ServersType, ProcState
  <2> QED BY <2>1, <2>2 DEF DropChildren
<1> QED BY <1>1, <1>2 DEF TypeOK, KeepAliveType, PairingType

LEMMA RefuseTypes ==
  ASSUME TypeOK, CallsFit, NEW c \in Callers, Refuse(c),
         UNCHANGED <<core, remote, taken, keepalive, pairings, servers>>
  PROVE  TypeOK' /\ CallsFit'
<1> USE DEF keepalive, pairings, servers
<1>1. CallsFit' /\ \E new : call' = [call EXCEPT ![c] = new]
  BY AnsweredFits DEF Refuse, Answered
<1>2. call' \in [Callers -> Type(QrSessions)]
  BY <1>1, CallsTyped DEF TypeOK, PairingType
<1> QED BY <1>1, <1>2 DEF TypeOK, Type, KeepAliveType, PairingType, ServersType

LEMMA StepTypes == TypeOK /\ CallsFit /\ [Next]_vars => TypeOK' /\ CallsFit'
  BY ConfigureTypes, PairingTypes, ServersTypes, RequestTypes, OtherTypes, EndTypes, DropTypes, RefuseTypes
     DEF Next, Step

\* Every state is well typed: every interval in force or on its way is a valid one.
THEOREM HostTypeCorrect == Spec => []TypeOK
<1>1. Spec => [](TypeOK /\ CallsFit)
  BY InitTypes, StepTypes, PTL DEF Spec
<1> QED BY <1>1, PTL

-----------------------------------------------------------------------------
(* The keep-alive *)

LEMMA LastOfTail ==
  ASSUME NEW S, NEW q \in Seq(S), q # <<>>
  PROVE  /\ Tail(q) = <<>> => Head(q) = q[Len(q)]
         /\ Tail(q) # <<>> => Tail(q)[Len(Tail(q))] = q[Len(q)]
<1>1. Len(q) \in Nat /\ Len(q) > 0 /\ Tail(q) \in Seq(S) /\ Len(Tail(q)) = Len(q) - 1
  OBVIOUS
<1>2. \A i \in 1 .. Len(q) - 1 : Tail(q)[i] = q[i + 1]
  OBVIOUS
<1>3. CASE Tail(q) = <<>>
  <2>1. Len(q) = 1
    BY <1>1, <1>3, EmptySeq
  <2> QED BY <1>3, <2>1
<1>4. CASE Tail(q) # <<>>
  <2>1. Len(q) - 1 \in 1 .. Len(q) - 1
    BY <1>1, <1>4
  <2>2. Tail(q)[Len(q) - 1] = q[(Len(q) - 1) + 1]
    BY <1>2, <2>1
  <2> QED BY <1>1, <1>4, <2>2
<1> QED BY <1>3, <1>4

LEMMA LastOfAppend ==
  ASSUME NEW S, NEW q \in Seq(S), NEW e \in S
  PROVE  Append(q, e) # <<>> /\ Append(q, e)[Len(Append(q, e))] = e
  OBVIOUS

\* A step that leaves the keep-alive alone and no request after the write to the status.
LEMMA KeepAliveKept ==
  ASSUME ChannelInv, UNCHANGED keepalive,
         \/ core' # "running"
         \/ core' = core /\ \A c \in Callers : call[c].at = "applied" => call'[c].at = "applied"
  PROVE  ChannelInv'
  BY DEF ChannelInv, ConfigSettles, Settled, keepalive

\* What one request's step means for the requests at "applied".
LEMMA CallMoves ==
  ASSUME TypeOK, NEW c \in Callers, NEW new, call' = [call EXCEPT ![c] = new]
  PROVE  call'[c] = new /\ \A d \in Callers : d # c => call'[d] = call[d]
  BY DEF TypeOK

LEMMA KeepAliveSteps ==
  ASSUME TypeOK, CallsFit, ChannelInv, [Next]_vars
  PROVE  ChannelInv'
<1>1. ASSUME NEW c \in Callers, ConfigureCall(c), UNCHANGED <<core, remote, taken, pairings, servers>>
      PROVE  ChannelInv'
  <2>0. Fits(call[c], made)
    BY DEF CallsFit
  <2>1. CASE Merge(c)
    <3>1. keepalive' = keepalive /\ core' = core /\ call[c].at = "begin"
      BY <1>1, <2>1 DEF Merge, At
    <3>2. \A d \in Callers : d # c => call'[d] = call[d]
      BY <2>1 DEF Merge, To, TypeOK
    <3>3. \A d \in Callers : call[d].at = "applied" => call'[d].at = "applied"
      BY <3>1, <3>2
    <3> QED BY <3>1, <3>3, KeepAliveKept
  <2>2. CASE Apply(c) /\ validate(call[c].got.interval)
    <3>1. call'[c].at = "applied" /\ UNCHANGED <<channel, sent>>
      BY <2>2 DEF Apply, To, TypeOK
    <3> QED BY <3>1 DEF ChannelInv, ConfigSettles, Settled
  <2>3. CASE Apply(c) /\ ~validate(call[c].got.interval)
    BY <2>3, KeepAliveKept, CallMoves DEF Apply, Answered, At, keepalive
  <2>4. CASE SendConfig(c)
    <3>1. call[c].got \in Valid
      BY <2>0, <2>4 DEF SendConfig, At, Fits, Idle, Busy, Valid
    <3>2. channel' # <<>> /\ channel'[Len(channel')] = sent'
      BY <3>1, <2>4, LastOfAppend DEF SendConfig, TypeOK, KeepAliveType
    <3> QED BY <3>2 DEF ChannelInv, ConfigSettles, Settled
  <2> QED BY <1>1, <2>1, <2>2, <2>3, <2>4 DEF ConfigureCall
<1>2. ASSUME NEW c \in Callers,
             \/ Request(c) /\ UNCHANGED keepalive
             \/ Refuse(c) /\ UNCHANGED keepalive
             \/ PairingCall(c) /\ UNCHANGED keepalive
             \/ ServersCall(c) /\ UNCHANGED keepalive,
             core' = core
      PROVE  ChannelInv'
  <2>1. Fits(call[c], made)
    BY DEF CallsFit
  <2>2. call[c].at # "applied" /\ \E new : call' = [call EXCEPT ![c] = new]
    BY <1>2, <2>1 DEF Request, Take, Refuse, PairingCall, CreateQr, LookUp, Discover, Pair, Confirm,
       CancelQr, ServersCall, Spawn, Insert, Reap, Stop, To, Answered, At, Idle
  <2> QED BY <1>2, <2>2, KeepAliveKept, CallMoves
<1>3. CASE LoopStep
  <2>1. UNCHANGED <<core, call>>
    BY <1>3 DEF LoopStep
  <2>2. CASE CheckEnds \/ ReadConfig \/ TimeOut
    BY <2>1, <2>2 DEF CheckEnds, ReadConfig, TimeOut, ChannelInv, ConfigSettles, Settled
  <2>3. CASE TakeConfig
    <3>1. /\ Tail(channel) = <<>> => Head(channel) = channel[Len(channel)]
          /\ Tail(channel) # <<>> => Tail(channel)[Len(Tail(channel))] = channel[Len(channel)]
      BY <2>3, LastOfTail DEF TakeConfig, TypeOK, KeepAliveType
    <3> QED BY <2>3, <3>1 DEF TakeConfig, ChannelInv, ConfigSettles, Settled
  <2> QED BY <1>3, <2>2, <2>3 DEF LoopStep, KeepAliveStep
<1>4. CASE \/ \E s \in QrSessions : Age(s) /\ UNCHANGED <<core, remote, call, taken, keepalive, servers>>
           \/ \E p \in Procs : ExitStep(p)
           \/ UNCHANGED vars
  BY <1>4, KeepAliveKept DEF ExitStep, vars
<1>5. CASE (EndOfInput \/ Abort) /\ UNCHANGED <<remote, taken, keepalive, pairings>>
  BY <1>5, KeepAliveKept DEF EndOfInput, Abort
<1>6. CASE DropStep
  BY <1>6, KeepAliveKept DEF DropStep, DropChildren, DropKill, DropEnds
<1> QED BY <1>1, <1>2, <1>3, <1>4, <1>5, <1>6 DEF Next, Step

LEMMA ChannelAlways == Spec => []ChannelInv
<1>1. Init => ChannelInv
  BY DEF Init, KeepAliveInit, ChannelInv, ConfigSettles
<1>2. TypeOK /\ CallsFit /\ ChannelInv /\ [Next]_vars => ChannelInv'
  BY KeepAliveSteps
<1>3. Spec => [](TypeOK /\ CallsFit)
  BY InitTypes, StepTypes, PTL DEF Spec
<1> QED BY <1>1, <1>2, <1>3, PTL DEF Spec

\* Concurrent requests to configure the keep-alive always agree in the end, and a
\* disabled keep-alive never waits for its next check (configure, keepalive_loop).
THEOREM ConfigAlwaysSettles == Spec => []ConfigSettles
  BY ChannelAlways, PTL DEF ChannelInv

-----------------------------------------------------------------------------
(* Pairing *)

LEMMA PairSteps ==
  ASSUME TypeOK, CallsFit, PairInv, [Next]_vars
  PROVE  PairInv'
<1>1. CASE \E c \in Callers : PairingCall(c)
  <2>1. PICK c \in Callers : PairingCall(c)
    BY <1>1
  <2>2. CASE CreateQr(c)
    <3>1. over \subseteq made /\ over' = over
      BY <2>2 DEF TypeOK, PairingType, CreateQr
    <3> QED BY <2>2, <3>1 DEF CreateQr, Purged, PairInv
  <2>3. CASE LookUp(c) \/ Discover(c) \/ Pair(c)
    BY <2>3 DEF LookUp, Discover, Pair, Purged, PairInv, pairings
  <2>4. CASE Confirm(c) \/ CancelQr(c)
    BY <2>4 DEF Confirm, CancelQr, PairInv
  <2> QED BY <2>1, <2>2, <2>3, <2>4 DEF PairingCall
<1>2. CASE \E s \in QrSessions : Age(s)
  BY <1>2 DEF Age, PairInv
<1>3. CASE UNCHANGED pairings
  BY <1>3 DEF PairInv, pairings
<1> QED BY <1>1, <1>2, <1>3 DEF Next, Step, LoopStep, DropStep, ExitStep, vars

LEMMA OneLooksUp ==
  ASSUME TypeOK, CallsFit, PairInv, [Next]_vars, NEW c \in Callers,
         At(c, "pair", "begin"), call'[c].at = "discover"
  PROVE  call[c].arg \notin over \cup expired
<1>1. call' # call /\ \A k \in Callers : \A n : call' = [call EXCEPT ![k] = n] => k = c /\ n.at = "discover"
  BY DEF At, TypeOK
<1>2. CASE \E k \in Callers : LookUp(k)
  <2>1. PICK k \in Callers : LookUp(k)
    BY <1>2
  <2>2. k = c /\ call[c].arg \in Purged
    <3>1. CASE call[k].arg \in Purged
      BY <1>1, <2>1, <3>1 DEF LookUp, To
    <3>2. CASE call[k].arg \notin Purged
      <4>1. call' = [call EXCEPT ![k] = Idle] /\ Idle.at # "discover"
        BY <2>1, <3>2 DEF LookUp, Answered, Idle
      <4> QED BY <1>1, <4>1
    <3> QED BY <3>1, <3>2
  <2> QED BY <2>2 DEF Purged, PairInv
<1>3. CASE \E k \in Callers : \/ Request(k) \/ Refuse(k) \/ ConfigureCall(k) \/ ServersCall(k)
                              \/ CreateQr(k) \/ Discover(k) \/ Pair(k) \/ Confirm(k) \/ CancelQr(k)
  <2>1. PICK k \in Callers : \/ Request(k) \/ Refuse(k) \/ ConfigureCall(k) \/ ServersCall(k)
                             \/ CreateQr(k) \/ Discover(k) \/ Pair(k) \/ Confirm(k) \/ CancelQr(k)
    BY <1>3
  <2>2. \E n : call' = [call EXCEPT ![k] = n] /\ n.at # "discover"
    BY <2>1 DEF Request, Take, Refuse, ConfigureCall, Merge, Apply, SendConfig, ServersCall, Spawn,
       Insert, Reap, Stop, CreateQr, Discover, Pair, Confirm, CancelQr, To, Answered, Idle
  <2> QED BY <1>1, <2>2
<1>4. CASE \/ UNCHANGED call
           \/ EndOfInput \/ Abort
  BY <1>1, <1>4 DEF EndOfInput, Abort, Idle
<1> QED BY <1>2, <1>3, <1>4 DEF Next, Step, PairingCall, LoopStep, DropStep, ExitStep, vars

\* A session that was cancelled, has expired or has paired never reaches adb again.
THEOREM QrAlwaysStaysOver == Spec => QrStaysOver
<1>1. Init => PairInv
  BY DEF Init, PairingInit, PairInv
<1>2. TypeOK /\ CallsFit /\ PairInv /\ [Next]_vars => PairInv'
  BY PairSteps
<1>3. TypeOK /\ CallsFit /\ PairInv /\ [Next]_vars =>
        [\A c \in Callers : At(c, "pair", "begin") /\ call'[c].at = "discover" =>
            call[c].arg \notin over \cup expired]_<<call, pairings>>
  BY OneLooksUp
<1>4. Spec => [](TypeOK /\ CallsFit)
  BY InitTypes, StepTypes, PTL DEF Spec
<1> QED BY <1>1, <1>2, <1>3, <1>4, PTL DEF Spec, QrStaysOver
-----------------------------------------------------------------------------
(* The screen server processes *)

ServInv == BornInv /\ GuardInv /\ OwnedInv

\* A step that leaves the processes alone and no request that holds one.
LEMMA ServersKept ==
  ASSUME TypeOK, CallsFit, ServInv, UNCHANGED <<proc, owner, children, guard, stray>>, core' = core,
         NEW c \in Callers, NEW new, call' = [call EXCEPT ![c] = new],
         call[c].at \notin {"spawned", "reaping"}, new.at \notin {"spawned", "reaping"}
  PROVE  ServInv'
<1>1. \A d \in Callers : call'[d].at \in {"spawned", "reaping"} => call'[d] = call[d]
  BY DEF TypeOK
<1>2. \A d \in Callers, p \in Procs : Holds(d, p) => Holds(d, p)'
  BY DEF TypeOK, Holds
<1>3. BornInv' /\ GuardInv'
  BY <1>1 DEF ServInv, BornInv, GuardInv
<1>4. OwnedInv'
  BY <1>2 DEF ServInv, OwnedInv, Runs
<1> QED BY <1>3, <1>4 DEF ServInv

LEMMA SpawnServ ==
  ASSUME TypeOK, CallsFit, ServInv, NEW c \in Callers, Spawn(c), core' = core
  PROVE  ServInv'
<1>1. call[c].arg \in Screens /\ call[c].at = "begin"
  BY DEF CallsFit, Fits, Spawn, At, Idle, Busy
<1>2. PICK p \in Procs : /\ proc[p] = "unborn"
                         /\ proc' = [proc EXCEPT ![p] = "alive"]
                        /\ owner' = [owner EXCEPT ![p] = call[c].arg]
                        /\ To(c, "spawned", p)
  BY DEF Spawn
<1>3. /\ call'[c].at = "spawned" /\ call'[c].got = p /\ call'[c].arg = call[c].arg
      /\ \A d \in Callers : d # c => call'[d] = call[d]
  BY <1>2 DEF To, TypeOK
<1>4. /\ proc'[p] = "alive" /\ owner'[p] = call[c].arg
      /\ \A q \in Procs : q # p => proc'[q] = proc[q] /\ owner'[q] = owner[q]
  BY <1>2 DEF TypeOK, ServersType
<1>5. UNCHANGED <<children, guard, stray>>
  BY DEF Spawn
<1>6. BornInv'
  <2>1. \A s \in Screens : children[s] # None => children[s] \in Procs /\ children[s] # p
    BY <1>2 DEF ServInv, BornInv, TypeOK, ServersType
  <2>2. \A d \in Callers : call[d].at = "spawned" => call[d].got \in Procs /\ call[d].got # p
    BY <1>2 DEF ServInv, BornInv, CallsFit, Fits, Idle, Busy
  <2> QED BY <1>1, <1>3, <1>4, <1>5, <2>1, <2>2 DEF ServInv, BornInv
<1>7. GuardInv'
  BY <1>3, <1>5 DEF ServInv, GuardInv
<1>8. OwnedInv'
  <2>1. \A d \in Callers, q \in Procs : d # c /\ Holds(d, q) => Holds(d, q)'
    BY <1>3 DEF Holds
  <2>2. Holds(c, p)' /\ \A q \in Procs : ~Holds(c, q)
    BY <1>1, <1>3 DEF Holds
  <2> QED BY <1>4, <1>5, <2>1, <2>2 DEF ServInv, OwnedInv, Runs
<1> QED BY <1>6, <1>7, <1>8 DEF ServInv

\* What a kill changes, of a child that was born.
LEMMA Killed ==
  ASSUME TypeOK, NEW p \in Procs, Kill(p)
  PROVE  /\ \A q \in Procs : q # p => proc'[q] = proc[q]
         /\ \A q \in Procs : /\ proc'[q] \in {"alive", "killed"} => proc[q] \in {"alive", "killed"}
                             /\ proc'[q] = "unborn" <=> proc[q] = "unborn"
         /\ stray \subseteq stray'
  BY DEF Kill, TypeOK, ServersType

LEMMA InsertServ ==
  ASSUME TypeOK, CallsFit, ServInv, NEW c \in Callers, Insert(c), core' = core
  PROVE  ServInv'
<1> DEFINE s == call[c].arg
<1> DEFINE new == call[c].got
<1> DEFINE previous == children[s]
<1>1. s \in Screens /\ new \in Procs /\ call[c].at = "spawned"
  BY DEF CallsFit, Fits, Insert, At, Idle, Busy
<1>2. proc[new] # "unborn" /\ owner[new] = s
  BY <1>1 DEF ServInv, BornInv
<1>3. /\ children'[s] = new /\ \A t \in Screens : t # s => children'[t] = children[t]
      /\ owner' = owner /\ guard = None
  BY <1>1 DEF Insert, TypeOK, ServersType
<1>4. \A d \in Callers : call[d].at # "reaping"
  BY <1>3, CallsAssumption DEF ServInv, GuardInv
<1>5. CASE previous = None
  <2>1. call' = [call EXCEPT ![c] = Idle] /\ UNCHANGED <<proc, guard, stray>>
    BY <1>5 DEF Insert, Answered
  <2>2. call'[c] = Idle /\ \A d \in Callers : d # c => call'[d] = call[d]
    BY <2>1 DEF TypeOK
  <2>3. BornInv' /\ GuardInv'
    BY <1>2, <1>3, <1>4, <2>1, <2>2 DEF ServInv, BornInv, GuardInv, Idle
  <2>4. OwnedInv'
    <3> SUFFICES ASSUME core' \in {"running", "dropping"}, NEW p \in Procs, proc'[p] \in {"alive", "killed"}, p \notin stray'
                 PROVE  children'[owner[p]] = p \/ \E d \in Callers : Holds(d, p)'
      BY <1>3 DEF OwnedInv, Runs
    <3>1. children[owner[p]] = p \/ \E d \in Callers : Holds(d, p)
      BY <2>1 DEF ServInv, OwnedInv, Runs
    <3>2. owner[p] \in Screens
      BY <2>1 DEF ServInv, BornInv, Runs
    <3>3. CASE children[owner[p]] = p
      BY <3>2, <3>3, <1>3, <1>5, ServersAssumption
    <3>4. CASE Holds(c, p)
      BY <3>4, <1>2, <1>3 DEF Holds
    <3>5. CASE \E d \in Callers : d # c /\ Holds(d, p)
      BY <3>5, <2>2 DEF Holds
    <3> QED BY <3>1, <3>3, <3>4, <3>5
  <2> QED BY <2>3, <2>4 DEF ServInv
<1>6. CASE previous # None
  <2>1. Kill(previous) /\ guard' = c /\ To(c, "reaping", previous) /\ previous \in Procs /\ call[c].op = "start"
    BY <1>1, <1>6 DEF Insert, At, TypeOK, ServersType
  <2>2. /\ call'[c].at = "reaping" /\ call'[c].got = previous /\ call'[c].op = "start"
        /\ \A d \in Callers : d # c => call'[d] = call[d]
    BY <2>1 DEF To, TypeOK
  <2>3. /\ \A q \in Procs : /\ proc'[q] \in {"alive", "killed"} => proc[q] \in {"alive", "killed"}
                            /\ proc'[q] = "unborn" <=> proc[q] = "unborn"
        /\ stray \subseteq stray'
    BY <2>1, Killed
  <2>4. BornInv'
    <3>1. \A t \in Screens : children'[t] # None =>
              children'[t] \in Procs /\ proc[children'[t]] # "unborn" /\ owner[children'[t]] = t
      BY <1>1, <1>2, <1>3 DEF ServInv, BornInv, TypeOK, ServersType
    <3>2. \A d \in Callers : call'[d].at = "spawned" =>
              call'[d].got \in Procs /\ proc[call'[d].got] # "unborn" /\ owner[call'[d].got] = call'[d].arg
      BY <2>2 DEF ServInv, BornInv, CallsFit, Fits, Idle, Busy
    <3>3. \A q \in Procs : proc'[q] # "unborn" => owner[q] \in Screens
      BY <2>3 DEF ServInv, BornInv
    <3>4. /\ \A t \in Screens : children'[t] # None => proc'[children'[t]] # "unborn"
          /\ \A d \in Callers : call'[d].at = "spawned" => proc'[call'[d].got] # "unborn"
      BY <2>3, <3>1, <3>2
    <3> QED BY <1>3, <3>1, <3>2, <3>3, <3>4 DEF BornInv
  <2>5. GuardInv'
    BY <1>4, <2>1, <2>2 DEF GuardInv
  <2>6. OwnedInv'
    <3> SUFFICES ASSUME core' \in {"running", "dropping"}, NEW p \in Procs, proc'[p] \in {"alive", "killed"}, p \notin stray'
                 PROVE  children'[owner[p]] = p \/ \E d \in Callers : Holds(d, p)'
      BY <1>3 DEF OwnedInv, Runs
    <3>1. children[owner[p]] = p \/ \E d \in Callers : Holds(d, p)
      <4>1. proc[p] \in {"alive", "killed"}
        BY <2>3
      <4>2. p \notin stray
        BY <2>3
      <4> QED BY <4>1, <4>2 DEF ServInv, OwnedInv, Runs
    <3>2. owner[p] \in Screens
      BY <2>3 DEF ServInv, BornInv, Runs
    <3>3. CASE children[owner[p]] = p /\ owner[p] # s
      BY <3>2, <3>3, <1>3
    <3>4. CASE children[owner[p]] = p /\ owner[p] = s
      BY <3>4, <2>2 DEF Holds
    <3>5. CASE Holds(c, p)
      BY <3>5, <1>2, <1>3 DEF Holds
    <3>6. CASE \E d \in Callers : d # c /\ Holds(d, p)
      BY <3>6, <2>2 DEF Holds
    <3> QED BY <3>1, <3>3, <3>4, <3>5, <3>6
  <2> QED BY <2>4, <2>5, <2>6 DEF ServInv
<1> QED BY <1>5, <1>6
LEMMA StopServ ==
  ASSUME TypeOK, CallsFit, ServInv, NEW c \in Callers, Stop(c), core' = core
  PROVE  ServInv'
<1> DEFINE s == call[c].arg
<1> DEFINE child == children[s]
<1>1. s \in Screens /\ call[c].at = "begin" /\ call[c].op = "stop"
  BY DEF CallsFit, Fits, Stop, At, Idle, Busy
<1>2. /\ children'[s] = None /\ \A t \in Screens : t # s => children'[t] = children[t]
      /\ owner' = owner /\ guard = None
  BY <1>1 DEF Stop, TypeOK, ServersType
<1>3. \A d \in Callers : call[d].at # "reaping"
  BY <1>2, CallsAssumption DEF ServInv, GuardInv
<1>4. /\ \A q \in Procs : /\ proc'[q] \in {"alive", "killed"} => proc[q] \in {"alive", "killed"}
                          /\ proc'[q] = "unborn" <=> proc[q] = "unborn"
      /\ stray \subseteq stray'
  <2>1. CASE child = None
    BY <2>1 DEF Stop
  <2>2. CASE child # None /\ proc[child] = "exited"
    BY <2>2, <1>1 DEF Stop, TypeOK, ServersType
  <2>3. CASE child # None /\ proc[child] # "exited"
    <3>1. Kill(child) /\ child \in Procs
      BY <2>3, <1>1 DEF Stop, TypeOK, ServersType
    <3> QED BY <3>1, Killed
  <2> QED BY <2>1, <2>2, <2>3
<1>5. /\ \A d \in Callers : d # c => call'[d] = call[d]
      /\ \/ /\ call'[c] = Idle /\ guard' = guard
            /\ child \in Procs => proc'[child] \notin {"alive", "killed"} \/ child \in stray'
         \/ /\ call'[c].at = "reaping" /\ call'[c].got = child /\ call'[c].arg = s /\ guard' = c
            /\ call'[c].op = "stop"
  <2>1. CASE child = None
    BY <2>1, ServersAssumption DEF Stop, Answered, TypeOK
  <2>2. CASE child # None /\ proc[child] = "exited"
    BY <2>2, <1>1 DEF Stop, Answered, TypeOK, ServersType
  <2>3. CASE child # None /\ proc[child] # "exited"
    BY <2>3, <1>1 DEF Stop, Answered, To, TypeOK
  <2> QED BY <2>1, <2>2, <2>3
<1>6. BornInv'
  <2>1. \A t \in Screens : children'[t] # None => t # s /\ children'[t] = children[t] /\ children[t] \in Procs
    BY <1>2 DEF TypeOK, ServersType
  <2>2. \A d \in Callers : call'[d].at = "spawned" => d # c /\ call[d].got \in Procs
    BY <1>5 DEF CallsFit, Fits, Idle, Busy
  <2> QED BY <1>2, <1>4, <1>5, <2>1, <2>2 DEF ServInv, BornInv
<1>7. GuardInv'
  BY <1>2, <1>3, <1>5 DEF GuardInv, Idle
<1>8. OwnedInv'
  <2> SUFFICES ASSUME core' \in {"running", "dropping"}, NEW p \in Procs, proc'[p] \in {"alive", "killed"}, p \notin stray'
               PROVE  children'[owner[p]] = p \/ \E d \in Callers : Holds(d, p)'
    BY <1>2 DEF OwnedInv, Runs
  <2>1. Runs(p) /\ p \notin stray
    <3>1. proc[p] \in {"alive", "killed"}
      BY <1>4
    <3>2. p \notin stray
      BY <1>4
    <3> QED BY <3>1, <3>2 DEF Runs
  <2>2. children[owner[p]] = p \/ \E d \in Callers : Holds(d, p)
    BY <2>1 DEF ServInv, OwnedInv
  <2>3. owner[p] \in Screens
    BY <2>1 DEF ServInv, BornInv, Runs
  <2>4. CASE children[owner[p]] = p /\ owner[p] # s
    BY <2>3, <2>4, <1>2
  <2>5. CASE children[owner[p]] = p /\ owner[p] = s
    BY <2>5, <1>5 DEF Holds, Runs
  <2>6. CASE \E d \in Callers : Holds(d, p)
    BY <2>6, <1>1, <1>5 DEF Holds
  <2> QED BY <2>2, <2>4, <2>5, <2>6
<1> QED BY <1>6, <1>7, <1>8 DEF ServInv

LEMMA ReapServ ==
  ASSUME TypeOK, CallsFit, ServInv, NEW c \in Callers, Reap(c), core' = core
  PROVE  ServInv'
<1>1. call[c].at = "reaping" /\ call[c].got \in Procs /\ guard = c
  BY DEF CallsFit, Fits, Reap, Idle, Busy, ServInv, GuardInv
<1>2. \A d \in Callers : call[d].at = "reaping" => d = c
  BY <1>1 DEF ServInv, GuardInv
<1>3. call'[c] = Idle /\ \A d \in Callers : d # c => call'[d] = call[d]
  BY DEF Reap, Answered, TypeOK
<1>4. /\ proc'[call[c].got] = "reaped" /\ proc[call[c].got] = "exited"
      /\ \A q \in Procs : q # call[c].got => proc'[q] = proc[q]
      /\ UNCHANGED <<owner, children, stray>>
  BY <1>1 DEF Reap, TypeOK, ServersType
<1>5. BornInv'
  <2>1. \A t \in Screens : children[t] # None => children[t] \in Procs
    BY DEF TypeOK, ServersType
  <2>2. \A d \in Callers : call'[d].at = "spawned" => d # c /\ call[d].got \in Procs
    BY <1>3 DEF CallsFit, Fits, Idle, Busy
  <2> QED BY <1>3, <1>4, <2>1, <2>2 DEF ServInv, BornInv
<1>6. GuardInv'
  BY <1>2, <1>3 DEF GuardInv, Idle
<1>7. OwnedInv'
  <2> SUFFICES ASSUME core' \in {"running", "dropping"}, NEW p \in Procs, proc'[p] \in {"alive", "killed"}, p \notin stray
               PROVE  children[owner[p]] = p \/ \E d \in Callers : Holds(d, p)'
    BY <1>4 DEF OwnedInv, Runs
  <2>1. Runs(p) /\ p # call[c].got
    BY <1>4 DEF Runs
  <2>2. children[owner[p]] = p \/ \E d \in Callers : Holds(d, p)
    BY <2>1 DEF ServInv, OwnedInv
  <2> QED BY <2>1, <2>2, <1>3 DEF Holds
<1> QED BY <1>5, <1>6, <1>7 DEF ServInv

LEMMA ExitServ ==
  ASSUME TypeOK, CallsFit, ServInv, NEW p \in Procs, ExitStep(p)
  PROVE  ServInv'
<1>1. /\ proc[p] \in {"alive", "killed"} /\ proc' = [proc EXCEPT ![p] = "exited"]
      /\ UNCHANGED <<core, call, owner, children, guard, stray>>
  BY DEF ExitStep, Exit, Runs
<1>2. \A q \in Procs : /\ proc'[q] \in {"alive", "killed"} => proc[q] \in {"alive", "killed"}
                       /\ proc'[q] = "unborn" <=> proc[q] = "unborn"
  BY <1>1 DEF TypeOK, ServersType
<1>3. BornInv'
  <2>1. \A s \in Screens : children[s] # None => children[s] \in Procs
    BY DEF TypeOK, ServersType
  <2>2. \A d \in Callers : call[d].at = "spawned" => call[d].got \in Procs
    BY DEF CallsFit, Fits, Idle, Busy
  <2> QED BY <1>1, <1>2, <2>1, <2>2 DEF ServInv, BornInv
<1>4. GuardInv'
  BY <1>1 DEF ServInv, GuardInv
<1>5. OwnedInv'
  BY <1>1, <1>2 DEF ServInv, OwnedInv, Runs, Holds
<1> QED BY <1>3, <1>4, <1>5 DEF ServInv

LEMMA EndServ ==
  ASSUME TypeOK, CallsFit, ServInv, EndInv, EndOfInput \/ Abort, UNCHANGED remote
  PROVE  ServInv' /\ EndInv'
<1>1. /\ \A c \in Callers : call'[c] = Idle
      /\ core' # "running" /\ UNCHANGED <<proc, owner, children, stray>> /\ (core' = "ended" => remote)
  BY DEF EndOfInput, Abort
<1>2. BornInv' /\ GuardInv'
  BY <1>1 DEF ServInv, BornInv, GuardInv, Idle
<1>3. EndInv'
  BY <1>1 DEF EndInv, Callers
<1>4. OwnedInv'
  <2>1. CASE core' = "dropping"
    <3>1. core = "running" /\ \A c \in Callers : call[c] = Idle
      BY <2>1 DEF EndOfInput, Abort, EndInv, Callers
    <3> QED BY <1>1, <3>1 DEF ServInv, OwnedInv, Runs, Holds, Idle
  <2>2. CASE core' # "dropping"
    BY <1>1, <2>2 DEF OwnedInv
  <2> QED BY <2>1, <2>2
<1> QED BY <1>2, <1>3, <1>4 DEF ServInv

LEMMA DropServ ==
  ASSUME TypeOK, CallsFit, ServInv, EndInv, DropStep
  PROVE  ServInv' /\ EndInv'
<1>1. /\ core = "dropping" /\ (\A c \in Callers : call[c] = Idle) /\ UNCHANGED <<remote, call, owner>>
  BY DEF DropStep, DropChildren, DropKill, DropEnds, EndInv
<1>2. \A p \in Procs : Runs(p) /\ p \notin stray => children[owner[p]] = p
  BY <1>1 DEF ServInv, OwnedInv, Holds, Idle
<1>3. CASE DropKill
  <2>1. PICK p \in Procs : Kill(p)
    BY <1>3 DEF DropKill, InMap, TypeOK, ServersType
  <2>2. UNCHANGED <<core, children>>
    BY <1>3 DEF DropKill
  <2>3. /\ \A q \in Procs : /\ proc'[q] \in {"alive", "killed"} => proc[q] \in {"alive", "killed"}
                            /\ proc'[q] = "unborn" <=> proc[q] = "unborn"
        /\ stray \subseteq stray'
    BY <2>1, Killed
  <2>4. BornInv'
    <3>1. \A s \in Screens : children[s] # None => children[s] \in Procs
      BY DEF TypeOK, ServersType
    <3> QED BY <1>1, <2>2, <2>3, <3>1 DEF ServInv, BornInv, Idle
  <2>5. GuardInv'
    BY <1>1 DEF GuardInv, Idle
  <2>6. OwnedInv'
    BY <1>1, <1>2, <2>2, <2>3 DEF OwnedInv, Runs
  <2>7. EndInv'
    BY <1>1, <2>2 DEF EndInv
  <2> QED BY <2>4, <2>5, <2>6, <2>7 DEF ServInv
<1>4. CASE DropEnds
  <2>1. /\ \A p \in Procs : proc'[p] = IF p \in InMap THEN "reaped" ELSE proc[p]
        /\ \A s \in Screens : children'[s] = None
        /\ core' = "ended" /\ stray' = stray /\ \A p \in InMap : ~Runs(p)
    BY <1>4 DEF DropEnds
  <2>2. \A p \in InMap \cap Procs : proc[p] # "unborn"
    BY DEF InMap, ServInv, BornInv
  <2>3. BornInv' /\ GuardInv' /\ OwnedInv'
    BY <1>1, <2>1, <2>2 DEF ServInv, BornInv, GuardInv, OwnedInv, Idle
  <2>4. ASSUME NEW p \in Procs, proc'[p] \in {"alive", "killed"}, p \notin stray
        PROVE  FALSE
    <3>1. Runs(p) /\ p \notin InMap
      BY <2>1, <2>4 DEF Runs
    <3>2. owner[p] \in Screens
      BY <3>1 DEF ServInv, BornInv, Runs
    <3> QED BY <1>2, <2>4, <3>1, <3>2, ServersAssumption DEF InMap
  <2>5. EndInv'
    BY <1>1, <2>1, <2>4 DEF EndInv, Runs
  <2> QED BY <2>3, <2>5 DEF ServInv
<1> QED BY <1>3, <1>4 DEF DropStep, DropChildren

\* A step of a thread that holds no process and takes none leaves the processes owned.
LEMMA CallServ ==
  ASSUME TypeOK, CallsFit, ServInv, EndInv, NEW c \in Callers, UNCHANGED <<core, remote>>,
         (Request(c) /\ UNCHANGED servers) \/ Step(c)
  PROVE  ServInv'
<1>1. CASE Request(c) /\ UNCHANGED servers
  <2>1. PICK new : /\ call' = [call EXCEPT ![c] = new] /\ new.at = "begin" /\ call[c] = Idle
    BY <1>1 DEF Request, Take
  <2>2. core' = core
    OBVIOUS
  <2>3. UNCHANGED <<proc, owner, children, guard, stray>>
    BY <1>1 DEF servers
  <2>4. call[c].at \notin {"spawned", "reaping"} /\ new.at \notin {"spawned", "reaping"}
    BY <2>1 DEF Idle
  <2>5. call' = [call EXCEPT ![c] = new]
    BY <2>1
  <2> QED BY <2>2, <2>3, <2>4, <2>5, ServersKept
<1>2. CASE (Refuse(c) \/ ConfigureCall(c) \/ PairingCall(c)) /\ UNCHANGED servers
  <2>1. PICK new : /\ call' = [call EXCEPT ![c] = new] /\ new.at \notin {"spawned", "reaping"}
                   /\ call[c].at \notin {"spawned", "reaping"}
    <3>1. CASE Refuse(c)
      BY <3>1 DEF Refuse, Answered, Idle
    <3>2. CASE ConfigureCall(c)
      BY <3>2 DEF ConfigureCall, Merge, Apply, SendConfig, At, To, Answered, Idle
    <3>3. CASE PairingCall(c)
      BY <3>3 DEF PairingCall, CreateQr, LookUp, Discover, Pair, Confirm, CancelQr, At, To, Answered, Idle
    <3> QED BY <1>2, <3>1, <3>2, <3>3
  <2> QED BY <1>2, <2>1, ServersKept DEF servers
<1>3. CASE ServersCall(c)
  BY <1>3, SpawnServ, InsertServ, StopServ, ReapServ DEF ServersCall
<1> QED BY <1>1, <1>2, <1>3 DEF Step

LEMMA ServSteps == TypeOK /\ CallsFit /\ ServInv /\ EndInv /\ [Next]_vars => ServInv' /\ EndInv'
<1> SUFFICES ASSUME TypeOK, CallsFit, ServInv, EndInv, [Next]_vars PROVE ServInv' /\ EndInv'
  OBVIOUS
<1>1. ASSUME NEW c \in Callers,
             \/ Request(c) /\ UNCHANGED <<core, remote, keepalive, pairings, servers>>
             \/ Step(c)
      PROVE  ServInv' /\ EndInv'
  <2>1. UNCHANGED <<core, remote>> /\ core = "running" /\ \A d \in Callers : d # c => call'[d] = call[d]
    <3>1. CASE Request(c) /\ UNCHANGED <<core, remote, keepalive, pairings, servers>>
      BY <3>1 DEF Request, Take, TypeOK
    <3>2. CASE Refuse(c) /\ UNCHANGED <<core, remote, taken, keepalive, pairings, servers>>
      BY <3>2 DEF Refuse, Answered, TypeOK
    <3>3. CASE ConfigureCall(c) /\ UNCHANGED <<core, remote, taken, pairings, servers>>
      BY <3>3 DEF ConfigureCall, Merge, Apply, SendConfig, At, To, Answered, TypeOK
    <3>4. CASE PairingCall(c) /\ UNCHANGED <<core, remote, taken, keepalive, servers>>
      BY <3>4 DEF PairingCall, CreateQr, LookUp, Discover, Pair, Confirm, CancelQr, At, To, Answered, TypeOK
    <3>5. CASE ServersCall(c) /\ UNCHANGED <<core, remote, taken, keepalive, pairings>>
      BY <3>5 DEF ServersCall, Spawn, Insert, Reap, Stop, At, To, Answered, TypeOK
    <3> QED BY <1>1, <3>1, <3>2, <3>3, <3>4, <3>5 DEF Step
  <2>2. ServInv'
    BY <1>1, <2>1, CallServ
  <2>3. c = Quic => remote
    <3>1. CASE call[c] = Idle
      BY <1>1, <3>1 DEF Request, Take, Step, Refuse, ConfigureCall, PairingCall, ServersCall, Merge, Apply,
            SendConfig, CreateQr, LookUp, Discover, Pair, Confirm, CancelQr, Spawn, Insert, Reap, Stop, At, Idle
    <3> QED BY <3>1 DEF EndInv
  <2>4. EndInv'
    BY <2>1, <2>3 DEF EndInv, Callers
  <2> QED BY <2>2, <2>4
<1>2. CASE UNCHANGED <<core, remote, call, servers>>
  BY <1>2 DEF servers, ServInv, BornInv, GuardInv, OwnedInv, EndInv, Runs, Holds
<1>3. ASSUME NEW p \in Procs, ExitStep(p) PROVE ServInv' /\ EndInv'
  <2>1. \A q \in Procs : proc'[q] \in {"alive", "killed"} => proc[q] \in {"alive", "killed"}
    BY <1>3 DEF ExitStep, Exit, TypeOK, ServersType
  <2>2. EndInv'
    BY <1>3, <2>1 DEF ExitStep, Exit, EndInv, Runs
  <2> QED BY <1>3, <2>2, ExitServ
<1>4. CASE (EndOfInput \/ Abort) /\ UNCHANGED <<remote, taken, keepalive, pairings>>
  BY <1>4, EndServ
<1>5. CASE DropStep
  BY <1>5, DropServ
<1> QED BY <1>1, <1>2, <1>3, <1>4, <1>5 DEF Next, LoopStep, vars

\* Every running server process can still be stopped (ServersAreOwned): the requests'
\* steps keep it in the map or in a request's hands, and an orderly end kills it.
THEOREM ServersAlwaysOwned == Spec => []ServersAreOwned
<1>1. Init => ServInv /\ EndInv
  <2> SUFFICES ASSUME Init PROVE ServInv /\ EndInv
    OBVIOUS
  <2> QED BY DEF Init, CallsInit, ServersInit, ServInv, BornInv, GuardInv, OwnedInv, EndInv, Runs, Idle, Callers
<1>2. TypeOK /\ CallsFit /\ ServInv /\ EndInv /\ [Next]_vars => ServInv' /\ EndInv'
  BY ServSteps
<1>3. CallsFit /\ ServInv /\ EndInv => ServersAreOwned
  BY DEF ServersAreOwned, ServInv, OwnedInv, EndInv, Holds
<1>4. Spec => [](TypeOK /\ CallsFit)
  BY InitTypes, StepTypes, PTL DEF Spec
<1> QED BY <1>1, <1>2, <1>3, <1>4, PTL DEF Spec

\* The processes of a session that still run after a stop was answered.
LEMMA StopStep ==
  TypeOK /\ CallsFit /\ ServInv /\ ServInv' /\ [Next]_vars =>
    [\A c \in Callers : call[c].op = "stop" /\ call'[c] = Idle /\ core' = "running" =>
       \A p \in Procs : Runs(p)' /\ owner[p] = call[c].arg =>
         p \in stray' \/ \E d \in Callers : call[d].op = "start" /\ call[d].got = p]_<<call, servers>>
<1> SUFFICES ASSUME TypeOK, CallsFit, ServInv, ServInv', [Next]_vars,
                    NEW c \in Callers, call[c].op = "stop", call'[c] = Idle, core' = "running",
                    NEW p \in Procs, proc'[p] \in {"alive", "killed"}, owner[p] = call[c].arg,
                    p \notin stray'
             PROVE  \E d \in Callers : call[d].op = "start" /\ call[d].got = p
  BY DEF Runs
<1>1. Stop(c) \/ Reap(c)
  <2>1. call'[c] # call[c]
    BY DEF Idle
  <2>2. PICK d \in Callers : Request(d) \/ Step(d)
    BY <2>1 DEF Next, LoopStep, DropStep, Age, ExitStep, EndOfInput, Abort, vars
  <2>3. d = c
    <3> SUFFICES ASSUME d # c PROVE call'[c] = call[c]
      BY <2>1
    <3>1. \E new : call' = [call EXCEPT ![d] = new]
      BY <2>2 DEF Request, Take, Step, Refuse, ConfigureCall, PairingCall, ServersCall, Merge, Apply,
            SendConfig, CreateQr, LookUp, Discover, Pair, Confirm, CancelQr, Spawn, Insert, Reap, Stop, To, Answered
    <3> QED BY <3>1 DEF TypeOK
  <2> QED BY <2>2, <2>3 DEF Request, Take, Step, Refuse, ConfigureCall, PairingCall, ServersCall, Merge, Apply,
            SendConfig, CreateQr, LookUp, Discover, Pair, Confirm, CancelQr, Spawn, Insert, At, Idle
<1>2. call[c].arg \in Screens
  BY <1>1 DEF CallsFit, Fits, Stop, Reap, At, Idle, Busy
<1>3. owner' = owner /\ children'[call[c].arg] = None
  <2>1. CASE Stop(c)
    BY <1>2, <2>1 DEF Stop, TypeOK, ServersType
  <2>2. CASE Reap(c)
    BY <2>2 DEF Reap, ServInv, GuardInv
  <2> QED BY <1>1, <2>1, <2>2
<1>4. PICK d \in Callers : call'[d].at \in {"spawned", "reaping"} /\ call'[d].got = p
  BY <1>3, ServersAssumption DEF ServInv, OwnedInv, Runs, Holds
<1>5. d # c /\ call'[d] = call[d]
  <2>1. d # c
    BY <1>4 DEF Idle
  <2> QED BY <2>1, <1>1 DEF Stop, Reap, To, Answered, TypeOK
<1>6. call[d].at # "reaping"
  <2>1. CASE Stop(c)
    BY <2>1, CallsAssumption DEF Stop, ServInv, GuardInv
  <2>2. CASE Reap(c)
    BY <2>2, <1>5 DEF Reap, ServInv, GuardInv
  <2> QED BY <1>1, <2>1, <2>2
<1>7. call[d].op = "start"
  BY <1>4, <1>5, <1>6 DEF CallsFit, Fits, Idle, Busy
<1> QED BY <1>4, <1>5, <1>7

\* A stop that is answered leaves no server of its session running, whatever starts it
\* interleaved with, except the one a start has in hand (StoppedMeansGone).
THEOREM StopAlwaysMeansGone == Spec => StoppedMeansGone
<1>1. Init => ServInv /\ EndInv
  <2> SUFFICES ASSUME Init PROVE ServInv /\ EndInv
    OBVIOUS
  <2> QED BY DEF Init, CallsInit, ServersInit, ServInv, BornInv, GuardInv, OwnedInv, EndInv, Runs, Idle, Callers
<1>2. TypeOK /\ CallsFit /\ ServInv /\ EndInv /\ [Next]_vars => ServInv' /\ EndInv'
  BY ServSteps
<1>3. Spec => [](TypeOK /\ CallsFit)
  BY InitTypes, StepTypes, PTL DEF Spec
<1> QED BY <1>1, <1>2, <1>3, StopStep, PTL DEF Spec, StoppedMeansGone
===============================================================================
