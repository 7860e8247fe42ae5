------------------------- MODULE CompanionClientProofs -------------------------
(***************************************************************************)
(* What holds of the companion's connection for any number of engines,       *)
(* configurations, retries and starts.                                       *)
(***************************************************************************)
EXTENDS CompanionClient, SequenceTheorems, TLAPS

\* The connector works on a configuration, and later on a transport of its own.
ConnectorInv ==
  /\ at[Connector] \notin {"idle", "top", "exit", "recheck"} => arg \in Configs
  /\ at[Connector] \in {"install", "attach", "hello", "sending"} => held[Connector] \in Transports
  /\ at[Connector] = "install" => held[Connector] # current

\* connectionInProgress is set while the connector works or has a job.
BusyInv ==
  /\ jobs > 0 => busy
  /\ at[Connector] \notin {"idle", "recheck"} => busy /\ jobs = 0

\* The receiver and the encoder have a transport in hand while they work.
HeldInv ==
  /\ at[Receiver] = "idle" => held[Receiver] = None
  /\ at[Receiver] # "idle" => held[Receiver] \in Transports
  /\ at[Encoder] # "idle" => held[Encoder] \in Transports

\* The main thread knows the retry that it is about to delay.
RetryInv == at[Main] = "delay" => retry \in [of: Configs, after: 0 .. MaxAttempts - 1]

ServiceInv == TypeOK /\ ConnectorInv /\ BusyInv /\ HeldInv /\ RetryInv
-----------------------------------------------------------------------------
(* The native client *)

\* What a call, a message, a loss or a close does to the client.
ClientSteps ==
  \/ \E t \in Transports : Connect(t) \/ Receive(t) \/ Lose(t)
  \/ \E a \in Threads, t \in Transports : Enter(a, t) \/ AskClose(a, t)
  \/ \E a \in Threads : Sent(a) \/ FrameSent(a) \/ SendFails(a) \/ Close(a) \/ \E r \in {"message", "nothing", "error"} : Poll(a, r)
  \/ UNCHANGED client

LEMMA ClientTyped == ClientType /\ ClientSteps => ClientType'
<1> SUFFICES ASSUME ClientType, ClientSteps PROVE ClientType'
  OBVIOUS
<1> USE ClientAssumption DEF ClientType
<1>1. ASSUME NEW t \in Transports, Connect(t) \/ Receive(t) \/ Lose(t) PROVE ClientType'
  <2>1. CASE Connect(t)
    BY <2>1 DEF Connect
  <2>2. CASE Receive(t)
    <3>1. inbox[t] \in 0 .. Inbox /\ inbox[t] + 1 \in 0 .. Inbox
      BY <2>2 DEF Receive
    <3> QED BY <2>2, <3>1 DEF Receive
  <2>3. CASE Lose(t)
    BY <2>3 DEF Lose
  <2> QED BY <1>1, <2>1, <2>2, <2>3
<1>2. ASSUME NEW a \in Threads, NEW t \in Transports, Enter(a, t) \/ AskClose(a, t) PROVE ClientType'
  BY <1>2 DEF Enter, AskClose
<1>3. ASSUME NEW a \in Threads, Sent(a) \/ FrameSent(a) \/ SendFails(a) PROVE ClientType'
  BY <1>3 DEF Sent, FrameSent, SendFails, Leave
<1>4. ASSUME NEW a \in Threads, Close(a) PROVE ClientType'
  <2>1. CASE handle[closing[a]] = "live"
    <3>1. 0 \in 0 .. Inbox
      OBVIOUS
    <3>2. /\ handle' = [handle EXCEPT ![closing[a]] = "closed"] /\ up' = [up EXCEPT ![closing[a]] = {}]
          /\ inbox' = [inbox EXCEPT ![closing[a]] = 0]
      BY <1>4, <2>1 DEF Close, Free
    <3>3. closing' = [closing EXCEPT ![a] = None] /\ UNCHANGED calling
      BY <1>4 DEF Close
    <3> QED BY <3>1, <3>2, <3>3
  <2>2. CASE handle[closing[a]] # "live"
    BY <1>4, <2>2 DEF Close
  <2> QED BY <2>1, <2>2
<1>5. ASSUME NEW a \in Threads, NEW r, Poll(a, r) PROVE ClientType'
  <2>1. UNCHANGED <<handle, up, closing>> /\ calling' = [calling EXCEPT ![a] = None]
    BY <1>5 DEF Poll, Leave
  <2>2. inbox' \in [Transports -> 0 .. Inbox]
    <3>1. \A n \in 0 .. Inbox : n > 0 => n - 1 \in 0 .. Inbox
      OBVIOUS
    <3>2. CASE r = "message" /\ inbox[calling[a]] > 0 /\ calling[a] \in Transports
      BY <1>5, <3>1, <3>2 DEF Poll
    <3>3. CASE calling[a] \notin Transports
      BY <1>5, <3>3 DEF Poll
    <3>4. CASE r # "message" /\ calling[a] \in Transports
      BY <1>5, <3>4 DEF Poll
    <3> QED BY <1>5, <3>2, <3>3, <3>4 DEF Poll, Polled
  <2> QED BY <2>1, <2>2
<1>6. CASE UNCHANGED client
  BY <1>6 DEF client
<1> QED BY <1>1, <1>2, <1>3, <1>4, <1>5, <1>6 DEF ClientSteps

LEMMA CallsSafe == ClientType /\ NativeCallsAreSafe /\ ClientSteps => NativeCallsAreSafe'
<1> SUFFICES ASSUME ClientType, NativeCallsAreSafe, ClientSteps PROVE NativeCallsAreSafe'
  OBVIOUS
<1> USE ClientAssumption DEF ClientType, NativeCallsAreSafe
<1>1. ASSUME NEW t \in Transports, Connect(t) \/ Receive(t) \/ Lose(t) PROVE NativeCallsAreSafe'
  BY <1>1 DEF Connect, Receive, Lose
<1>2. ASSUME NEW a \in Threads, NEW t \in Transports, Enter(a, t) \/ AskClose(a, t) PROVE NativeCallsAreSafe'
  BY <1>2 DEF Enter, AskClose
<1>3. ASSUME NEW a \in Threads, NEW r, Sent(a) \/ FrameSent(a) \/ SendFails(a) \/ Poll(a, r) PROVE NativeCallsAreSafe'
  BY <1>3 DEF Sent, FrameSent, SendFails, Poll, Leave
<1>4. ASSUME NEW a \in Threads, Close(a) PROVE NativeCallsAreSafe'
  BY <1>4 DEF Close, Free
<1>5. CASE UNCHANGED client
  BY <1>5 DEF client
<1> QED BY <1>1, <1>2, <1>3, <1>4, <1>5 DEF ClientSteps

LEMMA StepsOfClient == ServiceInv /\ [Next]_vars => ClientSteps
<1> SUFFICES ASSUME ServiceInv, [Next]_vars PROVE ClientSteps
  OBVIOUS
<1> USE ServiceAssumption
<1>1. CASE Wire
  BY <1>1 DEF Wire, ClientSteps
<1>2. ASSUME NEW a \in {Main, Connector}, Closes(a) PROVE ClientSteps
  <2>1. CASE Detach(a)
    BY <1>2, <2>1 DEF Detach, ClientSteps, ServiceInv, TypeOK
  <2> QED BY <1>2, <2>1 DEF Closes, NextGeneration, Closed, ClientSteps
<1>3. CASE Attempt
  <2>1. CASE UNCHANGED client
    BY <2>1 DEF ClientSteps
  <2>2. CASE \E u \in Transports : Forgotten(u) /\ Connect(CHOOSE t \in Transports : Forgotten(t))
    BY <2>2 DEF ClientSteps
  <2> QED BY <1>3, <2>1, <2>2 DEF Attempt
<1>4. CASE SendHello
  BY <1>4 DEF SendHello, ClientSteps, ServiceInv, ConnectorInv, Is, Refused
<1>5. CASE StartReceiveLoop
  BY <1>5 DEF StartReceiveLoop, ClientSteps
<1>6. CASE LoopPolls \/ Handles
  BY <1>6 DEF LoopPolls, Handles, ClientSteps, ServiceInv, HeldInv, Is, Refused
<1>7. CASE Frame
  BY <1>7 DEF Frame, ClientSteps, ServiceInv, HeldInv, Is, Refused
<1>8. CASE UNCHANGED client
  BY <1>8 DEF ClientSteps
<1> QED
  BY <1>1, <1>2, <1>3, <1>4, <1>5, <1>6, <1>7, <1>8
     DEF Next, vars, Handler, Post, Retry, Connects, Receives, Configure, Restart, Fire, Destroy, StartIfIdle, MainClosed, Delay,
         AttemptFailed, ConnectionLost, ReadPending, ClearPending, ForgetTransport, Install, Attach,
         ResetAttempts, PostFailure, GoIdle, Recheck, LoopStarts, LoopChecks

-----------------------------------------------------------------------------
(* The service *)

\* What is scheduled is a retry of the configuration that was asked for.
LEMMA Scheduled ==
  ASSUME TypeOK, NEW c \in Configs, Schedule(c)
  PROVE  /\ at' = [at EXCEPT ![Main] = "delay"] \/ at' = [at EXCEPT ![Main] = "idle"]
         /\ retry' \in [of: Configs, after: 0 .. MaxAttempts - 1] \cup {None}
         /\ RetryInv'
<1>2. CASE attempts < MaxAttempts
  <2>1. attempts \in 0 .. MaxAttempts - 1
    BY <1>2, ServiceAssumption DEF TypeOK
  <2>2. retry' = [of |-> c, after |-> attempts] /\ at' = [at EXCEPT ![Main] = "delay"]
    BY <1>2 DEF Schedule, Go
  <2>3. retry' \in [of: Configs, after: 0 .. MaxAttempts - 1]
    BY <2>1, <2>2
  <2> QED BY <2>2, <2>3 DEF RetryInv
<1>3. CASE ~(attempts < MaxAttempts)
  <2>1. at' = [at EXCEPT ![Main] = "idle"] /\ retry' = retry /\ at'[Main] = "idle"
    BY <1>3, ServiceAssumption DEF Schedule, Go, TypeOK
  <2> QED BY <2>1 DEF RetryInv, TypeOK
<1> QED BY <1>2, <1>3

\* The main thread's handlers.
LEMMA MainSteps ==
  ASSUME ServiceInv, ClientType',
         \/ \E c \in Configs : Configure(c)
         \/ Restart \/ Destroy \/ Handler \/ Post \/ Retry
  PROVE  ServiceInv'
<1> USE ServiceAssumption DEF ServiceInv, TypeOK, ConnectorInv, BusyInv, HeldInv, RetryInv, Steps, Is, Go
<1>1. Cancelled \in [Timers -> Configs \cup {None}]
  BY DEF Cancelled
<1>2. ASSUME NEW c \in Configs, Configure(c) PROVE ServiceInv'
  BY <1>1, <1>2 DEF Configure, Want
<1>3. CASE Restart
  BY <1>1, <1>3 DEF Restart, Want
<1>4. ASSUME NEW r \in Timers, Fire(r) PROVE ServiceInv'
  BY <1>4 DEF Fire, Want
<1>5. CASE Destroy
  BY <1>1, <1>5 DEF Destroy, retries
<1>6. CASE StartIfIdle
  <2>1. CASE busy
    BY <1>6, <2>1 DEF StartIfIdle, retries
  <2>2. CASE ~busy
    <3>1. jobs = 0 /\ jobs + 1 \in 0 .. 1 /\ at[Connector] \in {"idle", "recheck"}
      BY <2>2
    <3> QED BY <1>6, <2>2, <3>1 DEF StartIfIdle, Execute, retries
  <2> QED BY <2>1, <2>2
<1>7. CASE Closes(Main)
  <2>1. CASE NextGeneration(Main)
    <3>1. /\ at' \in [Threads -> Steps] /\ at'[Connector] = at[Connector]
          /\ at'[Receiver] = at[Receiver] /\ at'[Encoder] = at[Encoder]
      BY <2>1 DEF NextGeneration
    <3>2. held[Connector] # None \/ at[Connector] # "install"
      BY ClientAssumption
    <3> QED BY <2>1, <3>1, <3>2 DEF NextGeneration, retries
  <2>2. CASE Detach(Main)
    BY <2>2 DEF Detach, retries
  <2>3. CASE Closed(Main)
    BY <2>3 DEF Closed, retries
  <2> QED BY <1>7, <2>1, <2>2, <2>3 DEF Closes
<1>8. CASE MainClosed
  <2>1. /\ at' = [at EXCEPT ![Main] = "delay"] \/ at' = [at EXCEPT ![Main] = "idle"]
        /\ retry' \in [of: Configs, after: 0 .. MaxAttempts - 1] \cup {None} /\ RetryInv'
    BY <1>8, Scheduled DEF MainClosed
  <2>2. /\ at' \in [Threads -> Steps] /\ at'[Connector] = at[Connector]
        /\ at'[Receiver] = at[Receiver] /\ at'[Encoder] = at[Encoder]
    BY <2>1
  <2>3. /\ transport' = None /\ ending' = FALSE
        /\ UNCHANGED <<client, saved, pending, busy, active, current, attempts, timer, callback, posts, arg, held, starts>>
    BY <1>8 DEF MainClosed
  <2>4. CASE ending
    <3>1. <<>> \in Seq(Transports) /\ 0 \in 0 .. 1
      OBVIOUS
    <3>2. life' = "destroyed" /\ jobs' = 0 /\ loops' = <<>>
      BY <1>8, <2>4 DEF MainClosed
    <3>3. TypeOK'
      BY <2>1, <2>2, <2>3, <3>1, <3>2
    <3>4. ConnectorInv' /\ BusyInv' /\ HeldInv' /\ RetryInv'
      BY <2>1, <2>2, <2>3, <3>1, <3>2
    <3> QED BY <3>3, <3>4
  <2>5. CASE ~ending
    <3>1. UNCHANGED <<life, jobs, loops>>
      BY <1>8, <2>5 DEF MainClosed
    <3>2. TypeOK'
      BY <2>1, <2>2, <2>3, <3>1
    <3>3. ConnectorInv' /\ BusyInv' /\ HeldInv' /\ RetryInv'
      BY <2>1, <2>2, <2>3, <3>1
    <3> QED BY <3>2, <3>3
  <2> QED BY <2>4, <2>5
<1>9. CASE AttemptFailed
  <2>1. Head(posts).of \in Configs /\ Tail(posts) \in Seq({Failed(c) : c \in Configs} \cup {Lost(t) : t \in Transports})
    BY <1>9 DEF AttemptFailed, Failed, Lost
  <2>2. /\ at' = [at EXCEPT ![Main] = "delay"] \/ at' = [at EXCEPT ![Main] = "idle"]
        /\ retry' \in [of: Configs, after: 0 .. MaxAttempts - 1] \cup {None} /\ RetryInv'
    BY <1>9, <2>1, Scheduled DEF AttemptFailed
  <2>3. /\ at' \in [Threads -> Steps] /\ at'[Connector] = at[Connector]
        /\ at'[Receiver] = at[Receiver] /\ at'[Encoder] = at[Encoder]
    BY <2>2
  <2> QED BY <1>9, <2>1, <2>2, <2>3 DEF AttemptFailed
<1>11. CASE Delay
  <2>1. PICK r \in Timers : timer' = [timer EXCEPT ![r] = retry.of] /\ callback' = r
    BY <1>11 DEF Delay
  <2>2. at' = [at EXCEPT ![Main] = "idle"] /\ attempts' = retry.after + 1 /\ retry' = None
    BY <1>11 DEF Delay
  <2>3. retry.of \in Configs /\ attempts' \in 0 .. MaxAttempts
    BY <1>11, <2>2 DEF Delay
  <2> QED BY <1>11, <2>1, <2>2, <2>3 DEF Delay
<1>10. CASE ConnectionLost
  BY <1>10 DEF ConnectionLost, retries
<1> QED BY <1>2, <1>3, <1>4, <1>5, <1>6, <1>7, <1>8, <1>9, <1>10, <1>11 DEF Handler, Post, Retry

\* The connector's.
LEMMA ConnectorSteps ==
  ASSUME ServiceInv, ClientType', Connects
  PROVE  ServiceInv'
<1> USE ServiceAssumption DEF ServiceInv, TypeOK, ConnectorInv, BusyInv, HeldInv, RetryInv, Steps, Is, Go, GoWith, retries
<1>1. CASE ReadPending
  BY <1>1 DEF ReadPending
<1>2. CASE ClearPending \/ ForgetTransport \/ Install \/ Attach \/ GoIdle
  <2>1. CASE ClearPending \/ ForgetTransport
    BY <2>1 DEF ClearPending, ForgetTransport
  <2>2. CASE Install
    BY <2>2 DEF Install
  <2>3. CASE Attach
    BY <2>3 DEF Attach
  <2>4. CASE GoIdle
    <3>1. /\ at' \in [Threads -> Steps] /\ at'[Connector] = "recheck" /\ at'[Main] = at[Main]
          /\ at'[Receiver] = at[Receiver] /\ at'[Encoder] = at[Encoder]
      BY <2>4 DEF GoIdle
    <3>2. jobs = 0 /\ busy' = FALSE
      BY <2>4 DEF GoIdle
    <3>3. UNCHANGED <<life, saved, pending, jobs, transport, active, current, attempts, timer, callback, retry,
                      posts, loops, arg, held, ending, starts>>
      BY <2>4 DEF GoIdle
    <3>4. TypeOK'
      <4>1. /\ life' \in {"running", "destroyed", "crashed"} /\ saved' \in Configs \cup {None}
            /\ pending' \in Configs \cup {None} /\ busy' \in BOOLEAN /\ ending' \in BOOLEAN /\ jobs' \in 0 .. 1
            /\ transport' \in Transports \cup {None} /\ active' \in Transports \cup {None}
            /\ current' \in Transports \cup {None}
        BY <3>2, <3>3
      <4>2. /\ attempts' \in 0 .. MaxAttempts /\ timer' \in [Timers -> Configs \cup {None}]
            /\ callback' \in Timers \cup {None}
            /\ retry' \in [of: Configs, after: 0 .. MaxAttempts - 1] \cup {None}
            /\ posts' \in Seq({Failed(c) : c \in Configs} \cup {Lost(t) : t \in Transports})
            /\ loops' \in Seq(Transports) /\ arg' \in Configs \cup {None}
            /\ held' \in [Threads -> Transports \cup {None}] /\ starts' \in 0 .. MaxStarts
        BY <3>3
      <4> QED BY <3>1, <4>1, <4>2
    <3>5. ConnectorInv' /\ BusyInv' /\ HeldInv'
      BY <3>1, <3>2, <3>3
    <3>6. RetryInv'
      BY <3>1, <3>3
    <3> QED BY <3>4, <3>5, <3>6
  <2> QED BY <1>2, <2>1, <2>2, <2>3, <2>4
<1>3. CASE Closes(Connector)
  BY <1>3 DEF Closes, NextGeneration, Detach, Closed
<1>4. CASE Attempt
  BY <1>4 DEF Attempt, Forgotten
<1>5. CASE SendHello
  BY <1>5 DEF SendHello
<1>6. CASE StartReceiveLoop
  <2>1. held[Connector] \in Transports /\ Append(loops, held[Connector]) \in Seq(Transports)
    BY <1>6 DEF StartReceiveLoop
  <2>2. CASE life = "running"
    <3>1. /\ at' \in [Threads -> Steps] /\ at'[Connector] = "connected" /\ at'[Main] = at[Main]
          /\ at'[Receiver] = at[Receiver] /\ at'[Encoder] = at[Encoder]
          /\ held' \in [Threads -> Transports \cup {None}] /\ held'[Receiver] = held[Receiver] /\ held'[Encoder] = held[Encoder]
      BY <1>6, <2>2 DEF StartReceiveLoop
    <3>2. loops' \in Seq(Transports) /\ current' \in Transports /\ busy /\ jobs = 0 /\ arg \in Configs
      BY <1>6, <2>1, <2>2 DEF StartReceiveLoop
    <3>3. UNCHANGED <<life, saved, pending, busy, jobs, transport, active, attempts, timer, callback, retry, posts, arg, ending, starts>>
      BY <1>6 DEF StartReceiveLoop
    <3> QED BY <3>1, <3>2, <3>3
  <2>3. CASE life # "running"
    BY <1>6, <2>1, <2>3 DEF StartReceiveLoop
  <2> QED BY <2>2, <2>3
<1>9. CASE ResetAttempts
  <2>1. 0 \in 0 .. MaxAttempts
    OBVIOUS
  <2> QED BY <1>9, <2>1 DEF ResetAttempts
<1>7. CASE PostFailure
  BY <1>7 DEF PostFailure
<1>8. CASE Recheck
  <2>1. CASE pending # None /\ ~busy
    <3>1. jobs = 0 /\ jobs + 1 \in 0 .. 1
      BY <2>1
    <3> QED BY <1>8, <2>1, <3>1 DEF Recheck, Execute
  <2>2. CASE ~(pending # None /\ ~busy)
    BY <1>8, <2>2 DEF Recheck
  <2> QED BY <2>1, <2>2
<1> QED BY <1>1, <1>2, <1>3, <1>4, <1>5, <1>6, <1>7, <1>8, <1>9 DEF Connects

\* The receiver's and the encoder's.
LEMMA ReceiverSteps ==
  ASSUME ServiceInv, ClientType', Receives \/ Frame
  PROVE  ServiceInv'
<1> USE ServiceAssumption DEF ServiceInv, TypeOK, ConnectorInv, BusyInv, HeldInv, RetryInv, Steps, Is, Go, GoWith, retries
<1>1. CASE LoopStarts
  BY <1>1 DEF LoopStarts
<1>2. CASE LoopChecks
  BY <1>2 DEF LoopChecks
<1>3. CASE LoopPolls \/ Handles
  <2>1. /\ at[Receiver] # "idle" /\ held[Receiver] \in Transports
        /\ \/ \E s \in {"polling", "check", "reply", "replying"} : GoesOn(s)
           \/ Breaks
        /\ UNCHANGED <<life, saved, pending, busy, jobs, transport, active, current, retries, loops,
                     arg, ending, starts>>
    BY <1>3 DEF LoopPolls, Handles
  <2>2. CASE \E s \in {"polling", "check", "reply", "replying"} : GoesOn(s)
    BY <2>1, <2>2 DEF GoesOn
  <2>3. CASE Breaks
    <3>1. Append(posts, Lost(held[Receiver])) \in Seq({Failed(c) : c \in Configs} \cup {Lost(t) : t \in Transports})
      BY <2>1
    <3> QED BY <2>1, <2>3, <3>1 DEF Breaks
  <2> QED BY <2>1, <2>2, <2>3
<1>4. CASE Frame
  BY <1>4 DEF Frame
<1> QED BY <1>1, <1>2, <1>3, <1>4 DEF Receives

LEMMA ServiceSteps == ServiceInv /\ [Next]_vars => ServiceInv'
<1> SUFFICES ASSUME ServiceInv, [Next]_vars PROVE ServiceInv'
  OBVIOUS
<1>1. ClientType'
  BY StepsOfClient, ClientTyped DEF ServiceInv, TypeOK
<1>2. CASE UNCHANGED service
  BY <1>1, <1>2 DEF service, retries, ServiceInv, TypeOK, ConnectorInv, BusyInv, HeldInv, RetryInv
<1> QED BY <1>1, <1>2, MainSteps, ConnectorSteps, ReceiverSteps DEF Next, vars, Wire

LEMMA InitService == Init => ServiceInv /\ NativeCallsAreSafe
<1> SUFFICES ASSUME Init PROVE ServiceInv /\ NativeCallsAreSafe
  OBVIOUS
<1> USE ServiceAssumption, ClientAssumption DEF Init, ClientInit
<1>1. ClientType /\ NativeCallsAreSafe
  BY DEF ClientType, NativeCallsAreSafe
<1>2. posts \in Seq({Failed(c) : c \in Configs} \cup {Lost(t) : t \in Transports}) /\ loops \in Seq(Transports)
  OBVIOUS
<1>3. TypeOK
  <2>1. 0 \in 0 .. 1 /\ 0 \in 0 .. MaxAttempts /\ 0 \in 0 .. MaxStarts
    OBVIOUS
  <2>2. at \in [Threads -> Steps] /\ held \in [Threads -> Transports \cup {None}]
    BY DEF Steps
  <2>3. timer \in [Timers -> Configs \cup {None}]
    OBVIOUS
  <2> QED BY <1>1, <1>2, <2>1, <2>2, <2>3 DEF TypeOK
<1>4. ConnectorInv /\ BusyInv /\ HeldInv /\ RetryInv
  BY DEF ConnectorInv, BusyInv, HeldInv, RetryInv
<1> QED BY <1>1, <1>3, <1>4 DEF ServiceInv

\* The state of the companion's connection has its types: one job at most waits for the
\* connector, and no thread works without what its step needs.
THEOREM ClientTypeCorrect == Spec => []TypeOK
<1>1. ServiceInv => TypeOK
  BY DEF ServiceInv
<1> QED BY <1>1, InitService, ServiceSteps, PTL DEF Spec

\* No native call works on a freed handle, with any number of engines: the read lock keeps
\* a close out until the calls have left, and a call begins on a live handle only.
THEOREM NativeCallsAlwaysSafe == Spec => []NativeCallsAreSafe
<1>1. ServiceInv /\ NativeCallsAreSafe /\ [Next]_vars => NativeCallsAreSafe'
  BY StepsOfClient, CallsSafe DEF ServiceInv, TypeOK
<1> QED BY <1>1, InitService, ServiceSteps, PTL DEF Spec
-----------------------------------------------------------------------------
(* The receive loop of the installed connection *)

LEMMA RangeAppend ==
  ASSUME NEW S, NEW s \in Seq(S), NEW e \in S
  PROVE  Range(s) \subseteq Range(Append(s, e)) /\ e \in Range(Append(s, e))
<1>1. /\ DOMAIN s = 1 .. Len(s) /\ DOMAIN Append(s, e) = 1 .. Len(s) + 1 /\ Len(s) \in Nat
      /\ \A i \in 1 .. Len(s) : Append(s, e)[i] = s[i]
      /\ Append(s, e)[Len(s) + 1] = e
  OBVIOUS
<1> QED BY <1>1 DEF Range

LEMMA RangeTail ==
  ASSUME NEW S, NEW s \in Seq(S), s # <<>>
  PROVE  Range(s) \subseteq {Head(s)} \cup Range(Tail(s))
<1>1. /\ DOMAIN s = 1 .. Len(s) /\ DOMAIN Tail(s) = 1 .. Len(s) - 1 /\ Len(s) \in Nat
      /\ \A i \in 1 .. Len(s) - 1 : Tail(s)[i] = s[i + 1]
      /\ Head(s) = s[1]
  OBVIOUS
<1>2. ASSUME NEW n \in Nat, NEW i \in 1 .. n, i # 1 PROVE i - 1 \in 1 .. n - 1 /\ (i - 1) + 1 = i
  BY <1>2
<1>3. ASSUME NEW i \in 1 .. Len(s), i # 1 PROVE s[i] \in Range(Tail(s))
  <2>1. i - 1 \in DOMAIN Tail(s) /\ i - 1 \in 1 .. Len(s) - 1 /\ (i - 1) + 1 = i
    BY <1>1, <1>2, <1>3
  <2>2. Tail(s)[i - 1] = s[i]
    BY <1>1, <2>1
  <2> QED BY <2>1, <2>2 DEF Range
<1>4. ASSUME NEW x \in Range(s) PROVE x \in {Head(s)} \cup Range(Tail(s))
  <2>1. PICK i \in 1 .. Len(s) : x = s[i]
    BY <1>1, <1>4 DEF Range
  <2> QED BY <1>1, <1>3, <2>1
<1> QED BY <1>4

LEMMA Watched == ServiceInv /\ ConnectionIsWatched /\ [Next]_vars => ConnectionIsWatched'
<1> SUFFICES ASSUME ServiceInv, ConnectionIsWatched, [Next]_vars,
                    life' = "running", current' # None, transport' = current'
             PROVE  \/ current' \in Range(loops') \cup {held'[Receiver]}
                    \/ Lost(current') \in Range(posts')
                    \/ at'[Main] = "bump"
  BY DEF ConnectionIsWatched
<1>1. CASE /\ UNCHANGED <<current, transport, loops, posts>> /\ held'[Receiver] = held[Receiver]
           /\ life = "running" /\ (at[Main] = "bump" => at'[Main] = "bump")
  BY <1>1 DEF ConnectionIsWatched
<1>2. CASE Wire \/ Handler \/ Retry \/ Restart \/ Destroy \/ Frame \/ \E c \in Configs : Configure(c)
  <2>1. CASE Wire
    BY <1>1, <2>1 DEF Wire, service
  <2>2. CASE StartIfIdle
    BY <1>1, <2>2 DEF StartIfIdle, Execute, Is
  <2>3. CASE Closes(Main)
    BY <1>1, <2>3 DEF Closes, NextGeneration, Detach, Closed, Is
  <2>4. CASE MainClosed
    BY <2>4 DEF MainClosed
  <2>8. CASE Delay
    BY <1>1, <2>8 DEF Delay, Is
  <2>5. CASE Retry \/ Restart \/ \E c \in Configs : Configure(c)
    BY <1>1, <2>5 DEF Retry, Fire, Restart, Configure, Is
  <2>6. CASE Destroy
    BY <2>6, ServiceAssumption DEF Destroy, Go, ServiceInv, TypeOK
  <2>7. CASE Frame
    <3>1. held'[Receiver] = held[Receiver] /\ at'[Main] = at[Main]
      BY <2>7, ServiceAssumption DEF Frame, Go, GoWith, ServiceInv, TypeOK
    <3> QED BY <1>1, <2>7, <3>1 DEF Frame
  <2> QED BY <1>2, <2>1, <2>2, <2>3, <2>4, <2>5, <2>6, <2>7, <2>8 DEF Handler
<1>3. CASE Post
  <2>1. /\ posts \in Seq({Failed(c) : c \in Configs} \cup {Lost(t) : t \in Transports}) /\ posts # <<>>
        /\ posts' = Tail(posts) /\ at[Main] = "idle"
        /\ UNCHANGED <<life, current, transport, loops, held>>
    BY <1>3 DEF Post, AttemptFailed, ConnectionLost, Is, ServiceInv, TypeOK
  <2>2. Range(posts) \subseteq {Head(posts)} \cup Range(posts')
    BY <2>1, RangeTail
  <2>3. CASE Head(posts) # Lost(current)
    BY <2>1, <2>2, <2>3 DEF ConnectionIsWatched
  <2>4. CASE Head(posts) = Lost(current)
    <3>1. ConnectionLost /\ Head(posts).of = current
      BY <1>3, <2>4 DEF Post, AttemptFailed, Lost
    <3> QED BY <2>1, <3>1, ServiceAssumption DEF ConnectionLost, Go, ServiceInv, TypeOK
  <2> QED BY <2>3, <2>4
<1>4. CASE Connects
  <2>1. at'[Main] = at[Main]
    BY <1>4, ServiceAssumption
       DEF Connects, ReadPending, ClearPending, Closes, NextGeneration, Detach, Closed, ForgetTransport, Attempt,
           Install, Attach, SendHello, StartReceiveLoop, ResetAttempts, PostFailure, GoIdle, Recheck, Go, GoWith,
           ServiceInv, TypeOK
  <2>2. held'[Receiver] = held[Receiver]
    BY <1>4, ServiceAssumption
       DEF Connects, ReadPending, ClearPending, Closes, NextGeneration, Detach, Closed, ForgetTransport, Attempt,
           Install, Attach, SendHello, StartReceiveLoop, ResetAttempts, PostFailure, GoIdle, Recheck, GoWith,
           ServiceInv, TypeOK
  <2>3. CASE ForgetTransport \/ NextGeneration(Connector)
    BY <2>3 DEF ForgetTransport, NextGeneration
  <2>4. CASE Install
    BY <2>4 DEF Install, Is, ServiceInv, ConnectorInv
  <2>5. CASE StartReceiveLoop
    <3>1. life = "running" /\ held[Connector] \in Transports /\ loops \in Seq(Transports)
      BY <2>5 DEF StartReceiveLoop, Is, ServiceInv, ConnectorInv, TypeOK
    <3>2. current' \in Range(loops')
      BY <2>5, <3>1, RangeAppend DEF StartReceiveLoop
    <3> QED BY <3>2
  <2>6. CASE PostFailure
    <3>1. Range(posts) \subseteq Range(posts')
      <4>1. CASE pending = None
        <5>1. Failed(arg) \in {Failed(c) : c \in Configs} \cup {Lost(t) : t \in Transports}
          BY <2>6 DEF PostFailure, Is, ServiceInv, ConnectorInv
        <5> QED BY <2>6, <4>1, <5>1, RangeAppend DEF PostFailure, ServiceInv, TypeOK
      <4>2. CASE pending # None
        BY <2>6, <4>2 DEF PostFailure
      <4> QED BY <4>1, <4>2
    <3> QED BY <2>1, <2>2, <2>6, <3>1 DEF PostFailure, ConnectionIsWatched
  <2>7. CASE \/ ReadPending \/ ClearPending \/ Detach(Connector) \/ Closed(Connector) \/ Attempt
             \/ Attach \/ SendHello \/ ResetAttempts \/ GoIdle
    BY <1>1, <2>1, <2>2, <2>7 DEF ReadPending, ClearPending, Detach, Closed, Attempt, Attach, SendHello, ResetAttempts, GoIdle
  <2>8. CASE Recheck
    BY <1>1, <2>1, <2>2, <2>8 DEF Recheck, Execute
  <2> QED BY <1>4, <2>3, <2>4, <2>5, <2>6, <2>7, <2>8 DEF Connects, Closes
<1>5. CASE Receives
  <2>1. at'[Main] = at[Main]
    BY <1>5, ServiceAssumption
       DEF Receives, LoopStarts, LoopChecks, LoopPolls, Handles, GoesOn, Breaks, Go, GoWith, ServiceInv, TypeOK
  <2>2. UNCHANGED <<life, current, transport>>
    BY <1>5 DEF Receives, LoopStarts, LoopChecks, LoopPolls, Handles
  <2>3. CASE LoopStarts
    <3>1. loops \in Seq(Transports) /\ loops # <<>> /\ loops' = Tail(loops) /\ posts' = posts
          /\ held[Receiver] = None /\ held'[Receiver] = Head(loops)
      BY <2>3, ServiceAssumption DEF LoopStarts, GoWith, Is, ServiceInv, TypeOK, HeldInv
    <3>2. Range(loops) \subseteq {Head(loops)} \cup Range(loops')
      BY <3>1, RangeTail
    <3> QED BY <2>1, <2>2, <3>1, <3>2 DEF ConnectionIsWatched
  <2>4. CASE LoopChecks
    <3>1. UNCHANGED <<loops, posts>> /\ (held[Receiver] # current => current # held[Receiver])
      BY <2>4 DEF LoopChecks
    <3>2. held[Receiver] = current => held'[Receiver] = current
      BY <2>2, <2>4, ServiceAssumption DEF LoopChecks, GoWith, ServiceInv, TypeOK
    <3> QED BY <2>1, <2>2, <3>1, <3>2 DEF ConnectionIsWatched
  <2>5. CASE LoopPolls \/ Handles
    <3>1. UNCHANGED loops /\ held[Receiver] \in Transports
      BY <2>5 DEF LoopPolls, Handles, Is, ServiceInv, HeldInv
    <3>2. CASE UNCHANGED <<posts, held>>
      BY <2>1, <2>2, <3>1, <3>2 DEF ConnectionIsWatched
    <3>3. CASE Breaks
      <4>1. Range(posts) \subseteq Range(posts') /\ Lost(held[Receiver]) \in Range(posts')
        <5>1. Lost(held[Receiver]) \in {Failed(c) : c \in Configs} \cup {Lost(t) : t \in Transports}
          BY <3>1
        <5> QED BY <3>3, <5>1, RangeAppend DEF Breaks, ServiceInv, TypeOK
      <4> QED BY <2>1, <2>2, <3>1, <4>1 DEF ConnectionIsWatched
    <3> QED BY <2>5, <3>2, <3>3 DEF LoopPolls, Handles, GoesOn
  <2> QED BY <1>5, <2>3, <2>4, <2>5 DEF Receives
<1>6. CASE UNCHANGED vars
  BY <1>1, <1>6 DEF vars, service
<1> QED BY <1>2, <1>3, <1>4, <1>5, <1>6 DEF Next

\* The connection that is installed is never left unattended (ConnectionIsWatched),
\* whatever configurations, failures and retries overlap.
THEOREM ConnectionAlwaysWatched == Spec => []ConnectionIsWatched
<1>1. Init => ConnectionIsWatched
  BY DEF Init, ConnectionIsWatched
<1>2. ServiceInv /\ ConnectionIsWatched /\ [Next]_vars => ConnectionIsWatched'
  BY Watched
<1> QED BY <1>1, <1>2, InitService, ServiceSteps, PTL DEF Spec
===============================================================================
