---------------------------- MODULE CompanionClient ----------------------------
(***************************************************************************)
(* The Android companion's connection to Core (QuicCompanionService,          *)
(* CompanionQuicRuntime and the native client): the main thread takes         *)
(* configurations and retries, one thread connects, one receives, and the     *)
(* screen encoder sends through the transport the runtime holds.              *)
(***************************************************************************)
EXTENDS NativeClient, Sequences, Functions

CONSTANTS
  Main, Connector, Receiver, Encoder, \* the threads
  Configs,     \* connection configurations
  Timers,      \* delayed retries (bound: retries that wait at once)
  MaxStarts,   \* bound on onStartCommand and onDestroy together
  MaxAttempts  \* MAX_RECONNECT_ATTEMPTS (60 in the code)

ASSUME ServiceAssumption ==
  /\ Threads = {Main, Connector, Receiver, Encoder}
  /\ Main \notin {Connector, Receiver, Encoder} /\ Connector \notin {Receiver, Encoder} /\ Receiver # Encoder
  /\ None \notin Configs \cup Timers
  /\ MaxStarts \in Nat /\ MaxAttempts \in Nat

VARIABLES
  life,      \* "running", "destroyed" by the system, or "crashed"
  saved,     \* the configuration in the preferences
  pending,   \* pendingConnectionConfig
  busy,      \* connectionInProgress
  jobs,      \* jobs that wait for the connection executor
  transport, \* the service's transport
  active,    \* CompanionQuicRuntime.activeTransport
  current,   \* the transport whose receive loop carries connectionGeneration
  attempts,  \* reconnectAttempts
  timer,     \* the configuration of each delayed retry
  callback,  \* reconnectRunnable
  retry,     \* the retry the main thread is scheduling, and the attempts it has counted
  posts,     \* what was posted to the main thread
  loops,     \* receive loops that wait for their executor
  at,        \* where each thread is
  arg,       \* the configuration the connector works on
  held,      \* the transport each thread has in hand
  ending,    \* whether the main thread closes because it is destroyed
  starts     \* onStartCommand and onDestroy so far

retries == <<attempts, timer, callback, retry>>
service == <<life, saved, pending, busy, jobs, transport, active, current, retries, posts, loops,
             at, arg, held, ending, starts>>
vars == <<client, service>>

Steps == {"idle", "cas", "bump", "read", "close", "null", "top", "took", "connect", "install", "attach",
          "hello", "sending", "connected", "failed", "exit", "recheck", "delay",
          "check", "poll", "polling", "reply", "replying", "frame"}

Failed(c) == [kind |-> "failed", of |-> c]
Lost(t) == [kind |-> "lost", of |-> t]

TypeOK ==
  /\ ClientType
  /\ life \in {"running", "destroyed", "crashed"}
  /\ saved \in Configs \cup {None} /\ pending \in Configs \cup {None}
  /\ busy \in BOOLEAN /\ ending \in BOOLEAN /\ jobs \in 0 .. 1
  /\ transport \in Transports \cup {None}
  /\ active \in Transports \cup {None}
  /\ current \in Transports \cup {None}
  /\ attempts \in 0 .. MaxAttempts
  /\ timer \in [Timers -> Configs \cup {None}]
  /\ callback \in Timers \cup {None}
  /\ retry \in [of: Configs, after: 0 .. MaxAttempts - 1] \cup {None}
  /\ posts \in Seq({Failed(c) : c \in Configs} \cup {Lost(t) : t \in Transports})
  /\ loops \in Seq(Transports)
  /\ at \in [Threads -> Steps]
  /\ arg \in Configs \cup {None}
  /\ held \in [Threads -> Transports \cup {None}]
  /\ starts \in 0 .. MaxStarts

Init ==
  /\ ClientInit
  /\ life = "running" /\ saved \in Configs \cup {None} /\ pending = None
  /\ busy = FALSE /\ jobs = 0 /\ ending = FALSE
  /\ transport = None /\ active = None /\ current = None
  /\ attempts = 0 /\ timer = [r \in Timers |-> None] /\ callback = None /\ retry = None
  /\ posts = <<>> /\ loops = <<>>
  /\ at = [a \in Threads |-> "idle"] /\ arg = None /\ held = [a \in Threads |-> None]
  /\ starts = 0

Is(a, s) == life # "crashed" /\ at[a] = s
Go(a, s) == at' = [at EXCEPT ![a] = s]
GoWith(a, s, t) == Go(a, s) /\ held' = [held EXCEPT ![a] = t]

-----------------------------------------------------------------------------
(* closeCurrentTransport, by the main thread or the connector *)

\* Receive loops and posted losses of earlier connections are stale from here.
NextGeneration(a) ==
  /\ Is(a, "bump") /\ Go(a, "read")
  /\ current' = None
  /\ UNCHANGED <<client, life, saved, pending, busy, jobs, transport, active, retries, posts, loops,
                 arg, held, ending, starts>>

\* CompanionQuicRuntime.detach, and the transport's close is asked for.
Detach(a) ==
  /\ Is(a, "read")
  /\ IF transport = None
     THEN Go(a, "null") /\ UNCHANGED <<active, client>>
     ELSE /\ Go(a, "close")
          /\ active' = IF active = transport THEN None ELSE active
          /\ AskClose(a, transport)
  /\ UNCHANGED <<life, saved, pending, busy, jobs, transport, current, retries, posts, loops,
                 arg, held, ending, starts>>

Closed(a) ==
  /\ Is(a, "close") /\ Close(a) /\ Go(a, "null")
  /\ UNCHANGED <<life, saved, pending, busy, jobs, transport, active, current, retries, posts, loops,
                 arg, held, ending, starts>>

-----------------------------------------------------------------------------
(* The main thread *)

\* cancelReconnect knows the last retry only.
Cancelled == IF callback = None THEN timer ELSE [timer EXCEPT ![callback] = None]

\* connectWithRetry, up to the compare-and-set.
Want(c) == pending' = c /\ Go(Main, "cas")

\* onStartCommand with a configuration.
Configure(c) ==
  /\ Is(Main, "idle") /\ life = "running" /\ starts < MaxStarts /\ starts' = starts + 1
  /\ saved' = c /\ attempts' = 0
  /\ timer' = Cancelled /\ callback' = None
  /\ Want(c)
  /\ UNCHANGED <<client, life, busy, jobs, transport, active, current, retry, posts, loops, arg, held, ending>>

\* onStartCommand without one: the saved configuration at once.
Restart ==
  /\ Is(Main, "idle") /\ life = "running" /\ starts < MaxStarts /\ starts' = starts + 1
  /\ saved # None
  /\ timer' = Cancelled /\ callback' = None
  /\ Want(saved)
  /\ UNCHANGED <<client, life, saved, busy, jobs, transport, active, current, attempts, retry, posts,
                 loops, arg, held, ending>>

\* Mutant: the retry wakes the connector without its configuration.
FireEmpty(r) ==
  /\ Is(Main, "idle") /\ timer[r] # None
  /\ timer' = [timer EXCEPT ![r] = None] /\ callback' = None
  /\ Go(Main, "cas")
  /\ UNCHANGED <<client, life, saved, pending, busy, jobs, transport, active, current, attempts, retry, posts,
                 loops, arg, held, ending, starts>>

\* A delayed retry runs.
Fire(r) ==
  /\ Is(Main, "idle") /\ timer[r] # None
  /\ timer' = [timer EXCEPT ![r] = None] /\ callback' = None
  /\ Want(timer[r])
  /\ UNCHANGED <<client, life, saved, busy, jobs, transport, active, current, attempts, retry, posts,
                 loops, arg, held, ending, starts>>

\* connectionExecutor.execute: refused after the shutdown, which ends the app.
Execute ==
  IF life = "running" THEN jobs' = jobs + 1 /\ UNCHANGED life
  ELSE life' = "crashed" /\ UNCHANGED jobs

\* startPendingConnectionIfIdle.
StartIfIdle ==
  /\ Is(Main, "cas") /\ Go(Main, "idle")
  /\ IF busy THEN UNCHANGED <<busy, jobs, life>> ELSE busy' = TRUE /\ Execute
  /\ UNCHANGED <<client, saved, pending, transport, active, current, retries, posts, loops,
                 arg, held, ending, starts>>

\* scheduleReconnect, which first reads the attempts made so far.
Schedule(c) ==
  IF attempts < MaxAttempts
  THEN Go(Main, "delay") /\ retry' = [of |-> c, after |-> attempts]
  ELSE Go(Main, "idle") /\ UNCHANGED retry

\* One more is written, over a reset of the connector meanwhile, and the retry is delayed;
\* the previous one stays scheduled.
Delay ==
  LET r == CHOOSE r \in Timers : timer[r] = None
  IN  /\ Is(Main, "delay") /\ Go(Main, "idle")
      /\ \E q \in Timers : timer[q] = None
      /\ attempts' = retry.after + 1
      /\ timer' = [timer EXCEPT ![r] = retry.of] /\ callback' = r
      /\ retry' = None
      /\ UNCHANGED <<client, life, saved, pending, busy, jobs, transport, active, current, posts, loops,
                     arg, held, ending, starts>>

\* A failed attempt is retried.
AttemptFailed ==
  /\ Is(Main, "idle") /\ posts # <<>> /\ Head(posts).kind = "failed"
  /\ posts' = Tail(posts)
  /\ Schedule(Head(posts).of)
  /\ UNCHANGED <<client, life, saved, pending, busy, jobs, transport, active, current, attempts, timer,
                 callback, loops, arg, held, ending, starts>>

\* Mutant: a loss is ignored during an attempt to connect.
ConnectionLostIfIdle ==
  /\ Is(Main, "idle") /\ posts # <<>> /\ Head(posts).kind = "lost"
  /\ posts' = Tail(posts)
  /\ IF current = Head(posts).of /\ transport = Head(posts).of /\ ~busy THEN Go(Main, "bump") ELSE UNCHANGED at
  /\ UNCHANGED <<client, life, saved, pending, busy, jobs, transport, active, current, retries, loops,
                 arg, held, ending, starts>>

\* A receive loop has failed: unless its connection is stale, it is closed and retried.
ConnectionLost ==
  /\ Is(Main, "idle") /\ posts # <<>> /\ Head(posts).kind = "lost"
  /\ posts' = Tail(posts)
  /\ IF current = Head(posts).of /\ transport = Head(posts).of THEN Go(Main, "bump") ELSE UNCHANGED at
  /\ UNCHANGED <<client, life, saved, pending, busy, jobs, transport, active, current, retries, loops,
                 arg, held, ending, starts>>

\* onDestroy.
Destroy ==
  /\ Is(Main, "idle") /\ life = "running" /\ starts < MaxStarts /\ starts' = starts + 1
  /\ timer' = Cancelled /\ callback' = None
  /\ ending' = TRUE /\ Go(Main, "bump")
  /\ UNCHANGED <<client, life, saved, pending, busy, jobs, transport, active, current, attempts, retry,
                 posts, loops, arg, held>>

\* The end of closeCurrentTransport and what follows it: the retry from the saved
\* configuration, or the shutdown of the executors.
MainClosed ==
  /\ Is(Main, "null")
  /\ transport' = None
  /\ IF ending THEN life' = "destroyed" /\ jobs' = 0 /\ loops' = <<>> ELSE UNCHANGED <<life, jobs, loops>>
  /\ IF ending \/ saved = None THEN Go(Main, "idle") /\ UNCHANGED retry ELSE Schedule(saved)
  /\ ending' = FALSE
  /\ UNCHANGED <<client, saved, pending, busy, active, current, attempts, timer, callback, posts,
                 arg, held, starts>>

-----------------------------------------------------------------------------
(* The connector *)

\* The pending configuration is read and cleared in two steps: one that is stored in
\* between is lost.
ReadPending ==
  /\ \/ Is(Connector, "idle") /\ jobs > 0 /\ jobs' = jobs - 1
     \/ Is(Connector, "top") /\ UNCHANGED jobs
  /\ Go(Connector, IF pending = None THEN "exit" ELSE "took")
  /\ arg' = pending
  /\ UNCHANGED <<client, life, saved, pending, busy, transport, active, current, retries, posts,
                 loops, held, ending, starts>>

ClearPending ==
  /\ Is(Connector, "took") /\ Go(Connector, "bump")
  /\ pending' = None
  /\ UNCHANGED <<client, life, saved, busy, jobs, transport, active, current, retries, posts, loops,
                 arg, held, ending, starts>>

ForgetTransport ==
  /\ Is(Connector, "null") /\ Go(Connector, "connect")
  /\ transport' = None
  /\ UNCHANGED <<client, life, saved, pending, busy, jobs, active, current, retries, posts, loops,
                 arg, held, ending, starts>>

\* Nothing refers to the transport any more: it can stand for a new one.
Forgotten(t) ==
  /\ handle[t] # "live" /\ t \notin {transport, active, current}
  /\ \A a \in Threads : t \notin {held[a], closing[a], calling[a]}
  /\ t \notin Range(loops) /\ Lost(t) \notin Range(posts)

\* nativeConnect on a new engine: a handle, or an exception.
Attempt ==
  /\ Is(Connector, "connect")
  /\ \/ LET t == CHOOSE t \in Transports : Forgotten(t)
        IN  (\E u \in Transports : Forgotten(u)) /\ Connect(t) /\ GoWith(Connector, "install", t)
     \/ Go(Connector, "failed") /\ UNCHANGED <<client, held>>
  /\ UNCHANGED <<life, saved, pending, busy, jobs, transport, active, current, retries, posts, loops,
                 arg, ending, starts>>

Install ==
  /\ Is(Connector, "install") /\ Go(Connector, "attach")
  /\ transport' = held[Connector]
  /\ UNCHANGED <<client, life, saved, pending, busy, jobs, active, current, retries, posts, loops,
                 arg, held, ending, starts>>

Attach ==
  /\ Is(Connector, "attach") /\ Go(Connector, "hello")
  /\ active' = held[Connector]
  /\ UNCHANGED <<client, life, saved, pending, busy, jobs, transport, current, retries, posts, loops,
                 arg, held, ending, starts>>

\* The hello, the capabilities and the permissions are sent.
SendHello ==
  /\ \/ Is(Connector, "hello") /\ Enter(Connector, held[Connector]) /\ Go(Connector, "sending")
     \/ Is(Connector, "hello") /\ Refused(held[Connector]) /\ Go(Connector, "failed")
     \/ Is(Connector, "sending") /\ SendFails(Connector) /\ Go(Connector, "failed")
  /\ UNCHANGED <<life, saved, pending, busy, jobs, transport, active, current, retries, posts, loops,
                 arg, held, ending, starts>>

\* They are queued: startReceiveLoop; its executor refuses it after the shutdown.
StartReceiveLoop ==
  /\ Is(Connector, "sending") /\ Sent(Connector)
  /\ current' = held[Connector]
  /\ IF life = "running"
     THEN loops' = Append(loops, held[Connector]) /\ GoWith(Connector, "connected", None)
     ELSE Go(Connector, "failed") /\ UNCHANGED <<loops, held>>
  /\ UNCHANGED <<life, saved, pending, busy, jobs, transport, active, retries, posts,
                 arg, ending, starts>>

\* The connector starts the count over; nothing orders this with the main thread.
ResetAttempts ==
  /\ Is(Connector, "connected") /\ Go(Connector, "top")
  /\ attempts' = 0
  /\ UNCHANGED <<client, life, saved, pending, busy, jobs, transport, active, current, timer, callback,
                 retry, posts, loops, arg, held, ending, starts>>

\* The attempt failed: it is retried unless another configuration waits.
PostFailure ==
  /\ Is(Connector, "failed") /\ GoWith(Connector, "top", None)
  /\ posts' = IF pending = None THEN Append(posts, Failed(arg)) ELSE posts
  /\ UNCHANGED <<client, life, saved, pending, busy, jobs, transport, active, current, retries, loops,
                 arg, ending, starts>>

GoIdle ==
  /\ Is(Connector, "exit") /\ Go(Connector, "recheck")
  /\ busy' = FALSE
  /\ UNCHANGED <<client, life, saved, pending, jobs, transport, active, current, retries, posts, loops,
                 arg, held, ending, starts>>

\* Mutant: connectionInProgress is set without looking at it.
RecheckAndSet ==
  /\ Is(Connector, "recheck") /\ Go(Connector, "idle")
  /\ IF pending # None THEN busy' = TRUE /\ Execute ELSE UNCHANGED <<busy, jobs, life>>
  /\ UNCHANGED <<client, saved, pending, transport, active, current, retries, posts, loops,
                 arg, held, ending, starts>>

\* A configuration that came before the connector was idle gets a job of its own.
Recheck ==
  /\ Is(Connector, "recheck") /\ Go(Connector, "idle")
  /\ IF pending # None /\ ~busy THEN busy' = TRUE /\ Execute ELSE UNCHANGED <<busy, jobs, life>>
  /\ UNCHANGED <<client, saved, pending, transport, active, current, retries, posts, loops,
                 arg, held, ending, starts>>

-----------------------------------------------------------------------------
(* The receive loop *)

LoopStarts ==
  /\ Is(Receiver, "idle") /\ loops # <<>>
  /\ loops' = Tail(loops) /\ GoWith(Receiver, "check", Head(loops))
  /\ UNCHANGED <<client, life, saved, pending, busy, jobs, transport, active, current, retries, posts,
                 arg, ending, starts>>

\* It runs while its connection is the service's.
LoopChecks ==
  LET t == held[Receiver]
  IN  /\ Is(Receiver, "check")
      /\ IF current = t /\ transport = t THEN GoWith(Receiver, "poll", t) ELSE GoWith(Receiver, "idle", None)
      /\ UNCHANGED <<client, life, saved, pending, busy, jobs, transport, active, current, retries, posts,
                     loops, arg, ending, starts>>

\* An exception ends the loop and is posted to the main thread.
Breaks == posts' = Append(posts, Lost(held[Receiver])) /\ GoWith(Receiver, "idle", None)
GoesOn(s) == Go(Receiver, s) /\ UNCHANGED <<posts, held>>

LoopPolls ==
  LET t == held[Receiver]
  IN  /\ \/ Is(Receiver, "poll") /\ Enter(Receiver, t) /\ GoesOn("polling")
         \/ Is(Receiver, "poll") /\ Refused(t) /\ GoesOn("check")
         \/ Is(Receiver, "polling") /\ Poll(Receiver, "nothing") /\ GoesOn("check")
         \/ Is(Receiver, "polling") /\ Poll(Receiver, "error") /\ Breaks
      /\ UNCHANGED <<life, saved, pending, busy, jobs, transport, active, current, retries, loops,
                     arg, ending, starts>>

\* A message is a helloAck or another one that needs no answer, it is answered on its own
\* connection, or it is not understood.
Handles ==
  LET t == held[Receiver]
  IN  /\ \/ Is(Receiver, "polling") /\ Poll(Receiver, "message") /\ (GoesOn("check") \/ GoesOn("reply") \/ Breaks)
         \/ Is(Receiver, "reply") /\ Enter(Receiver, t) /\ GoesOn("replying")
         \/ Is(Receiver, "reply") /\ Refused(t) /\ Breaks
         \/ Is(Receiver, "replying") /\ Sent(Receiver) /\ GoesOn("check")
         \/ Is(Receiver, "replying") /\ SendFails(Receiver) /\ Breaks
      /\ UNCHANGED <<life, saved, pending, busy, jobs, transport, active, current, retries, loops,
                     arg, ending, starts>>

-----------------------------------------------------------------------------
(* The encoder and the next-state relation *)

\* CompanionQuicRuntime.sendVideoFrame: on the transport that was active when it was read.
Frame ==
  LET t == held[Encoder]
  IN  /\ \/ Is(Encoder, "idle") /\ active # None /\ GoWith(Encoder, "frame", active) /\ UNCHANGED client
         \/ Is(Encoder, "frame") /\ Enter(Encoder, t) /\ GoWith(Encoder, "sending", t)
         \/ Is(Encoder, "frame") /\ Refused(t) /\ GoWith(Encoder, "idle", None)
         \/ Is(Encoder, "sending") /\ FrameSent(Encoder) /\ GoWith(Encoder, "idle", None)
      /\ UNCHANGED <<life, saved, pending, busy, jobs, transport, active, current, retries, posts, loops,
                     arg, ending, starts>>

Wire == (\E t \in Transports : Receive(t) \/ Lose(t)) /\ UNCHANGED service

Closes(a) == NextGeneration(a) \/ Detach(a) \/ Closed(a)
Handler == StartIfIdle \/ Closes(Main) \/ MainClosed \/ Delay
Post == AttemptFailed \/ ConnectionLost
Retry == \E r \in Timers : Fire(r)
Connects ==
  \/ ReadPending \/ ClearPending \/ Closes(Connector) \/ ForgetTransport \/ Attempt
  \/ Install \/ Attach \/ SendHello \/ StartReceiveLoop \/ ResetAttempts \/ PostFailure \/ GoIdle \/ Recheck
Receives == LoopStarts \/ LoopChecks \/ LoopPolls \/ Handles

Next ==
  \/ \E c \in Configs : Configure(c)
  \/ Restart \/ Destroy \/ Handler \/ Post
  \/ Retry
  \/ Connects \/ Receives \/ Frame \/ Wire

\* The main thread goes on with what it has to do: the handler it is in, and what is posted
\* to it or delayed; the connector and the receiver run, and a frame's native call returns.
Fairness ==
  /\ WF_vars(Handler \/ Post \/ Retry)
  /\ WF_vars(Connects) /\ WF_vars(Receives)
  /\ WF_vars(Is(Encoder, "sending") /\ Frame)

Spec == Init /\ [][Next]_vars
LiveSpec == Spec /\ Fairness

-----------------------------------------------------------------------------
(* Properties *)

\* The connection that is installed has its receive loop, waiting or running, or its loss
\* is posted, or the main thread is about to close it: it is never left unattended.
ConnectionIsWatched ==
  life = "running" /\ current # None /\ transport = current =>
    \/ current \in Range(loops) \cup {held[Receiver]}
    \/ Lost(current) \in Range(posts)
    \/ at[Main] = "bump"

\* The retries are used up and nothing leads to another attempt while the count stands: no
\* retry is delayed, no configuration waits, and neither the main thread nor the connector
\* is about to connect.  The connector may have connected and not yet started the count
\* over; a loss that the main thread handles before that is not retried.
Exhausted ==
  /\ attempts = MaxAttempts /\ \A r \in Timers : timer[r] = None
  /\ pending = None
  /\ at[Main] # "cas" /\ at[Connector] \in {"idle", "connected"}

\* A configuration that waits, or an installed connection that can no longer be read, leads
\* to another attempt to connect, unless the retries are used up or the service has ended.
ConnectionIsRestored ==
  life = "running" /\ (pending # None \/ (transport # None /\ "reads" \notin up[transport]))
    ~> Is(Connector, "connect") \/ Exhausted \/ life # "running"
===============================================================================
