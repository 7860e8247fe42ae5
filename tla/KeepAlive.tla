------------------------------- MODULE KeepAlive -------------------------------
(***************************************************************************)
(* The ADB keep-alive (keepalive.rs): a thread runs `adb start-server` at    *)
(* once and then every interval; requests read its status and configure it.  *)
(* A configuration takes effect twice: the caller writes it to the shared    *)
(* status, and the thread writes it again when it takes it off the channel.  *)
(* The outcome of a check is only reported and is left out.                  *)
(***************************************************************************)
EXTENDS CoreCalls

CONSTANTS
  Intervals,       \* the intervals a request can ask for
  MinInterval,     \* ADB_KEEPALIVE_MIN_INTERVAL_SECS
  DefaultInterval

ASSUME KeepAliveAssumption ==
  /\ Intervals \subseteq Nat /\ MinInterval \in Nat
  /\ DefaultInterval \in Intervals /\ DefaultInterval >= MinInterval

VARIABLES
  config,  \* enabled and interval_secs of the shared status
  channel, \* the configurations sent to the thread
  loop,    \* what the thread does
  sent     \* history: the configuration sent last

keepalive == <<config, channel, loop, sent>>

validate(i) == i >= MinInterval
Config == [enabled: BOOLEAN, interval: Intervals]
Valid == {k \in Config : validate(k.interval)}
Default == [enabled |-> TRUE, interval |-> DefaultInterval]

\* adb.keepalive.configure: either field, or both.
Asked == {a \in [enabled: BOOLEAN \cup {None}, interval: Intervals \cup {None}] :
            a.enabled # None \/ a.interval # None}

\* "check": adb runs; "read": about to read the status; "wait": on the channel with
\* the interval as time-out; "block": on the channel without one.
LoopPhase == {"check", "read", "wait", "block"}

KeepAliveType ==
  /\ config \in Valid /\ sent \in Valid
  /\ channel \in Seq(Valid)
  /\ loop \in LoopPhase

KeepAliveInit ==
  /\ config = Default /\ channel = <<>> /\ loop = "check" /\ sent = Default

-----------------------------------------------------------------------------
(* adb.keepalive.configure *)

\* The fields the request leaves out are filled from the status as it is now.
Merge(c) ==
  LET ask == call[c].arg
  IN  /\ At(c, "configure", "begin")
      /\ To(c, "merged",
            [enabled  |-> IF ask.enabled = None THEN config.enabled ELSE ask.enabled,
             interval |-> IF ask.interval = None THEN config.interval ELSE ask.interval])
      /\ UNCHANGED keepalive

\* Mutant: the interval is not validated.
ApplyUnvalidated(c) ==
  /\ At(c, "configure", "merged")
  /\ config' = call[c].got /\ To(c, "applied", call[c].got)
  /\ UNCHANGED <<channel, loop, sent>>

\* configure: an interval that is too short changes nothing; else the status changes.
Apply(c) ==
  /\ At(c, "configure", "merged")
  /\ IF validate(call[c].got.interval)
     THEN config' = call[c].got /\ To(c, "applied", call[c].got)
     ELSE Answered(c) /\ UNCHANGED config
  /\ UNCHANGED <<channel, loop, sent>>

\* Mutant: a configuration that is already in the status is not sent.
SendChanges(c) ==
  /\ At(c, "configure", "applied")
  /\ channel' = IF config = call[c].got THEN channel ELSE Append(channel, call[c].got)
  /\ sent' = call[c].got
  /\ Answered(c)
  /\ UNCHANGED <<config, loop>>

\* Then it goes to the thread; the status was unlocked in between.
SendConfig(c) ==
  /\ At(c, "configure", "applied")
  /\ channel' = Append(channel, call[c].got)
  /\ sent' = call[c].got
  /\ Answered(c)
  /\ UNCHANGED <<config, loop>>

-----------------------------------------------------------------------------
(* keepalive_loop *)

\* adb start-server ends, with or without success.
CheckEnds ==
  /\ core = "running" /\ loop = "check"
  /\ loop' = "read"
  /\ UNCHANGED <<config, channel, sent>>

ReadConfig ==
  /\ core = "running" /\ loop = "read"
  /\ loop' = IF config.enabled THEN "wait" ELSE "block"
  /\ UNCHANGED <<config, channel, sent>>

\* Mutant: the status holds the configuration already, so it is not written again.
TakeConfigOnly ==
  /\ core = "running" /\ loop \in {"wait", "block"} /\ channel # <<>>
  /\ channel' = Tail(channel)
  /\ loop' = "read"
  /\ UNCHANGED <<config, sent>>

\* The thread writes what it takes, though the status may hold a newer configuration.
TakeConfig ==
  /\ core = "running" /\ loop \in {"wait", "block"} /\ channel # <<>>
  /\ config' = Head(channel) /\ channel' = Tail(channel)
  /\ loop' = "read"
  /\ UNCHANGED sent

\* The interval is over and nothing was sent.
TimeOut ==
  /\ core = "running" /\ loop = "wait" /\ channel = <<>>
  /\ loop' = "check"
  /\ UNCHANGED <<config, channel, sent>>

KeepAliveStep == CheckEnds \/ ReadConfig \/ TakeConfig \/ TimeOut

-----------------------------------------------------------------------------
(* Properties *)

\* No configuration is on its way to the thread.
Settled == core = "running" /\ channel = <<>> /\ \A c \in Callers : call[c].at # "applied"

\* Concurrent requests agree in the end: once none is on its way, the configuration in
\* force is the one that was sent last, whole, whichever was written to the status last,
\* and a thread that waits for its next check was not disabled by it.
ConfigSettles == Settled => config = sent /\ (loop = "wait" => config.enabled)

\* A keep-alive that is enabled checks again, and enabling a disabled one wakes it, unless
\* another configuration reaches the thread first: each one starts the interval over, so
\* that requests which come faster than the interval put the check off without bound.
EnabledIsChecked ==
  core = "running" /\ config.enabled
    ~> core # "running" \/ ~config.enabled \/ loop = "check" \/ channel # <<>>
===============================================================================
