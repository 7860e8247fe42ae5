------------------------------ MODULE NativeClient ------------------------------
(***************************************************************************)
(* A QUIC connection of the Android companion: the NativeClient of           *)
(* adbcontrol-quic-android and the JNI engine that owns its handle.  Calls    *)
(* hold the engine's read lock while they are inside the native code; a close *)
(* takes the write lock, and calls that arrive behind it wait.               *)
(***************************************************************************)
EXTENDS Naturals, FiniteSets

CONSTANTS
  Transports, \* engines; one that is closed and forgotten stands for a new one
  Threads,    \* threads that use an engine
  None,       \* no value
  Halves,     \* engines whose directions can end one without the other (bound: all in the code)
  Inbox       \* bound on received messages that wait (256 in the code)

ASSUME ClientAssumption == None \notin Transports \cup Threads /\ Inbox \in Nat \ {0}

VARIABLES
  handle,  \* "live", or "closed": 0, before the connection and after its end
  up,      \* the directions of the control stream whose task still runs
  inbox,   \* messages in incoming_control
  calling, \* the engine each thread is in a native call of
  closing  \* the engine each thread waits for the write lock of

client == <<handle, up, inbox, calling, closing>>

ClientType ==
  /\ handle \in [Transports -> {"live", "closed"}]
  /\ up \in [Transports -> SUBSET {"reads", "writes"}]
  /\ inbox \in [Transports -> 0 .. Inbox]
  /\ calling \in [Threads -> Transports \cup {None}]
  /\ closing \in [Threads -> Transports \cup {None}]

ClientInit ==
  /\ handle = [t \in Transports |-> "closed"]
  /\ up = [t \in Transports |-> {}]
  /\ inbox = [t \in Transports |-> 0]
  /\ calling = [a \in Threads |-> None]
  /\ closing = [a \in Threads |-> None]

-----------------------------------------------------------------------------
(* The connection *)

\* NativeClient::connect: the connection and its control stream, or an error; the stream may
\* be lost by the time the handle is returned.
Connect(t) ==
  /\ handle[t] # "live"
  /\ handle' = [handle EXCEPT ![t] = "live"]
  /\ up' = [up EXCEPT ![t] = {"reads", "writes"}]
  /\ UNCHANGED <<inbox, calling, closing>>

\* The reader task queues a message; with a full queue it waits.
Receive(t) ==
  /\ "reads" \in up[t] /\ inbox[t] < Inbox
  /\ inbox' = [inbox EXCEPT ![t] = @ + 1]
  /\ UNCHANGED <<handle, up, calling, closing>>

\* The control stream ends, or one direction of it: the task that reads and the one that
\* writes end each by itself.
Lose(t) ==
  /\ \E left \in (SUBSET up[t]) \ {up[t]} :
       (t \in Halves \/ left = {}) /\ up' = [up EXCEPT ![t] = left]
  /\ UNCHANGED <<handle, inbox, calling, closing>>

\* Drop closes the connection; the queue goes with the client.
Free(t) ==
  /\ handle' = [handle EXCEPT ![t] = "closed"]
  /\ up' = [up EXCEPT ![t] = {}]
  /\ inbox' = [inbox EXCEPT ![t] = 0]

-----------------------------------------------------------------------------
(* The engine *)

\* lifecycleLock.read: not while the lock is wanted or held for a close.
MayRead(t) == \A a \in Threads : closing[a] # t

\* A native call, on a handle that is not 0.
Enter(a, t) ==
  /\ MayRead(t) /\ handle[t] = "live"
  /\ calling' = [calling EXCEPT ![a] = t]
  /\ UNCHANGED <<handle, up, inbox, closing>>

\* The check of the handle fails: poll and frames answer without a call, send throws.
Refused(t) == MayRead(t) /\ handle[t] # "live" /\ UNCHANGED client

Leave(a) == calling' = [calling EXCEPT ![a] = None] /\ UNCHANGED <<handle, up, closing>>

\* receive_control_message: a message, nothing when the time is over, an error at the end
\* of the queue of a control stream that has ended.
Polled(t) ==
  CASE inbox[t] > 0 -> "message" [] inbox[t] = 0 /\ "reads" \in up[t] -> "nothing" [] OTHER -> "error"

Poll(a, result) ==
  LET t == calling[a]
  IN  /\ result = Polled(t)
      /\ inbox' = [inbox EXCEPT ![t] = IF result = "message" THEN @ - 1 ELSE @]
      /\ Leave(a)

\* nativeSendVideoFrame: its result is ignored.
FrameSent(a) == UNCHANGED inbox /\ Leave(a)

\* nativeSendEnvelope: queues the message, or throws once the task that writes has ended.
Sent(a) == "writes" \in up[calling[a]] /\ UNCHANGED inbox /\ Leave(a)
SendFails(a) == "writes" \notin up[calling[a]] /\ UNCHANGED inbox /\ Leave(a)

\* close: asks for the write lock, and frees a handle that is not 0 when no call is left.
AskClose(a, t) ==
  /\ closing' = [closing EXCEPT ![a] = t]
  /\ UNCHANGED <<handle, up, inbox, calling>>

\* Mutant: the handle is freed while calls are inside.
CloseUnlocked(a) ==
  LET t == closing[a]
  IN  /\ IF handle[t] = "live" THEN Free(t) ELSE UNCHANGED <<handle, up, inbox>>
      /\ closing' = [closing EXCEPT ![a] = None]
      /\ UNCHANGED calling

Close(a) ==
  LET t == closing[a]
  IN  /\ \A b \in Threads : calling[b] # t
      /\ IF handle[t] = "live" THEN Free(t) ELSE UNCHANGED <<handle, up, inbox>>
      /\ closing' = [closing EXCEPT ![a] = None]
      /\ UNCHANGED calling

\* No native call works on a handle that was freed, whoever closed the engine meanwhile
\* and whenever the thread had taken the engine it calls.
NativeCallsAreSafe == \A a \in Threads : calling[a] # None => handle[calling[a]] = "live"
===============================================================================
