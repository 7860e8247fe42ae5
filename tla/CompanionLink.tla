---------------------------- MODULE CompanionLink ----------------------------
(***************************************************************************)
(* The Core side of the Companion link: LiveCompanionTransport and the     *)
(* session manager behind it (companion/quinn_transport.rs, session.rs,    *)
(* ingress.rs, registry.rs), with the device.invoke path of the IPC        *)
(* threads (protocol.rs, router.rs) that sends commands over it.           *)
(*                                                                         *)
(* Two kinds of thread touch this state.  All connections are tasks of ONE *)
(* single-threaded tokio runtime: accept_envelope, disconnect and          *)
(* disconnect_connection contain no await, so each of them is one action   *)
(* here.  The callers (the stdio loop and the remote-control server) are   *)
(* other OS threads: every lock they take is a step of its own.            *)
(***************************************************************************)
EXTENDS Naturals, FiniteSets

CONSTANTS
  Devices,    \* companion device ids
  Conns,      \* QUIC connections; each id is used once (next_connection_id)
  Calls,      \* device.invoke requests, each performed once
  RequestIds, \* IPC request ids
  IdOf,       \* the request id each call carries, chosen by its client
  Claims,     \* the device ids the peer of a connection writes into envelopes,
              \* NoDevice among them when it may leave the envelope's id out
  Strays,     \* the connections whose peers also send responses out of turn
  Lists,      \* whether an announced list can be empty and non-empty
  Blank,      \* the device id of blanks; outside Devices where no peer uses it
  Stray,      \* the content of a response out of turn
  NoDevice, NoConn, NoCall

ASSUME LinkAssumption ==
  /\ IdOf \in [Calls -> RequestIds]
  /\ Claims \in [Conns -> SUBSET (Devices \cup {NoDevice})]
  /\ Strays \subseteq Conns
  /\ Lists \subseteq BOOLEAN
  /\ NoDevice \notin Devices
  /\ NoConn \notin Conns
  /\ NoCall \notin Calls
  /\ Stray \notin Calls \cup {NoCall}

VARIABLES
  conn,       \* phase of each connection's handler task
  lastDevice, \* the handler's local device_id
  writer,     \* TRUE while the task that drains `outgoing` is running
  manager,    \* CompanionSessionManager.sessions; entries are never removed
  registry,   \* CompanionRegistry.devices, what every client is shown
  sessions,   \* LiveState.sessions: the connection commands are routed to
  pending,    \* LiveState.pending: the waiter of each request id
  calls,      \* the callers' progress through device.invoke
  inbox,      \* requests the peer has received and not answered
  heard       \* history, for the properties only: which of the two lists each
              \* device announced last, and which are non-empty, since its hello

connVars == <<conn, lastDevice, writer>>
vars == <<conn, lastDevice, writer, manager, registry, sessions, pending,
          calls, inbox, heard>>

-----------------------------------------------------------------------------
(* Types *)

\* A CompanionSession / CompanionDevice, reduced to its connection state and
\* to whether its capability and permission lists are non-empty.
Entry == [state: {"handshaking", "ready"}, caps: BOOLEAN, perms: BOOLEAN]
Absent == [state |-> "absent", caps |-> FALSE, perms |-> FALSE]

ConnPhase == {"new", "open", "failing", "draining", "closed"}
CallPhase == {"new", "checked", "routed", "inserted", "waiting", "expired",
              "answered", "timeout", "sendFailed", "notConnected",
              "noCapability", "noSession"}
Settled == {"answered", "timeout", "sendFailed", "notConnected",
            "noCapability", "noSession"}

Call == [phase: CallPhase, device: Devices \cup {NoDevice},
         route: Conns \cup {NoConn}, answer: Calls \cup {NoCall, Stray}]

\* `answer` is the content of the call's one-slot channel: the call whose
\* request the received response answers, or Stray.
Request == [conn: Conns, call: Calls]

ListKinds == {"capabilities", "permissions"}
Heard == [last: ListKinds \cup {"none"}, full: SUBSET ListKinds]

TypeOK ==
  /\ conn \in [Conns -> ConnPhase]
  /\ lastDevice \in [Conns -> Devices \cup {NoDevice}]
  /\ writer \in [Conns -> BOOLEAN]
  /\ manager \in [Devices -> Entry \cup {Absent}]
  /\ registry \in [Devices -> Entry \cup {Absent}]
  /\ sessions \in [Devices -> Conns \cup {NoConn}]
  /\ pending \in [RequestIds -> Calls \cup {NoCall}]
  /\ calls \in [Calls -> Call]
  /\ inbox \in SUBSET Request
  /\ heard \in [Devices -> Heard]

-----------------------------------------------------------------------------
(* Helpers *)

\* No handler is between a failed frame and its disconnect_connection, a
\* stretch without an await in which the runtime runs no other task.
RuntimeFree == \A c \in Conns : conn[c] # "failing"

\* Mutant: upsert only appends, a listed device keeps its old entry.
UpsertedOnce(mgr) ==
  [d \in Devices |-> IF registry[d] = Absent THEN mgr[d] ELSE registry[d]]

\* `for device in devices { registry.upsert(device) }`: the registry receives
\* every session the manager remembers, not only the sender's.
Upserted(mgr) ==
  [d \in Devices |-> IF mgr[d] # Absent THEN mgr[d] ELSE registry[d]]

\* Mutant: the connection_id of the session is not compared.
OwnedByAnyone(c, ds) == {d \in ds : sessions[d] # NoConn}

\* disconnect(connection_id, device_id) for every device of ds.
Owned(c, ds) == {d \in ds : sessions[d] = c}

\* Mutant: the registry entry goes before the connection_id is compared.
DisconnectUnchecked(c, ds) ==
  /\ sessions' = [d \in Devices |->
                    IF d \in Owned(c, ds) THEN NoConn ELSE sessions[d]]
  /\ registry' = [d \in Devices |-> IF d \in ds THEN Absent ELSE registry[d]]

Disconnect(c, ds) ==
  /\ sessions' = [d \in Devices |->
                    IF d \in Owned(c, ds) THEN NoConn ELSE sessions[d]]
  /\ registry' = [d \in Devices |->
                    IF d \in Owned(c, ds) THEN Absent ELSE registry[d]]

\* A Sender clone of c's channel is alive: in the session map, or in the
\* SessionHandle a caller cloned and keeps until send_command_envelope returns.
SenderHeld(c) ==
  \/ \E d \in Devices : sessions[d] = c
  \/ \E k \in Calls : /\ calls[k].route = c
                      /\ calls[k].phase \notin Settled

\* Entry of the handler's loop after an accepted envelope: the reply is put
\* into the channel; with the writer gone that fails, the `?` leaves the loop
\* before device_id is assigned, and disconnect_connection follows.
Reply(c, d) ==
  IF writer[c]
    THEN /\ lastDevice' = [lastDevice EXCEPT ![c] = IF d = NoDevice THEN @ ELSE d]
         /\ UNCHANGED conn
    ELSE /\ conn' = [conn EXCEPT ![c] = "failing"]
         /\ UNCHANGED lastDevice

\* An accepted list of device d, for the history.
Announce(d, kind, listed) ==
  [heard EXCEPT ![d] = [last |-> kind,
                        full |-> IF listed THEN @.full \cup {kind} ELSE @.full \ {kind}]]

Receiving(c) == RuntimeFree /\ conn[c] = "open"

-----------------------------------------------------------------------------
Init ==
  /\ conn = [c \in Conns |-> "new"]
  /\ lastDevice = [c \in Conns |-> NoDevice]
  /\ writer = [c \in Conns |-> FALSE]
  /\ manager = [d \in Devices |-> Absent]
  /\ registry = [d \in Devices |-> Absent]
  /\ sessions = [d \in Devices |-> NoConn]
  /\ pending = [i \in RequestIds |-> NoCall]
  /\ calls = [k \in Calls |-> [phase |-> "new", device |-> NoDevice,
                               route |-> NoConn, answer |-> NoCall]]
  /\ inbox = {}
  /\ heard = [d \in Devices |-> [last |-> "none", full |-> {}]]

-----------------------------------------------------------------------------
(* Connection tasks *)

\* The control stream is accepted and its preface is valid.
Open(c) ==
  /\ RuntimeFree
  /\ conn[c] = "new"
  /\ conn' = [conn EXCEPT ![c] = "open"]
  /\ writer' = [writer EXCEPT ![c] = TRUE]
  /\ UNCHANGED <<lastDevice, manager, heard, registry, sessions, pending, calls, inbox>>

\* hello: envelope device d, payload device p, versionOk when p's version list
\* holds COMPANION_PROTOCOL_VERSION.  An envelope id of blanks passes the check
\* as if there were none, but the handle is installed under it.  A refused hello
\* changes no session of the manager, but the transport still refreshes the
\* registry and still installs the session handle, because ingress turns the
\* error into an error envelope.
Hello(c, d, p, versionOk) ==
  LET accepted == d \in {NoDevice, Blank, p} /\ versionOk
      entry == [state |-> "handshaking", caps |-> FALSE, perms |-> FALSE]
  IN  /\ Receiving(c)
      /\ manager' = IF accepted THEN [manager EXCEPT ![p] = entry] ELSE manager
      /\ heard' = IF accepted THEN [heard EXCEPT ![p] = [last |-> "none", full |-> {}]]
                  ELSE heard
      /\ registry' = Upserted(manager')
      /\ sessions' = IF d = NoDevice THEN sessions ELSE [sessions EXCEPT ![d] = c]
      /\ Reply(c, d)
      /\ UNCHANGED <<writer, pending, calls, inbox>>

\* Mutant: a capability list creates the session it does not find.
CapabilityListBeforeHello(c, d, valid, listed) ==
  LET accepted == d \notin {NoDevice, Blank} /\ valid
      entry == [state |-> IF manager[d].perms THEN "ready" ELSE manager[d].state,
                caps |-> listed, perms |-> manager[d].perms]
  IN  /\ Receiving(c)
      /\ manager' = IF accepted THEN [manager EXCEPT ![d] = entry] ELSE manager
      /\ heard' = IF accepted THEN Announce(d, "capabilities", listed) ELSE heard
      /\ registry' = Upserted(manager')
      /\ Reply(c, d)
      /\ UNCHANGED <<writer, sessions, pending, calls, inbox>>

\* capabilityList, refused without a device id: `listed` says whether the
\* announced list is non-empty; an unknown capability or operation
\* (valid = FALSE) is refused.
CapabilityList(c, d, valid, listed) ==
  LET accepted == d \notin {NoDevice, Blank} /\ valid /\ manager[d] # Absent
      entry == [state |-> IF manager[d].perms THEN "ready" ELSE manager[d].state,
                caps |-> listed, perms |-> manager[d].perms]
  IN  /\ Receiving(c)
      /\ manager' = IF accepted THEN [manager EXCEPT ![d] = entry] ELSE manager
      /\ heard' = IF accepted THEN Announce(d, "capabilities", listed) ELSE heard
      /\ registry' = Upserted(manager')
      /\ Reply(c, d)
      /\ UNCHANGED <<writer, sessions, pending, calls, inbox>>

\* Mutant: any list announced earlier makes the session ready, also an earlier
\* permission list.
PermissionStateRepeated(c, d, valid, listed) ==
  LET accepted == d \notin {NoDevice, Blank} /\ valid /\ manager[d] # Absent
      entry == [state |-> IF manager[d].caps \/ manager[d].perms THEN "ready"
                          ELSE manager[d].state,
                caps |-> manager[d].caps, perms |-> listed]
  IN  /\ Receiving(c)
      /\ manager' = IF accepted THEN [manager EXCEPT ![d] = entry] ELSE manager
      /\ heard' = IF accepted THEN Announce(d, "permissions", listed) ELSE heard
      /\ registry' = Upserted(manager')
      /\ Reply(c, d)
      /\ UNCHANGED <<writer, sessions, pending, calls, inbox>>

\* permissionState, the mirror image of capabilityList.
PermissionState(c, d, valid, listed) ==
  LET accepted == d \notin {NoDevice, Blank} /\ valid /\ manager[d] # Absent
      entry == [state |-> IF manager[d].caps THEN "ready" ELSE manager[d].state,
                caps |-> manager[d].caps, perms |-> listed]
  IN  /\ Receiving(c)
      /\ manager' = IF accepted THEN [manager EXCEPT ![d] = entry] ELSE manager
      /\ heard' = IF accepted THEN Announce(d, "permissions", listed) ELSE heard
      /\ registry' = Upserted(manager')
      /\ Reply(c, d)
      /\ UNCHANGED <<writer, sessions, pending, calls, inbox>>

\* A heartbeat is never answered, so a dead writer goes unnoticed.
Heartbeat(c, d) ==
  /\ Receiving(c)
  /\ registry' = Upserted(manager)
  /\ lastDevice' = [lastDevice EXCEPT ![c] = IF d = NoDevice THEN @ ELSE d]
  /\ UNCHANGED <<conn, writer, manager, heard, sessions, pending, calls, inbox>>

\* stream messages and kinds of the opposite direction: acknowledged or
\* refused, no session changes, the registry is refreshed all the same.
OtherEnvelope(c, d) ==
  /\ Receiving(c)
  /\ registry' = Upserted(manager)
  /\ Reply(c, d)
  /\ UNCHANGED <<writer, manager, heard, sessions, pending, calls, inbox>>

\* commandResponse or error, from any connection: whichever waiter is registered
\* under the request id it names gets it and leaves the map.  The peer answers a
\* request it has received, or sends something else under some request id: an
\* answer nobody asked for, one it has already sent, one to a request that came
\* over another connection.
Response(c, id, a) ==
  LET waiter == pending[id]
  IN  /\ Receiving(c)
      /\ \/ \E r \in inbox : /\ r.conn = c /\ r.call = a /\ IdOf[a] = id
                            /\ inbox' = inbox \ {r}
         \/ a = Stray /\ c \in Strays /\ UNCHANGED inbox
      /\ pending' = [pending EXCEPT ![id] = NoCall]
      /\ calls' = IF waiter = NoCall THEN calls
                  ELSE [calls EXCEPT ![waiter].answer = a]
      /\ UNCHANGED <<connVars, manager, heard, registry, sessions>>

\* An invalid frame length, JSON text or envelope, or the 10 s heartbeat tick
\* finding the channel closed: the loop returns an error.
FrameError(c) ==
  /\ Receiving(c)
  /\ conn' = [conn EXCEPT ![c] = "failing"]
  /\ UNCHANGED <<lastDevice, writer, manager, heard, registry, sessions, pending, calls, inbox>>

\* Mutant: after an error only the last device's handle is removed.
TeardownLastDevice(c) ==
  /\ conn[c] = "failing"
  /\ conn' = [conn EXCEPT ![c] = "closed"]
  /\ lastDevice' = [lastDevice EXCEPT ![c] = NoDevice]
  /\ Disconnect(c, {lastDevice[c]} \cap Devices)
  /\ UNCHANGED <<writer, manager, heard, pending, calls, inbox>>

\* After an error the handler runs disconnect_connection at once.
Teardown(c) ==
  /\ conn[c] = "failing"
  /\ conn' = [conn EXCEPT ![c] = "closed"]
  /\ lastDevice' = [lastDevice EXCEPT ![c] = NoDevice]
  /\ Disconnect(c, Devices)
  /\ UNCHANGED <<writer, manager, heard, pending, calls, inbox>>

\* The peer's stream ends: disconnect(connection_id, device_id), then the
\* handler awaits the writer.  Frames still queued may fail to be written.
StreamClosed(c) ==
  /\ Receiving(c)
  /\ conn' = [conn EXCEPT ![c] = "draining"]
  /\ Disconnect(c, {lastDevice[c]} \cap Devices)
  /\ lastDevice' = [lastDevice EXCEPT ![c] = NoDevice]
  /\ \E up \in {writer[c], FALSE} : writer' = [writer EXCEPT ![c] = up]
  /\ UNCHANGED <<manager, heard, pending, calls, inbox>>

\* The writer ends when its channel has no sender left; a connection task
\* holds one while it is open.
WriterDone(c) ==
  /\ RuntimeFree
  /\ writer[c]
  /\ conn[c] \in {"draining", "closed"}
  /\ ~SenderHeld(c)
  /\ writer' = [writer EXCEPT ![c] = FALSE]
  /\ UNCHANGED <<conn, lastDevice, manager, heard, registry, sessions, pending, calls, inbox>>

\* A write to the peer fails.
WriterFails(c) ==
  /\ RuntimeFree
  /\ writer[c]
  /\ conn[c] = "open"
  /\ writer' = [writer EXCEPT ![c] = FALSE]
  /\ UNCHANGED <<conn, lastDevice, manager, heard, registry, sessions, pending, calls, inbox>>

\* writer.await returns and handle_connection runs disconnect_connection.
Drained(c) ==
  /\ RuntimeFree
  /\ conn[c] = "draining"
  /\ ~writer[c]
  /\ conn' = [conn EXCEPT ![c] = "closed"]
  /\ lastDevice' = [lastDevice EXCEPT ![c] = NoDevice]
  /\ Disconnect(c, Devices)
  /\ UNCHANGED <<writer, manager, heard, pending, calls, inbox>>

-----------------------------------------------------------------------------
(* Callers: device.invoke on an IPC thread *)

Move(k, from, to) ==
  /\ calls[k].phase = from
  /\ calls' = [calls EXCEPT ![k].phase = to]

\* handle_device_invoke checks the registry entry it read.
Check(k, d) ==
  /\ calls[k].phase = "new"
  /\ calls' = [calls EXCEPT ![k] =
                 [@ EXCEPT !.device = d,
                   !.phase = IF registry[d] = Absent THEN "notConnected"
                             ELSE IF ~registry[d].caps THEN "noCapability"
                             ELSE "checked"]]
  /\ UNCHANGED <<connVars, manager, heard, registry, sessions, pending, inbox>>

\* send_command_envelope clones the session handle.
Route(k) ==
  LET c == sessions[calls[k].device]
  IN  /\ calls[k].phase = "checked"
      /\ calls' = [calls EXCEPT ![k] =
                     [@ EXCEPT !.route = c,
                       !.phase = IF c = NoConn THEN "noSession" ELSE "routed"]]
      /\ UNCHANGED <<connVars, manager, heard, registry, sessions, pending, inbox>>

\* Mutant: the waiter is registered under another key than the response uses.
InsertWrongKey(k) ==
  /\ Move(k, "routed", "inserted")
  /\ UNCHANGED <<connVars, manager, heard, registry, sessions, pending, inbox>>

\* pending.insert: a waiter already registered under the id is replaced.  Its
\* sender is dropped, so its recv_timeout fails early: Expire, which has no clock.
Insert(k) ==
  /\ Move(k, "routed", "inserted")
  /\ pending' = [pending EXCEPT ![IdOf[k]] = k]
  /\ UNCHANGED <<connVars, manager, heard, registry, sessions, inbox>>

\* Mutant: the error paths leave the waiter registered.
ForgetNothing(k) == pending' = pending

\* pending.remove(&request_id) in an error path removes whichever waiter is
\* registered under the id.
Forget(k) == pending' = [pending EXCEPT ![IdOf[k]] = NoCall]

\* Mutant: a write that ends the writer is reported as a failed send.
SendReported(k) ==
  LET c == calls[k].route
  IN  /\ calls[k].phase = "inserted" /\ writer[c]
      /\ \E reaches \in BOOLEAN, up \in BOOLEAN :
           /\ Move(k, "inserted", IF up THEN "waiting" ELSE "sendFailed")
           /\ inbox' = IF reaches THEN inbox \cup {[conn |-> c, call |-> k]} ELSE inbox
           /\ writer' = [writer EXCEPT ![c] = up]
           /\ IF up THEN UNCHANGED pending ELSE Forget(k)
      /\ UNCHANGED <<conn, lastDevice, manager, heard, registry, sessions>>

\* outgoing.send succeeds while the writer owns the receiver; whether the
\* frame reaches the peer, and whether the write ends the writer, is open.
Send(k) ==
  LET c == calls[k].route
  IN  /\ Move(k, "inserted", "waiting")
      /\ writer[c]
      /\ \E reaches \in BOOLEAN, up \in BOOLEAN :
           /\ inbox' = IF reaches THEN inbox \cup {[conn |-> c, call |-> k]} ELSE inbox
           /\ writer' = [writer EXCEPT ![c] = up]
      /\ UNCHANGED <<conn, lastDevice, manager, heard, registry, sessions, pending>>

SendFails(k) ==
  /\ Move(k, "inserted", "sendFailed")
  /\ ~writer[calls[k].route]
  /\ Forget(k)
  /\ UNCHANGED <<connVars, manager, heard, registry, sessions, inbox>>

\* recv_timeout returns the response.
Receive(k) ==
  /\ calls[k].answer # NoCall
  /\ Move(k, "waiting", "answered")
  /\ UNCHANGED <<connVars, manager, heard, registry, sessions, pending, inbox>>

\* Mutant: recv() without a timeout, which fails only when the sender is gone.
ExpireUnbounded(k) ==
  /\ calls[k].answer = NoCall
  /\ pending[IdOf[k]] # k
  /\ Move(k, "waiting", "expired")
  /\ UNCHANGED <<connVars, manager, heard, registry, sessions, pending, inbox>>

\* recv_timeout returns an error: 15 seconds have passed, or the sender is gone.
Expire(k) ==
  /\ calls[k].answer = NoCall
  /\ Move(k, "waiting", "expired")
  /\ UNCHANGED <<connVars, manager, heard, registry, sessions, pending, inbox>>

\* map_err then removes the request id.
GiveUp(k) ==
  /\ Move(k, "expired", "timeout")
  /\ Forget(k)
  /\ UNCHANGED <<connVars, manager, heard, registry, sessions, inbox>>

-----------------------------------------------------------------------------
ConnStep(c) ==
  \/ Open(c)
  \/ \E d \in Claims[c], p \in Claims[c] \cap Devices, ok \in BOOLEAN : Hello(c, d, p, ok)
  \/ \E d \in Claims[c], ok \in BOOLEAN, listed \in Lists : CapabilityList(c, d, ok, listed)
  \/ \E d \in Claims[c], ok \in BOOLEAN, listed \in Lists : PermissionState(c, d, ok, listed)
  \/ \E d \in Claims[c] : Heartbeat(c, d)
  \/ \E d \in Claims[c] : OtherEnvelope(c, d)
  \/ \E id \in RequestIds, a \in Calls \cup {Stray} : Response(c, id, a)
  \/ FrameError(c)
  \/ Teardown(c)
  \/ StreamClosed(c)
  \/ WriterDone(c)
  \/ WriterFails(c)
  \/ Drained(c)

CallStep(k) ==
  \/ \E d \in Devices : Check(k, d)
  \/ Route(k)
  \/ Insert(k)
  \/ Send(k)
  \/ SendFails(k)
  \/ Receive(k)
  \/ Expire(k)
  \/ GiveUp(k)

Next ==
  \/ \E c \in Conns : ConnStep(c)
  \/ \E k \in Calls : CallStep(k)

\* A caller's thread keeps running and its 15 s timer fires.  Nothing is assumed
\* of the peers, nor of the connections' tasks.
Running(k) == Route(k) \/ Insert(k) \/ Send(k) \/ SendFails(k) \/ Receive(k)
              \/ Expire(k) \/ GiveUp(k)
Fairness == \A k \in Calls : WF_vars(Running(k))

Spec == Init /\ [][Next]_vars
FairSpec == Spec /\ Fairness

-----------------------------------------------------------------------------
(* Properties *)

\* What the callers' local variables hold at each point of device.invoke.
CallsFit ==
  \A k \in Calls :
    /\ calls[k].phase = "checked" => calls[k].device \in Devices
    /\ calls[k].phase \in {"routed", "inserted", "waiting", "expired"}
         => calls[k].route \in Conns
    /\ calls[k].phase \in {"new", "checked", "routed"} => calls[k].answer = NoCall
    /\ calls[k].answer # NoCall => pending[IdOf[k]] # k

\* Commands are never routed to a connection whose handler is gone: every way
\* out of handle_connection clears the session handles it installed, also the
\* ones a peer installed for ids that are not its own.
HandlesAreLive ==
  \A d \in Devices :
    sessions[d] # NoConn => conn[sessions[d]] \in {"open", "failing", "draining"}

\* A device with a live session that completed a hello is listed: no teardown
\* of an older connection and no refused message of any peer hides it.
LiveDeviceListed ==
  \A d \in Devices :
    sessions[d] # NoConn /\ manager[d] # Absent => registry[d] # Absent

\* What clients are shown of a device is the session manager's current view,
\* never an earlier one (accept_envelope refreshes the registry after every
\* message, outside the ingress lock).
RegistryIsCurrent ==
  \A d \in Devices : registry[d] # Absent => registry[d] = manager[d]

\* Every entry of `pending` belongs to a caller that has not returned: the
\* map cannot grow by one entry for each timed-out or failed command.
PendingHasWaiter ==
  \A i \in RequestIds : pending[i] # NoCall =>
    /\ IdOf[pending[i]] = i
    /\ calls[pending[i]].phase \in {"inserted", "waiting", "expired"}

\* While a command waits, its waiter is in the map, where a response finds it,
\* until it has been given one: it is registered before the request goes out, and
\* only another call under the same request id can take it away, not a response,
\* a time-out or a failed send of any other.  And no response reaches a call of
\* another request id, whatever the peers send and in whatever order.
Registered == {"inserted", "waiting", "expired", "answered", "timeout", "sendFailed"}
NoAnswerLost ==
  \A k \in Calls :
    /\ calls[k].answer \in {NoCall, Stray} \cup {j \in Calls : IdOf[j] = IdOf[k]}
    /\ calls[k].phase \in {"inserted", "waiting"} /\ calls[k].answer = NoCall
         => \/ pending[IdOf[k]] = k
            \/ \E j \in Calls \ {k} : IdOf[j] = IdOf[k] /\ calls[j].phase \in Registered

\* The teardown of one connection leaves the session and the registry entry of
\* a device that has reconnected over another one alone.
OtherSessionsKept ==
  [][\A c \in Conns : conn'[c] # conn[c] /\ conn'[c] \in {"draining", "closed"} =>
       \A d \in Devices : sessions[d] # c =>
         sessions'[d] = sessions[d] /\ registry'[d] = registry[d]]_vars

\* A device becomes ready only by the list that completes the pair
\* (nextRequiredMessages of helloAck): since its hello it has announced one list,
\* non-empty, and the step brings the other.  No repeated list makes it ready,
\* and no list from before a reconnection counts.
ReadyTakesTwoMessages ==
  [][\A d \in Devices :
       manager[d].state # "ready" /\ manager'[d].state = "ready"
         => \E k \in heard[d].full : heard'[d].last \in ListKinds \ {k}]_vars

\* Every command settles, also when the connection drops while it waits, when
\* another caller takes its request id, and when the peer never answers.
CallsSettle ==
  \A k \in Calls : calls[k].phase # "new" ~> calls[k].phase \in Settled

\* What a caller's phase amounts to for whoever waits for the call.
Outcome ==
  [p \in CallPhase |->
     CASE p = "new" -> "new"
       [] p \in {"checked", "routed", "inserted"} -> "open"
       [] p \in {"waiting", "expired"} -> "sent"
       [] p = "answered" -> "answered"
       [] p = "timeout" -> "unknown"
       [] OTHER -> "refused"]
Promise == INSTANCE CommandPromise WITH
             state <- [k \in Calls |-> Outcome[calls[k].phase]],
             asked <- {r.call : r \in inbox},
             got   <- [k \in Calls |-> calls[k].answer]

\* device.invoke keeps its promise: a command goes to the phone at most once; a call
\* that is refused, for want of a session or because the send failed, never reached
\* it, one that times out may have; an answer goes to one caller that still waits, to
\* the one that asked when nobody shares its id; what a phone sends unasked reaches at
\* most the call that waits under the id it names.
KeepsPromise == Promise!Spec

\* "Every exit path, including malformed frames and socket errors, must remove
\* the live registry entry" (comment in handle_connection): a device is listed
\* only while a connection serves it.  The code breaks this: any message of
\* another device puts the entry back.
NoStaleOnline ==
  \A d \in Devices : registry[d] # Absent => sessions[d] # NoConn

\* A refused hello must not confuse the connection's identity (test comment in
\* session.rs): the peer of a refused hello does not become the route of the
\* device it named.  The code breaks this: the handle is installed all the same.
RoutesComeFromHellos ==
  \A d \in Devices : sessions[d] # NoConn => manager[d] # Absent
=============================================================================
