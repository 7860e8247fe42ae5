------------------------- MODULE CompanionLinkProofs -------------------------
(***************************************************************************)
(* Theorems about CompanionLink, for every set of devices, connections and *)
(* calls, every choice of request ids (repeated ones included) and every   *)
(* claim a peer may make.                                                  *)
(***************************************************************************)
EXTENDS CompanionLink, TLAPS

(* The inductive invariant: the properties the runs check, strengthened by  *)
(* what the callers' local variables hold.                                  *)
LinkInv ==
  /\ TypeOK
  /\ CallsFit
  /\ HandlesAreLive
  /\ LiveDeviceListed
  /\ RegistryIsCurrent
  /\ PendingHasWaiter

-----------------------------------------------------------------------------
(* What every accepted envelope other than a response does.                 *)
MessageStep(c) ==
  /\ Receiving(c)
  /\ manager' \in [Devices -> Entry \cup {Absent}]
  /\ \A d \in Devices : manager[d] # Absent => manager'[d] # Absent
  /\ registry' = Upserted(manager')
  /\ sessions' \in [Devices -> Conns \cup {NoConn}]
  /\ \A d \in Devices : sessions'[d] \in {sessions[d], c}
  /\ conn' \in {conn, [conn EXCEPT ![c] = "failing"]}
  /\ lastDevice' \in [Conns -> Devices \cup {NoDevice}]
  /\ heard' \in [Devices -> Heard]
  /\ UNCHANGED <<writer, pending, calls, inbox>>

\* The reply of accept_envelope leaves the connection open or failing.
LEMMA ReplyEffect ==
  ASSUME TypeOK, NEW c \in Conns, NEW d \in Devices \cup {NoDevice}, Reply(c, d)
  PROVE  /\ conn' \in {conn, [conn EXCEPT ![c] = "failing"]}
         /\ lastDevice' \in [Conns -> Devices \cup {NoDevice}]
BY DEF Reply, TypeOK

\* A hello is a message step: it may replace an entry, never remove one.
LEMMA HelloEffect ==
  ASSUME TypeOK, NEW c \in Conns, NEW d \in Devices \cup {NoDevice},
         NEW p \in Devices, NEW ok \in BOOLEAN, Hello(c, d, p, ok)
  PROVE  MessageStep(c)
<1> DEFINE entry == [state |-> "handshaking", caps |-> FALSE, perms |-> FALSE]
<1>1. entry \in Entry /\ entry # Absent
  BY DEF Entry, Absent
<1>2. manager' \in {manager, [manager EXCEPT ![p] = entry]}
  BY DEF Hello
<1>3. /\ manager' \in [Devices -> Entry \cup {Absent}]
      /\ \A x \in Devices : manager[x] # Absent => manager'[x] # Absent
  <2> HIDE DEF entry
  <2> QED
    BY <1>1, <1>2 DEF TypeOK
<1>4. /\ sessions' \in [Devices -> Conns \cup {NoConn}]
      /\ \A x \in Devices : sessions'[x] \in {sessions[x], c}
  BY DEF Hello, TypeOK
<1>5. heard' \in [Devices -> Heard]
  BY DEF Hello, TypeOK, Heard, ListKinds
<1>6. QED
  BY <1>3, <1>4, <1>5, ReplyEffect DEF Hello, MessageStep

\* The list messages replace the lists and the state of a known session.
LEMMA ListEffect ==
  ASSUME TypeOK, NEW c \in Conns, NEW d \in Devices \cup {NoDevice},
         NEW ok \in BOOLEAN, NEW listed \in BOOLEAN,
         CapabilityList(c, d, ok, listed) \/ PermissionState(c, d, ok, listed)
  PROVE  MessageStep(c)
<1>0. heard' \in [Devices -> Heard]
  <2>1. CASE heard' = heard
    BY <2>1 DEF TypeOK
  <2>2. ASSUME d \in Devices, NEW kind \in ListKinds, heard' = Announce(d, kind, listed)
        PROVE  heard' \in [Devices -> Heard]
    <3>1. heard[d].full \in SUBSET ListKinds
      BY <2>2 DEF TypeOK, Heard
    <3>2. [last |-> kind, full |-> IF listed THEN heard[d].full \cup {kind}
                                   ELSE heard[d].full \ {kind}] \in Heard
      BY <2>2, <3>1 DEF Heard
    <3>3. QED
      BY <2>2, <3>2 DEF Announce, TypeOK
  <2>3. QED
    BY <2>1, <2>2 DEF CapabilityList, PermissionState, ListKinds
<1>1. CASE manager' = manager
  BY <1>0, <1>1, ReplyEffect DEF CapabilityList, PermissionState, MessageStep, TypeOK
<1>2. CASE manager' # manager
  <2>1. d \in Devices /\ manager[d] \in Entry
    BY <1>2 DEF CapabilityList, PermissionState, TypeOK
  <2>2. PICK e \in Entry : manager' = [manager EXCEPT ![d] = e]
    <3>1. /\ manager[d].state \in {"handshaking", "ready"}
          /\ manager[d].caps \in BOOLEAN
          /\ manager[d].perms \in BOOLEAN
      BY <2>1 DEF Entry
    <3>2. CASE CapabilityList(c, d, ok, listed)
      <4> DEFINE e == [state |-> IF manager[d].perms THEN "ready" ELSE manager[d].state,
                       caps |-> listed, perms |-> manager[d].perms]
      <4>1. manager' = [manager EXCEPT ![d] = e]
        BY <3>2, <1>2 DEF CapabilityList
      <4>2. e \in Entry
        BY <3>1 DEF Entry
      <4>3. QED
        BY <4>1, <4>2
    <3>3. CASE PermissionState(c, d, ok, listed)
      <4> DEFINE e == [state |-> IF manager[d].caps THEN "ready" ELSE manager[d].state,
                       caps |-> manager[d].caps, perms |-> listed]
      <4>1. manager' = [manager EXCEPT ![d] = e]
        BY <3>3, <1>2 DEF PermissionState
      <4>2. e \in Entry
        BY <3>1 DEF Entry
      <4>3. QED
        BY <4>1, <4>2
    <3>4. QED
      BY <3>2, <3>3
  <2>3. e # Absent
    BY DEF Entry, Absent
  <2>4. /\ manager' \in [Devices -> Entry \cup {Absent}]
        /\ \A x \in Devices : manager[x] # Absent => manager'[x] # Absent
    BY <2>2, <2>3, <2>1 DEF TypeOK
  <2>5. QED
    BY <1>0, <2>4, ReplyEffect DEF CapabilityList, PermissionState, MessageStep, TypeOK
<1>3. QED
  BY <1>1, <1>2

\* Heartbeats and other envelopes only refresh the registry.
LEMMA RefreshEffect ==
  ASSUME TypeOK, NEW c \in Conns, NEW d \in Devices \cup {NoDevice},
         Heartbeat(c, d) \/ OtherEnvelope(c, d)
  PROVE  MessageStep(c)
<1>1. lastDevice' \in [Conns -> Devices \cup {NoDevice}]
  BY ReplyEffect DEF Heartbeat, OtherEnvelope, TypeOK
<1>2. QED
  BY <1>1, ReplyEffect DEF Heartbeat, OtherEnvelope, MessageStep, TypeOK

-----------------------------------------------------------------------------
(* What the end of a connection does: the handler clears what it installed. *)
CloseStep(c) ==
  /\ \E ds \in SUBSET Devices :
       /\ Disconnect(c, ds)
       /\ \/ conn' = [conn EXCEPT ![c] = "closed"] /\ ds = Devices
          \/ conn' = [conn EXCEPT ![c] = "draining"]
  /\ lastDevice' \in [Conns -> Devices \cup {NoDevice}]
  /\ writer' \in [Conns -> BOOLEAN]
  /\ UNCHANGED <<manager, heard, pending, calls, inbox>>

LEMMA CloseEffect ==
  ASSUME TypeOK, NEW c \in Conns, Teardown(c) \/ StreamClosed(c) \/ Drained(c)
  PROVE  CloseStep(c)
<1>1. CASE Teardown(c)
  BY <1>1 DEF Teardown, CloseStep, TypeOK
<1>2. CASE StreamClosed(c)
  <2>1. {lastDevice[c]} \cap Devices \in SUBSET Devices
    OBVIOUS
  <2>2. QED
    BY <1>2, <2>1 DEF StreamClosed, CloseStep, TypeOK
<1>3. CASE Drained(c)
  BY <1>3 DEF Drained, CloseStep, TypeOK
<1>4. QED
  BY <1>1, <1>2, <1>3

\* Steps that touch neither the registry, the sessions nor the manager.
QuietStep ==
  /\ UNCHANGED <<manager, registry, sessions>>
  /\ \/ UNCHANGED conn
     \/ \E c \in Conns : /\ conn[c] \in {"new", "open"}
                         /\ conn' \in {[conn EXCEPT ![c] = "open"],
                                       [conn EXCEPT ![c] = "failing"]}

\* Every step is a message, the end of a connection, or quiet.
LEMMA StepKinds ==
  ASSUME TypeOK, [Next]_vars
  PROVE  \/ \E c \in Conns : MessageStep(c) \/ CloseStep(c)
         \/ QuietStep
<1>1. ASSUME NEW c \in Conns, ConnStep(c)
      PROVE  MessageStep(c) \/ CloseStep(c) \/ QuietStep
  <2>1. Claims[c] \subseteq Devices \cup {NoDevice} /\ Lists \subseteq BOOLEAN
    BY LinkAssumption
  <2>2. CASE Open(c) \/ FrameError(c)
    BY <2>2 DEF Open, FrameError, Receiving, QuietStep
  <2>3. CASE WriterDone(c) \/ WriterFails(c) \/ \E id \in RequestIds, a \in Calls \cup {Stray} : Response(c, id, a)
    BY <2>3 DEF WriterDone, WriterFails, Response, QuietStep, connVars
  <2>4. CASE Teardown(c) \/ StreamClosed(c) \/ Drained(c)
    BY <2>4, CloseEffect
  <2>5. CASE \E d \in Claims[c], p \in Claims[c] \cap Devices, ok \in BOOLEAN :
               Hello(c, d, p, ok)
    BY <2>5, <2>1, HelloEffect
  <2>6. CASE \E d \in Claims[c], ok \in BOOLEAN, listed \in Lists :
               CapabilityList(c, d, ok, listed) \/ PermissionState(c, d, ok, listed)
    BY <2>6, <2>1, ListEffect
  <2>7. CASE \E d \in Claims[c] : Heartbeat(c, d) \/ OtherEnvelope(c, d)
    BY <2>7, <2>1, RefreshEffect
  <2>8. QED
    BY <1>1, <2>2, <2>3, <2>4, <2>5, <2>6, <2>7 DEF ConnStep
<1>2. ASSUME NEW k \in Calls, CallStep(k) PROVE QuietStep
  BY <1>2 DEF CallStep, Check, Route, Insert, Send, SendFails, Receive, Expire,
     GiveUp, QuietStep, connVars
<1>3. CASE UNCHANGED vars
  BY <1>3 DEF vars, QuietStep
<1>4. QED
  BY <1>1, <1>2, <1>3 DEF Next

-----------------------------------------------------------------------------
(* Type correctness and the callers' local variables.                       *)
LEMMA LinkInit == Init => LinkInv
BY LinkAssumption DEF Init, LinkInv, TypeOK, Heard, ListKinds, CallsFit, HandlesAreLive,
   LiveDeviceListed, RegistryIsCurrent, PendingHasWaiter, ConnPhase, Entry,
   Absent, Call, CallPhase

LEMMA MessageType ==
  ASSUME TypeOK, CallsFit, NEW c \in Conns, MessageStep(c) \/ CloseStep(c)
  PROVE  TypeOK' /\ CallsFit'
<1>1. CASE MessageStep(c)
  BY <1>1 DEF MessageStep, TypeOK, CallsFit, Upserted, ConnPhase
<1>2. CASE CloseStep(c)
  <2>1. PICK ds \in SUBSET Devices :
          /\ Disconnect(c, ds)
          /\ conn' \in {[conn EXCEPT ![c] = "closed"], [conn EXCEPT ![c] = "draining"]}
    BY <1>2 DEF CloseStep
  <2>2. /\ sessions' \in [Devices -> Conns \cup {NoConn}]
        /\ registry' \in [Devices -> Entry \cup {Absent}]
        /\ conn' \in [Conns -> ConnPhase]
    BY <2>1 DEF Disconnect, TypeOK, ConnPhase
  <2>3. QED
    BY <1>2, <2>2 DEF CloseStep, TypeOK, CallsFit
<1>3. QED
  BY <1>1, <1>2

\* The other steps of a connection: opening, a frame error, the writer, and a
\* response, which hands the call's slot its answer as it leaves `pending`.
LEMMA TaskType ==
  ASSUME TypeOK, CallsFit, PendingHasWaiter, NEW c \in Conns,
         \/ Open(c) \/ FrameError(c) \/ WriterDone(c) \/ WriterFails(c)
         \/ \E id \in RequestIds, a \in Calls \cup {Stray} : Response(c, id, a)
  PROVE  TypeOK' /\ CallsFit' /\ PendingHasWaiter'
<1>1. CASE Open(c) \/ FrameError(c) \/ WriterDone(c) \/ WriterFails(c)
  <2>1. pending' = pending /\ calls' = calls
    BY <1>1 DEF Open, FrameError, WriterDone, WriterFails
  <2>2. TypeOK'
    BY <1>1 DEF Open, FrameError, WriterDone, WriterFails, TypeOK, ConnPhase
  <2>3. QED
    BY <2>1, <2>2 DEF CallsFit, PendingHasWaiter
<1>2. ASSUME NEW id \in RequestIds, NEW a \in Calls \cup {Stray}, Response(c, id, a)
      PROVE  TypeOK' /\ CallsFit' /\ PendingHasWaiter'
  <2> DEFINE waiter == pending[id]
  <2>1. waiter \in Calls \cup {NoCall} /\ NoCall \notin Calls
    BY LinkAssumption DEF TypeOK
  <2>2. /\ pending' = [pending EXCEPT ![id] = NoCall]
        /\ calls' = IF waiter = NoCall THEN calls
                    ELSE [calls EXCEPT ![waiter].answer = a]
        /\ inbox' \in SUBSET inbox
        /\ UNCHANGED <<conn, lastDevice, writer, manager, heard, registry, sessions>>
    BY <1>2 DEF Response, connVars
  <2>3. TypeOK'
    BY <2>1, <2>2 DEF TypeOK, Call
  <2>4. CASE waiter = NoCall
    <3>1. pending' = pending /\ calls' = calls
      BY <2>1, <2>2, <2>4 DEF TypeOK
    <3>2. QED
      BY <2>2, <2>3, <3>1 DEF CallsFit, PendingHasWaiter
  <2>5. CASE waiter # NoCall
    <3>1. /\ waiter \in Calls /\ IdOf[waiter] = id
          /\ calls[waiter].phase \in {"inserted", "waiting", "expired"}
      BY <2>1, <2>5 DEF PendingHasWaiter
    <3>2. \A k \in Calls : /\ calls'[k].phase = calls[k].phase
                           /\ calls'[k].device = calls[k].device
                           /\ calls'[k].route = calls[k].route
                           /\ k # waiter => calls'[k].answer = calls[k].answer
      BY <2>2, <2>5, <3>1 DEF TypeOK, Call
    <3>3. PendingHasWaiter'
      BY <2>1, <2>2, <3>2 DEF PendingHasWaiter, TypeOK
    <3>4. ASSUME NEW k \in Calls, calls'[k].answer # NoCall
          PROVE  pending'[IdOf[k]] # k
      BY <2>1, <2>2, <3>1, <3>2, <3>4, LinkAssumption DEF CallsFit, TypeOK
    <3>5. QED
      BY <2>3, <3>1, <3>2, <3>3, <3>4 DEF CallsFit
  <2>6. QED
    BY <2>4, <2>5
<1>3. QED
  BY <1>1, <1>2

\* A step of a caller.  Only Insert registers a waiter and only the owner of a
\* request id moves on from "inserted", so `pending` never outlives its caller.
LEMMA CallType ==
  ASSUME TypeOK, CallsFit, PendingHasWaiter, NEW k \in Calls, CallStep(k)
  PROVE  TypeOK' /\ CallsFit' /\ PendingHasWaiter'
<1> USE LinkAssumption DEF connVars
<1>1. ASSUME NEW d \in Devices, Check(k, d)
      PROVE  TypeOK' /\ CallsFit' /\ PendingHasWaiter'
  <2>1. TypeOK'
    <3> DEFINE ph == IF registry[d] = Absent THEN "notConnected"
                     ELSE IF ~registry[d].caps THEN "noCapability"
                     ELSE "checked"
    <3>1. /\ calls' = [calls EXCEPT ![k] = [@ EXCEPT !.device = d, !.phase = ph]]
          /\ ph \in CallPhase
      BY <1>1 DEF Check, CallPhase
    <3> HIDE DEF ph
    <3>2. [calls[k] EXCEPT !.device = d, !.phase = ph] \in Call
      <4> DEFINE x == [calls[k] EXCEPT !.device = d]
      <4>1. x \in Call
        BY DEF TypeOK, Call
      <4> HIDE DEF x
      <4>2. [x EXCEPT !.phase = ph] \in Call
        BY <3>1, <4>1 DEF Call
      <4>3. QED
        BY <4>2 DEF x
    <3>3. calls' \in [Calls -> Call]
      BY <3>1, <3>2 DEF TypeOK
    <3>4. QED
      BY <1>1, <3>3 DEF Check, TypeOK
  <2>2. \A j \in Calls \ {k} : calls'[j] = calls[j]
    BY <1>1 DEF Check, TypeOK
  <2>3. /\ calls[k].phase = "new" /\ calls'[k].device = d
        /\ calls'[k].phase \in {"notConnected", "noCapability", "checked"}
        /\ calls'[k].answer = calls[k].answer
    BY <1>1 DEF Check, TypeOK, Call
  <2>4. pending' = pending
    BY <1>1 DEF Check
  <2>5. CallsFit'
    BY <2>2, <2>3, <2>4 DEF CallsFit
  <2>6. PendingHasWaiter'
    BY <2>2, <2>3, <2>4 DEF PendingHasWaiter, TypeOK
  <2>7. QED
    BY <2>1, <2>5, <2>6
<1>2. CASE Route(k)
  <2> DEFINE c == sessions[calls[k].device]
  <2>1. calls[k].phase = "checked" /\ c \in Conns \cup {NoConn}
    BY <1>2 DEF Route, CallsFit, TypeOK
  <2>2. \A j \in Calls \ {k} : calls'[j] = calls[j]
    BY <1>2 DEF Route, TypeOK
  <2>3. /\ calls'[k].route = c
        /\ calls'[k].phase = IF c = NoConn THEN "noSession" ELSE "routed"
        /\ calls'[k].device = calls[k].device
        /\ calls'[k].answer = calls[k].answer
    BY <1>2 DEF Route, TypeOK, Call
  <2>4. TypeOK'
    <3> DEFINE ph == IF c = NoConn THEN "noSession" ELSE "routed"
    <3>1. /\ calls' = [calls EXCEPT ![k] = [@ EXCEPT !.route = c, !.phase = ph]]
          /\ ph \in CallPhase
      BY <1>2 DEF Route, CallPhase
    <3> HIDE DEF ph
    <3>2. [calls[k] EXCEPT !.route = c, !.phase = ph] \in Call
      <4> DEFINE x == [calls[k] EXCEPT !.route = c]
      <4>1. x \in Call
        BY <2>1 DEF TypeOK, Call
      <4> HIDE DEF x
      <4>2. [x EXCEPT !.phase = ph] \in Call
        BY <3>1, <4>1 DEF Call
      <4>3. QED
        BY <4>2 DEF x
    <3>3. calls' \in [Calls -> Call]
      BY <3>1, <3>2 DEF TypeOK
    <3>4. QED
      BY <1>2, <3>3 DEF Route, TypeOK
  <2>5. pending' = pending
    BY <1>2 DEF Route
  <2>6. CallsFit'
    BY <2>1, <2>2, <2>3, <2>5 DEF CallsFit
  <2>7. PendingHasWaiter'
    BY <2>1, <2>2, <2>5 DEF PendingHasWaiter, TypeOK
  <2>8. QED
    BY <2>4, <2>6, <2>7
<1>3. CASE Insert(k)
  <2>1. TypeOK'
    <3>1. calls' \in [Calls -> Call]
      BY <1>3 DEF Insert, Move, TypeOK, Call, CallPhase
    <3>2. pending' \in [RequestIds -> Calls \cup {NoCall}]
      BY <1>3 DEF Insert, TypeOK
    <3>3. QED
      BY <1>3, <3>1, <3>2 DEF Insert, TypeOK, connVars
  <2>2. /\ calls[k].phase = "routed" /\ calls'[k].phase = "inserted"
        /\ \A j \in Calls : /\ calls'[j].answer = calls[j].answer
                            /\ calls'[j].device = calls[j].device
                            /\ calls'[j].route = calls[j].route
                            /\ j # k => calls'[j].phase = calls[j].phase
    BY <1>3 DEF Insert, Move, TypeOK, Call
  <2>3. IdOf[k] \in RequestIds /\ pending' = [pending EXCEPT ![IdOf[k]] = k]
    BY <1>3 DEF Insert
  <2>4. CallsFit'
    BY <2>1, <2>2, <2>3 DEF CallsFit, TypeOK
  <2>5. PendingHasWaiter'
    BY <2>1, <2>2, <2>3 DEF PendingHasWaiter, TypeOK
  <2>6. QED
    BY <2>1, <2>4, <2>5
<1>4. CASE Send(k)
  <2>1. TypeOK'
    <3>1. calls[k].phase = "inserted" /\ calls[k].route \in Conns
      BY <1>4 DEF Send, Move, CallsFit
    <3>2. QED
      BY <1>4, <3>1 DEF Send, Move, TypeOK, Call, CallPhase, Request
  <2>2. /\ calls[k].phase = "inserted" /\ calls'[k].phase = "waiting"
        /\ \A j \in Calls : /\ calls'[j].answer = calls[j].answer
                            /\ calls'[j].device = calls[j].device
                            /\ calls'[j].route = calls[j].route
                            /\ j # k => calls'[j].phase = calls[j].phase
    BY <1>4 DEF Send, Move, TypeOK, Call
  <2>3. pending' = pending
    BY <1>4 DEF Send
  <2>4. CallsFit'
    BY <2>1, <2>2, <2>3 DEF CallsFit, TypeOK
  <2>5. PendingHasWaiter'
    BY <2>1, <2>2, <2>3 DEF PendingHasWaiter, TypeOK
  <2>6. QED
    BY <2>1, <2>4, <2>5
<1>5. CASE SendFails(k) \/ GiveUp(k)
  <2>1. TypeOK'
    BY <1>5 DEF SendFails, GiveUp, Forget, Move, TypeOK, Call, CallPhase
  <2>2. /\ calls[k].phase \in {"inserted", "expired"}
        /\ calls'[k].phase \in {"sendFailed", "timeout"}
        /\ \A j \in Calls : /\ calls'[j].answer = calls[j].answer
                            /\ calls'[j].device = calls[j].device
                            /\ calls'[j].route = calls[j].route
                            /\ j # k => calls'[j].phase = calls[j].phase
    BY <1>5 DEF SendFails, GiveUp, Move, TypeOK, Call
  <2>3. IdOf[k] \in RequestIds /\ pending' = [pending EXCEPT ![IdOf[k]] = NoCall]
    BY <1>5 DEF SendFails, GiveUp, Forget
  <2>4. CallsFit'
    BY <2>1, <2>2, <2>3 DEF CallsFit, TypeOK
  <2>5. PendingHasWaiter'
    BY <2>1, <2>2, <2>3 DEF PendingHasWaiter, TypeOK
  <2>6. QED
    BY <2>1, <2>4, <2>5
<1>6. CASE Receive(k) \/ Expire(k)
  <2>1. TypeOK'
    BY <1>6 DEF Receive, Expire, Move, TypeOK, Call, CallPhase
  <2>2. /\ calls[k].phase = "waiting"
        /\ \/ calls'[k].phase = "expired"
           \/ calls'[k].phase = "answered" /\ calls[k].answer # NoCall
        /\ \A j \in Calls : /\ calls'[j].answer = calls[j].answer
                            /\ calls'[j].device = calls[j].device
                            /\ calls'[j].route = calls[j].route
                            /\ j # k => calls'[j].phase = calls[j].phase
        /\ pending' = pending
    BY <1>6 DEF Receive, Expire, Move, TypeOK, Call
  <2>3. CallsFit'
    BY <2>1, <2>2 DEF CallsFit, TypeOK
  <2>4. PendingHasWaiter'
    <3>1. CASE calls'[k].phase = "expired"
      BY <2>1, <2>2, <3>1 DEF PendingHasWaiter, TypeOK
    <3>2. CASE calls'[k].phase = "answered" /\ calls[k].answer # NoCall
      <4>1. pending[IdOf[k]] # k
        BY <3>2 DEF CallsFit
      <4>2. QED
        BY <2>1, <2>2, <4>1 DEF PendingHasWaiter, TypeOK
    <3>3. QED
      BY <2>2, <3>1, <3>2
  <2>5. QED
    BY <2>1, <2>3, <2>4
<1>7. QED
  BY <1>1, <1>2, <1>3, <1>4, <1>5, <1>6 DEF CallStep

-----------------------------------------------------------------------------
(* The session map, the registry and the manager.                           *)

\* A message step installs handles of its own, open connection only; the end of
\* a connection removes every handle of the connection it closes.
LEMMA LinkStep ==
  ASSUME LinkInv, [Next]_vars
  PROVE  HandlesAreLive' /\ LiveDeviceListed' /\ RegistryIsCurrent'
<1> USE LinkAssumption DEF LinkInv
<1>1. ASSUME NEW c \in Conns, MessageStep(c)
      PROVE  HandlesAreLive' /\ LiveDeviceListed' /\ RegistryIsCurrent'
  <2>1. HandlesAreLive'
    BY <1>1 DEF MessageStep, HandlesAreLive, Receiving, TypeOK
  <2>2. LiveDeviceListed'
    BY <1>1 DEF MessageStep, LiveDeviceListed, Upserted
  <2>3. RegistryIsCurrent'
    BY <1>1 DEF MessageStep, RegistryIsCurrent, Upserted
  <2>4. QED
    BY <2>1, <2>2, <2>3
<1>2. ASSUME NEW c \in Conns, CloseStep(c)
      PROVE  HandlesAreLive' /\ LiveDeviceListed' /\ RegistryIsCurrent'
  <2>1. PICK ds \in SUBSET Devices :
          /\ Disconnect(c, ds)
          /\ \/ conn' = [conn EXCEPT ![c] = "closed"] /\ ds = Devices
             \/ conn' = [conn EXCEPT ![c] = "draining"]
    BY <1>2 DEF CloseStep
  <2>2. manager' = manager
    BY <1>2 DEF CloseStep
  <2>3. HandlesAreLive'
    BY <2>1 DEF HandlesAreLive, Disconnect, Owned, TypeOK
  <2>4. LiveDeviceListed'
    BY <2>1, <2>2 DEF LiveDeviceListed, Disconnect, Owned
  <2>5. RegistryIsCurrent'
    BY <2>1, <2>2 DEF RegistryIsCurrent, Disconnect, Owned
  <2>6. QED
    BY <2>3, <2>4, <2>5
<1>3. CASE QuietStep
  BY <1>3 DEF QuietStep, HandlesAreLive, LiveDeviceListed, RegistryIsCurrent, TypeOK
<1>4. QED
  BY <1>1, <1>2, <1>3, StepKinds

\* Every step preserves the inductive invariant.
LEMMA LinkInductive == LinkInv /\ [Next]_vars => LinkInv'
<1> SUFFICES ASSUME LinkInv, [Next]_vars PROVE LinkInv'
  OBVIOUS
<1>1. HandlesAreLive' /\ LiveDeviceListed' /\ RegistryIsCurrent'
  BY LinkStep
<1>2. TypeOK' /\ CallsFit' /\ PendingHasWaiter'
  <2>1. ASSUME NEW c \in Conns, ConnStep(c)
        PROVE  TypeOK' /\ CallsFit' /\ PendingHasWaiter'
    <3>1. Claims[c] \subseteq Devices \cup {NoDevice} /\ Lists \subseteq BOOLEAN
      BY LinkAssumption
    <3>2. CASE \/ Open(c) \/ FrameError(c) \/ WriterDone(c) \/ WriterFails(c)
               \/ \E id \in RequestIds, a \in Calls \cup {Stray} : Response(c, id, a)
      BY <3>2, TaskType DEF LinkInv
    <3>3. CASE Teardown(c) \/ StreamClosed(c) \/ Drained(c)
      BY <3>3, CloseEffect, MessageType DEF LinkInv, CloseStep, PendingHasWaiter
    <3>4. CASE \E d \in Claims[c], p \in Claims[c] \cap Devices, ok \in BOOLEAN :
                 Hello(c, d, p, ok)
      BY <3>1, <3>4, HelloEffect, MessageType DEF LinkInv, MessageStep, PendingHasWaiter
    <3>5. CASE \E d \in Claims[c], ok \in BOOLEAN, listed \in Lists :
                 CapabilityList(c, d, ok, listed) \/ PermissionState(c, d, ok, listed)
      BY <3>1, <3>5, ListEffect, MessageType DEF LinkInv, MessageStep, PendingHasWaiter
    <3>6. CASE \E d \in Claims[c] : Heartbeat(c, d) \/ OtherEnvelope(c, d)
      BY <3>1, <3>6, RefreshEffect, MessageType DEF LinkInv, MessageStep, PendingHasWaiter
    <3>7. QED
      BY <2>1, <3>2, <3>3, <3>4, <3>5, <3>6 DEF ConnStep
  <2>2. ASSUME NEW k \in Calls, CallStep(k)
        PROVE  TypeOK' /\ CallsFit' /\ PendingHasWaiter'
    BY <2>2, CallType DEF LinkInv
  <2>3. CASE UNCHANGED vars
    BY <2>3 DEF vars, LinkInv, TypeOK, CallsFit, PendingHasWaiter
  <2>4. QED
    BY <2>1, <2>2, <2>3 DEF Next
<1>3. QED
  BY <1>1, <1>2 DEF LinkInv

\* Every reachable state satisfies the invariant.
THEOREM LinkInvariant == Spec => []LinkInv
BY LinkInit, LinkInductive, PTL DEF Spec

\* Every variable keeps its type.
THEOREM LinkTypeCorrect == Spec => []TypeOK
<1>1. LinkInv => TypeOK
  BY DEF LinkInv
<1>2. QED
  BY <1>1, LinkInvariant, PTL

\* Commands are never routed to a connection whose handler has ended, whatever
\* device ids the peers claim.
THEOREM HandlesAlwaysLive == Spec => []HandlesAreLive
<1>1. LinkInv => HandlesAreLive
  BY DEF LinkInv
<1>2. QED
  BY <1>1, LinkInvariant, PTL

\* No teardown and no refused message hides a device that is connected.
THEOREM LiveDevicesAlwaysListed == Spec => []LiveDeviceListed
<1>1. LinkInv => LiveDeviceListed
  BY DEF LinkInv
<1>2. QED
  BY <1>1, LinkInvariant, PTL

\* Clients are shown the session manager's current view of a device.
THEOREM RegistryAlwaysCurrent == Spec => []RegistryIsCurrent
<1>1. LinkInv => RegistryIsCurrent
  BY DEF LinkInv
<1>2. QED
  BY <1>1, LinkInvariant, PTL

\* The table of waiters holds no entry of a caller that has returned, also when
\* request ids repeat.
THEOREM PendingNeverLeaks == Spec => []PendingHasWaiter
<1>1. LinkInv => PendingHasWaiter
  BY DEF LinkInv
<1>2. QED
  BY <1>1, LinkInvariant, PTL

\* A teardown leaves a device that reconnected over another connection alone.
THEOREM OtherSessionsAlwaysKept == Spec => OtherSessionsKept
<1> DEFINE Kept ==
      \A c \in Conns : conn'[c] # conn[c] /\ conn'[c] \in {"draining", "closed"} =>
        \A d \in Devices : sessions[d] # c =>
          sessions'[d] = sessions[d] /\ registry'[d] = registry[d]
<1>1. LinkInv /\ [Next]_vars => [Kept]_vars
  <2> SUFFICES ASSUME LinkInv, [Next]_vars PROVE Kept
    OBVIOUS
  <2>1. CASE QuietStep
    BY <2>1 DEF QuietStep, LinkInv, TypeOK
  <2>2. ASSUME NEW c \in Conns, MessageStep(c) PROVE Kept
    BY <2>2 DEF MessageStep, LinkInv, TypeOK
  <2>3. ASSUME NEW c \in Conns, CloseStep(c) PROVE Kept
    <3>1. PICK ds \in SUBSET Devices :
            /\ Disconnect(c, ds)
            /\ conn' \in {[conn EXCEPT ![c] = "closed"], [conn EXCEPT ![c] = "draining"]}
      BY <2>3 DEF CloseStep
    <3>2. QED
      BY <3>1 DEF Disconnect, Owned, LinkInv, TypeOK
  <2>4. QED
    BY <2>1, <2>2, <2>3, StepKinds DEF LinkInv
<1>2. QED
  BY <1>1, LinkInvariant, PTL DEF Spec, OtherSessionsKept

\* The history agrees with the manager on which lists are non-empty.
HeardFits ==
  \A d \in Devices : /\ manager[d].caps => "capabilities" \in heard[d].full
                     /\ manager[d].perms => "permissions" \in heard[d].full

\* What a list message does to a device: it writes one of the two lists, and makes the
\* device ready when the other one, as announced before, is non-empty.
LEMMA ListAnnounced ==
  ASSUME LinkInv, HeardFits, NEW c \in Conns, NEW x \in Devices \cup {NoDevice},
         NEW ok \in BOOLEAN, NEW listed \in BOOLEAN,
         CapabilityList(c, x, ok, listed) \/ PermissionState(c, x, ok, listed),
         NEW d \in Devices
  PROVE  /\ manager'[d].caps => "capabilities" \in heard'[d].full
         /\ manager'[d].perms => "permissions" \in heard'[d].full
         /\ manager[d].state # "ready" /\ manager'[d].state = "ready" =>
              \E k \in heard[d].full : heard'[d].last \in ListKinds \ {k}
<1>1. /\ manager[d].caps => "capabilities" \in heard[d].full
      /\ manager[d].perms => "permissions" \in heard[d].full
  BY DEF HeardFits
<1>2. manager \in [Devices -> Entry \cup {Absent}] /\ heard \in [Devices -> Heard]
  BY DEF LinkInv, TypeOK
<1>3. CASE manager' = manager /\ heard' = heard
  BY <1>1, <1>3
<1>4. CASE x \in Devices /\ d # x
  <2>1. manager'[d] = manager[d] /\ heard'[d] = heard[d]
    BY <1>2, <1>4 DEF CapabilityList, PermissionState, Announce
  <2>2. QED
    BY <1>1, <2>1
<1>5. CASE x \in Devices /\ d = x /\ ~(manager' = manager /\ heard' = heard)
  <2>1. CASE CapabilityList(c, x, ok, listed)
    <3>1. /\ heard'[d] = [last |-> "capabilities",
                          full |-> IF listed THEN heard[d].full \cup {"capabilities"}
                                   ELSE heard[d].full \ {"capabilities"}]
          /\ manager'[d] = [state |-> IF manager[d].perms THEN "ready" ELSE manager[d].state,
                            caps |-> listed, perms |-> manager[d].perms]
      BY <1>2, <1>5, <2>1 DEF CapabilityList, Announce
    <3>2. QED
      BY <1>1, <3>1 DEF ListKinds
  <2>2. CASE PermissionState(c, x, ok, listed)
    <3>1. /\ heard'[d] = [last |-> "permissions",
                          full |-> IF listed THEN heard[d].full \cup {"permissions"}
                                   ELSE heard[d].full \ {"permissions"}]
          /\ manager'[d] = [state |-> IF manager[d].caps THEN "ready" ELSE manager[d].state,
                            caps |-> manager[d].caps, perms |-> listed]
      BY <1>2, <1>5, <2>2 DEF PermissionState, Announce
    <3>2. QED
      BY <1>1, <3>1 DEF ListKinds
  <2>3. QED
    BY <2>1, <2>2
<1>6. x \notin Devices => manager' = manager /\ heard' = heard
  BY DEF CapabilityList, PermissionState
<1>7. QED
  BY <1>3, <1>4, <1>5, <1>6

\* Hellos forget both lists; no other step changes what was announced.
LEMMA HelloForgets ==
  ASSUME LinkInv, HeardFits, NEW c \in Conns, NEW x \in Devices \cup {NoDevice},
         NEW p \in Devices, NEW ok \in BOOLEAN, Hello(c, x, p, ok), NEW d \in Devices
  PROVE  \/ manager'[d] = manager[d] /\ heard'[d] = heard[d]
         \/ /\ manager'[d] = [state |-> "handshaking", caps |-> FALSE, perms |-> FALSE]
            /\ heard'[d] = [last |-> "none", full |-> {}]
<1>1. manager \in [Devices -> Entry \cup {Absent}] /\ heard \in [Devices -> Heard]
  BY DEF LinkInv, TypeOK
<1>2. QED
  BY <1>1 DEF Hello

\* A device becomes ready by a list of one kind, sent after a non-empty list of the other
\* kind since its hello (handle_capability_list, handle_permission_state): repeating one
\* list never suffices, whatever the order, the peers and the reconnections.
THEOREM ReadyAlwaysTakesTwo == Spec => ReadyTakesTwoMessages
<1> DEFINE Second(d) ==
      manager[d].state # "ready" /\ manager'[d].state = "ready"
        => \E k \in heard[d].full : heard'[d].last \in ListKinds \ {k}
<1>1. Init => HeardFits
  BY DEF Init, HeardFits, Absent
<1>2. LinkInv /\ HeardFits /\ [Next]_vars => HeardFits' /\ \A d \in Devices : Second(d)
  <2> SUFFICES ASSUME LinkInv, HeardFits, [Next]_vars, NEW d \in Devices
               PROVE  /\ manager'[d].caps => "capabilities" \in heard'[d].full
                      /\ manager'[d].perms => "permissions" \in heard'[d].full
                      /\ Second(d)
    BY DEF HeardFits
  <2>1. CASE manager' = manager /\ heard' = heard
    BY <2>1 DEF HeardFits
  <2>2. ASSUME NEW c \in Conns, NEW x \in Claims[c], NEW p \in Claims[c] \cap Devices,
               NEW ok \in BOOLEAN, Hello(c, x, p, ok)
        PROVE  /\ manager'[d].caps => "capabilities" \in heard'[d].full
               /\ manager'[d].perms => "permissions" \in heard'[d].full
               /\ Second(d)
    <3>1. x \in Devices \cup {NoDevice}
      BY LinkAssumption
    <3>2. \/ manager'[d] = manager[d] /\ heard'[d] = heard[d]
          \/ /\ manager'[d] = [state |-> "handshaking", caps |-> FALSE, perms |-> FALSE]
             /\ heard'[d] = [last |-> "none", full |-> {}]
      BY <2>2, <3>1, HelloForgets
    <3>3. QED
      BY <3>2 DEF HeardFits
  <2>3. ASSUME NEW c \in Conns, NEW x \in Claims[c], NEW ok \in BOOLEAN, NEW listed \in Lists,
               CapabilityList(c, x, ok, listed) \/ PermissionState(c, x, ok, listed)
        PROVE  /\ manager'[d].caps => "capabilities" \in heard'[d].full
               /\ manager'[d].perms => "permissions" \in heard'[d].full
               /\ Second(d)
    <3>1. x \in Devices \cup {NoDevice} /\ listed \in BOOLEAN
      BY LinkAssumption
    <3>2. QED
      BY <2>3, <3>1, ListAnnounced
  <2>4. CASE \E c \in Conns : ConnStep(c)
    <3>1. PICK c \in Conns : ConnStep(c)
      BY <2>4
    <3>2. CASE \/ Open(c) \/ FrameError(c) \/ WriterDone(c) \/ WriterFails(c)
               \/ Teardown(c) \/ StreamClosed(c) \/ Drained(c)
               \/ \E id \in RequestIds, a \in Calls \cup {Stray} : Response(c, id, a)
               \/ \E x \in Claims[c] : Heartbeat(c, x) \/ OtherEnvelope(c, x)
      BY <2>1, <3>2 DEF Open, FrameError, WriterDone, WriterFails, Teardown, StreamClosed,
         Drained, Response, Heartbeat, OtherEnvelope
    <3>3. QED
      BY <2>2, <2>3, <3>1, <3>2 DEF ConnStep
  <2>5. CASE \E k \in Calls : CallStep(k)
    BY <2>1, <2>5 DEF CallStep, Check, Route, Insert, Send, SendFails, Receive, Expire, GiveUp
  <2>6. CASE UNCHANGED vars
    BY <2>1, <2>6 DEF vars
  <2>7. QED
    BY <2>4, <2>5, <2>6 DEF Next
<1>3. LinkInv /\ HeardFits /\ [Next]_vars => [\A d \in Devices : Second(d)]_vars
  BY <1>2
<1>4. QED
  BY <1>1, <1>2, <1>3, LinkInvariant, PTL DEF Spec, ReadyTakesTwoMessages

-----------------------------------------------------------------------------
(* Answers reach the callers that wait for them.                            *)

\* A step that changes neither `pending` nor a call cannot lose an answer.
LEMMA AnswersUntouched ==
  ASSUME NoAnswerLost, UNCHANGED <<pending, calls>>
  PROVE  NoAnswerLost'
BY DEF NoAnswerLost

\* A response goes to a call of its own request id, and leaves the waiters of all
\* other request ids in the map.
LEMMA ResponseKeepsAnswers ==
  ASSUME LinkInv, NoAnswerLost, NEW c \in Conns, NEW id \in RequestIds,
         NEW a \in Calls \cup {Stray}, Response(c, id, a)
  PROVE  NoAnswerLost'
<1> DEFINE waiter == pending[id]
<1>1. /\ waiter \in Calls \cup {NoCall} /\ NoCall \notin Calls /\ Stray # NoCall
      /\ \A j \in Calls : IdOf[j] \in RequestIds
  BY LinkAssumption DEF LinkInv, TypeOK
<1>2. waiter # NoCall => /\ IdOf[waiter] = id
                         /\ calls[waiter].phase \in Registered
  BY <1>1 DEF LinkInv, PendingHasWaiter, Registered
<1>3. a # Stray => a \in Calls /\ IdOf[a] = id
  BY DEF Response
<1>4. /\ pending' = [pending EXCEPT ![id] = NoCall]
      /\ calls' = IF waiter = NoCall THEN calls
                  ELSE [calls EXCEPT ![waiter].answer = a]
  BY DEF Response
<1>5. \A k \in Calls : /\ calls'[k].phase = calls[k].phase
                       /\ k # waiter => calls'[k].answer = calls[k].answer
                       /\ k = waiter => calls'[k].answer = a
  BY <1>1, <1>4 DEF LinkInv, TypeOK, Call
<1>6. \A i \in RequestIds : i # id => pending'[i] = pending[i]
  BY <1>4 DEF LinkInv, TypeOK
<1> HIDE DEF waiter
<1> SUFFICES ASSUME NEW k \in Calls
             PROVE  /\ calls'[k].answer \in {NoCall, Stray} \cup {j \in Calls : IdOf[j] = IdOf[k]}
                    /\ calls'[k].phase \in {"inserted", "waiting"} /\ calls'[k].answer = NoCall
                         => \/ pending'[IdOf[k]] = k
                            \/ \E j \in Calls \ {k} : IdOf[j] = IdOf[k] /\ calls'[j].phase \in Registered
  BY DEF NoAnswerLost
<1>7. /\ calls[k].answer \in {NoCall, Stray} \cup {j \in Calls : IdOf[j] = IdOf[k]}
      /\ calls[k].phase \in {"inserted", "waiting"} /\ calls[k].answer = NoCall
           => \/ pending[IdOf[k]] = k
              \/ \E j \in Calls \ {k} : IdOf[j] = IdOf[k] /\ calls[j].phase \in Registered
  BY DEF NoAnswerLost
<1>8. CASE k = waiter
  <2>1. calls'[k].answer = a /\ a # NoCall /\ IdOf[k] = id
    BY <1>1, <1>2, <1>3, <1>5, <1>8
  <2>2. QED
    BY <1>3, <2>1
<1>9. CASE k # waiter
  <2>1. calls'[k].answer = calls[k].answer /\ calls'[k].phase = calls[k].phase
    BY <1>5, <1>9
  <2>2. CASE IdOf[k] # id
    BY <1>1, <1>5, <1>6, <1>7, <2>1, <2>2
  <2>3. CASE IdOf[k] = id
    <3>1. pending[IdOf[k]] # k
      BY <1>9, <2>3 DEF waiter
    <3>2. QED
      BY <1>5, <1>7, <2>1, <3>1
  <2>4. QED
    BY <2>2, <2>3
<1>10. QED
  BY <1>8, <1>9

\* A caller changes its own record only, and never its answer slot.
LEMMA CallFrame ==
  ASSUME TypeOK, NEW k \in Calls, CallStep(k)
  PROVE  /\ \A j \in Calls \ {k} : calls'[j] = calls[j]
         /\ \A j \in Calls : calls'[j].answer = calls[j].answer
<1>1. ASSUME NEW d \in Devices, Check(k, d)
      PROVE  /\ \A j \in Calls \ {k} : calls'[j] = calls[j]
             /\ calls'[k].answer = calls[k].answer
  BY <1>1 DEF Check, TypeOK, Call
<1>2. CASE Route(k)
  BY <1>2 DEF Route, TypeOK, Call
<1>3. CASE Insert(k) \/ Send(k) \/ SendFails(k) \/ Receive(k) \/ Expire(k) \/ GiveUp(k)
  BY <1>3 DEF Insert, Send, SendFails, Receive, Expire, GiveUp, Move, TypeOK, Call
<1>4. QED
  BY <1>1, <1>2, <1>3 DEF CallStep

\* A caller goes from one phase to the next; only Send hands a command over.
Goes(k, from, to) == calls[k].phase = from /\ calls'[k].phase = to

CallEffect(k) ==
  \/ UNCHANGED <<pending, inbox>> /\ \/ \E p \in {"checked", "notConnected", "noCapability"} : Goes(k, "new", p)
                                     \/ \E p \in {"routed", "noSession"} : Goes(k, "checked", p)
                                     \/ Goes(k, "waiting", "answered") /\ calls[k].answer # NoCall
                                     \/ Goes(k, "waiting", "expired")
  \/ /\ Goes(k, "routed", "inserted")
     /\ pending' = [pending EXCEPT ![IdOf[k]] = k]
     /\ UNCHANGED inbox
  \/ /\ Goes(k, "inserted", "waiting")
     /\ inbox' \in {inbox, inbox \cup {[conn |-> calls[k].route, call |-> k]}}
     /\ UNCHANGED pending
  \/ /\ Goes(k, "inserted", "sendFailed") \/ Goes(k, "expired", "timeout")
     /\ Forget(k)
     /\ UNCHANGED inbox

\* Each step of a caller has one of these effects.
LEMMA CallEffects ==
  ASSUME TypeOK, NEW k \in Calls, CallStep(k)
  PROVE  CallEffect(k)
<1>1. calls \in [Calls -> Call]
  BY DEF TypeOK
<1>2. ASSUME NEW d \in Devices, Check(k, d) PROVE CallEffect(k)
  <2> DEFINE new == IF registry[d] = Absent THEN "notConnected"
                    ELSE IF ~registry[d].caps THEN "noCapability" ELSE "checked"
  <2>1. calls' = [calls EXCEPT ![k] = [@ EXCEPT !.device = d, !.phase = new]]
    BY <1>2 DEF Check
  <2>2. new \in {"checked", "notConnected", "noCapability"}
    OBVIOUS
  <2> HIDE DEF new
  <2>3. Goes(k, "new", new)
    <3>1. calls[k].phase = "new"
      BY <1>2 DEF Check
    <3>2. calls'[k].phase = new
      BY <1>1, <2>1 DEF Call
    <3>3. QED
      BY <3>1, <3>2 DEF Goes
  <2>4. QED
    BY <1>2, <2>2, <2>3 DEF Check, CallEffect
<1>3. CASE Route(k)
  <2> DEFINE c == sessions[calls[k].device]
             new == IF c = NoConn THEN "noSession" ELSE "routed"
  <2>1. calls' = [calls EXCEPT ![k] = [@ EXCEPT !.route = c, !.phase = new]]
    BY <1>3 DEF Route
  <2>2. new \in {"routed", "noSession"}
    OBVIOUS
  <2> HIDE DEF new, c
  <2>3. Goes(k, "checked", new)
    <3>1. calls[k].phase = "checked"
      BY <1>3 DEF Route
    <3>2. calls'[k].phase = new
      BY <1>1, <2>1 DEF Call
    <3>3. QED
      BY <3>1, <3>2 DEF Goes
  <2>4. QED
    BY <1>3, <2>2, <2>3 DEF Route, CallEffect
<1>4. ASSUME NEW p, NEW q, Move(k, p, q) PROVE Goes(k, p, q)
  BY <1>1, <1>4 DEF Move, Goes, Call
<1>5. CASE Insert(k) \/ Receive(k) \/ Expire(k)
  BY <1>4, <1>5 DEF Insert, Receive, Expire, CallEffect
<1>6. CASE Send(k) \/ SendFails(k) \/ GiveUp(k)
  BY <1>4, <1>6 DEF Send, SendFails, GiveUp, CallEffect
<1>7. QED
  BY <1>2, <1>3, <1>5, <1>6 DEF CallStep

\* A caller touches the waiter of its own request id only.
LEMMA CallKeepsAnswers ==
  ASSUME LinkInv, NoAnswerLost, NEW k \in Calls, CallStep(k)
  PROVE  NoAnswerLost'
<1>1. /\ TypeOK /\ CallEffect(k)
      /\ \A j \in Calls \ {k} : calls'[j] = calls[j]
      /\ \A j \in Calls : calls'[j].answer = calls[j].answer
      /\ \A j \in Calls : IdOf[j] \in RequestIds
      /\ pending \in [RequestIds -> Calls \cup {NoCall}]
  BY CallEffects, CallFrame, LinkAssumption DEF LinkInv, TypeOK
<1>2. \A j \in Calls : calls[j].phase \in Registered => calls'[j].phase \in Registered
  BY <1>1 DEF CallEffect, Goes, Registered
<1>3. \/ pending' = pending
      \/ pending' = [pending EXCEPT ![IdOf[k]] = k] /\ calls'[k].phase \in Registered
      \/ /\ pending' = [pending EXCEPT ![IdOf[k]] = NoCall]
         /\ calls'[k].phase \in Registered \ {"inserted", "waiting"}
  BY <1>1 DEF CallEffect, Goes, Forget, Registered
<1>4. calls'[k].phase \in {"inserted", "waiting"} =>
        \/ pending'[IdOf[k]] = k
        \/ pending' = pending /\ calls[k].phase \in {"inserted", "waiting"}
  BY <1>1 DEF CallEffect, Goes
<1> SUFFICES ASSUME NEW j \in Calls
             PROVE  /\ calls'[j].answer \in {NoCall, Stray} \cup {i \in Calls : IdOf[i] = IdOf[j]}
                    /\ calls'[j].phase \in {"inserted", "waiting"} /\ calls'[j].answer = NoCall
                         => \/ pending'[IdOf[j]] = j
                            \/ \E i \in Calls \ {j} : IdOf[i] = IdOf[j] /\ calls'[i].phase \in Registered
  BY DEF NoAnswerLost
<1>5. /\ calls[j].answer \in {NoCall, Stray} \cup {i \in Calls : IdOf[i] = IdOf[j]}
      /\ calls[j].phase \in {"inserted", "waiting"} /\ calls[j].answer = NoCall
           => \/ pending[IdOf[j]] = j
              \/ \E i \in Calls \ {j} : IdOf[i] = IdOf[j] /\ calls[i].phase \in Registered
  BY DEF NoAnswerLost
<1>6. CASE j = k
  BY <1>1, <1>2, <1>4, <1>5, <1>6
<1>7. CASE j # k
  <2>1. calls'[j] = calls[j]
    BY <1>1, <1>7
  <2>2. CASE pending'[IdOf[j]] = pending[IdOf[j]]
    BY <1>2, <1>5, <2>1, <2>2
  <2>3. CASE pending'[IdOf[j]] # pending[IdOf[j]]
    <3>1. IdOf[k] = IdOf[j] /\ calls'[k].phase \in Registered
      BY <1>1, <1>3, <2>3
    <3>2. QED
      BY <1>5, <1>7, <2>1, <3>1
  <2>4. QED
    BY <2>2, <2>3
<1>8. QED
  BY <1>6, <1>7

\* While a call waits without an answer its waiter is in the map, unless another
\* call under its request id took it away; what it is given is a response under its
\* own request id (send_command_envelope, accept_envelope), whatever the peers send.
THEOREM AnswersNeverLost == Spec => []NoAnswerLost
<1>1. Init => NoAnswerLost
  BY DEF Init, NoAnswerLost
<1>2. LinkInv /\ NoAnswerLost /\ [Next]_vars => NoAnswerLost'
  <2> SUFFICES ASSUME LinkInv, NoAnswerLost, [Next]_vars PROVE NoAnswerLost'
    OBVIOUS
  <2>1. ASSUME NEW c \in Conns, ConnStep(c) PROVE NoAnswerLost'
    <3>1. CASE \E id \in RequestIds, a \in Calls \cup {Stray} : Response(c, id, a)
      BY <3>1, ResponseKeepsAnswers
    <3>2. CASE \/ Open(c) \/ FrameError(c) \/ WriterDone(c) \/ WriterFails(c)
               \/ Teardown(c) \/ StreamClosed(c) \/ Drained(c)
      <4>1. UNCHANGED <<pending, calls>>
        BY <3>2 DEF Open, FrameError, Teardown, StreamClosed, WriterDone, WriterFails,
           Drained
      <4>2. QED
        BY <4>1, AnswersUntouched
    <3>3. ASSUME NEW d \in Claims[c],
                 \/ \E p \in Claims[c] \cap Devices, ok \in BOOLEAN : Hello(c, d, p, ok)
                 \/ \E ok \in BOOLEAN, listed \in Lists :
                      \/ CapabilityList(c, d, ok, listed)
                      \/ PermissionState(c, d, ok, listed)
                 \/ Heartbeat(c, d) \/ OtherEnvelope(c, d)
          PROVE  NoAnswerLost'
      <4>1. UNCHANGED <<pending, calls>>
        BY <3>3 DEF Hello, CapabilityList, PermissionState, Heartbeat, OtherEnvelope
      <4>2. QED
        BY <4>1, AnswersUntouched
    <3>4. QED
      BY <2>1, <3>1, <3>2, <3>3 DEF ConnStep
  <2>2. ASSUME NEW k \in Calls, CallStep(k) PROVE NoAnswerLost'
    BY <2>2, CallKeepsAnswers
  <2>3. CASE UNCHANGED vars
    BY <2>3, AnswersUntouched DEF vars
  <2>4. QED
    BY <2>1, <2>2, <2>3 DEF Next
<1>3. QED
  BY <1>1, <1>2, LinkInvariant, PTL DEF Spec
-----------------------------------------------------------------------------
(* The promise of device.invoke                                             *)

SentPhase == {"waiting", "expired", "answered", "timeout"}

\* No other call carries the request id of k.
Alone(k) == \A j \in Calls : IdOf[j] = IdOf[k] => j = k

(* The phone has at most one request of a call, of one that was sent and of *)
(* which nobody has the answer.                                             *)
InboxInv ==
  /\ \A r, s \in inbox : r.call = s.call => r = s
  /\ \A r \in inbox : /\ calls[r.call].phase \in SentPhase
                      /\ \A j \in Calls : calls[j].answer # r.call

(* An answer is of a call that was sent under the same id, and given once.  *)
AnswersInv ==
  \A j \in Calls : calls[j].answer \in Calls =>
    /\ IdOf[calls[j].answer] = IdOf[j]
    /\ calls[calls[j].answer].phase \in SentPhase
    /\ \A i \in Calls : calls[i].answer = calls[j].answer => i = j

(* The waiter of a call that has its id to itself stays until it is served  *)
(* or given up.                                                             *)
WaitersInv ==
  \A k \in Calls :
    Alone(k) /\ calls[k].phase \in {"inserted", "waiting", "expired"} /\ calls[k].answer = NoCall
      => pending[IdOf[k]] = k

CommandInv == InboxInv /\ AnswersInv /\ WaitersInv

\* A command that was sent stays sent, and the requests at the phone stay single.
LEMMA CallKeepsCommands ==
  ASSUME LinkInv, CommandInv, NEW k \in Calls, CallStep(k)
  PROVE  CommandInv'
<1>1. /\ TypeOK /\ CallEffect(k)
      /\ \A j \in Calls \ {k} : calls'[j] = calls[j]
      /\ \A j \in Calls : calls'[j].answer = calls[j].answer
  BY CallEffects, CallFrame DEF LinkInv
<1>2. \A j \in Calls : calls[j].phase \in SentPhase => calls'[j].phase \in SentPhase
  BY <1>1 DEF CallEffect, Goes, SentPhase
<1>3. \A r \in inbox : r.call \in Calls
  BY <1>1 DEF TypeOK, Request
<1>4. \A j \in Calls : calls[j].answer \in Calls \cup {NoCall, Stray}
  BY <1>1 DEF TypeOK, Call
<1>5. AnswersInv'
  BY <1>1, <1>2, <1>4 DEF CommandInv, AnswersInv
<1>6. InboxInv'
  <2>1. CASE inbox' = inbox
    BY <1>1, <1>2, <1>3, <2>1 DEF CommandInv, InboxInv
  <2>2. CASE /\ Goes(k, "inserted", "waiting")
             /\ inbox' = inbox \cup {[conn |-> calls[k].route, call |-> k]}
    <3>1. \A r \in inbox : r.call # k
      BY <1>3, <2>2 DEF CommandInv, InboxInv, Goes, SentPhase
    <3>2. \A j \in Calls : calls[j].answer # k
      <4>1. k # NoCall
        BY LinkAssumption
      <4>2. QED
        BY <2>2, <4>1 DEF CommandInv, AnswersInv, Goes, SentPhase
    <3>3. calls'[k].phase \in SentPhase
      BY <2>2 DEF Goes, SentPhase
    <3>4. \A r, s \in inbox' : r.call = s.call => r = s
      BY <2>2, <3>1 DEF CommandInv, InboxInv
    <3>5. \A r \in inbox' : /\ calls'[r.call].phase \in SentPhase
                            /\ \A j \in Calls : calls'[j].answer # r.call
      BY <1>1, <1>2, <1>3, <2>2, <3>2, <3>3 DEF CommandInv, InboxInv
    <3>6. QED
      BY <3>4, <3>5 DEF InboxInv
  <2>3. QED
    BY <1>1, <2>1, <2>2 DEF CallEffect
<1>7. WaitersInv'
  <2> SUFFICES ASSUME NEW j \in Calls, Alone(j), calls'[j].answer = NoCall,
                      calls'[j].phase \in {"inserted", "waiting", "expired"}
               PROVE  pending'[IdOf[j]] = j
    BY DEF WaitersInv, Alone
  <2>1. IdOf[j] \in RequestIds /\ IdOf[k] \in RequestIds /\ pending \in [RequestIds -> Calls \cup {NoCall}]
    BY <1>1, LinkAssumption DEF TypeOK
  <2>2. calls[j].answer = NoCall
    BY <1>1
  <2>3. CASE j # k
    <3>1. calls[j].phase \in {"inserted", "waiting", "expired"} /\ IdOf[j] # IdOf[k]
      BY <1>1, <2>3 DEF Alone
    <3>2. pending[IdOf[j]] = j
      BY <2>2, <3>1 DEF CommandInv, WaitersInv
    <3>3. pending'[IdOf[j]] = pending[IdOf[j]]
      BY <1>1, <2>1, <3>1 DEF CallEffect, Forget
    <3>4. QED
      BY <3>2, <3>3
  <2>4. CASE j = k
    <3>1. CASE Goes(k, "routed", "inserted") /\ pending' = [pending EXCEPT ![IdOf[k]] = k]
      BY <2>1, <2>4, <3>1
    <3>2. CASE pending' = pending /\ calls[k].phase \in {"inserted", "waiting"}
      BY <2>2, <2>4, <3>2 DEF CommandInv, WaitersInv
    <3>3. QED
      BY <1>1, <2>4, <3>1, <3>2 DEF CallEffect, Goes
  <2>5. QED
    BY <2>3, <2>4
<1>8. QED
  BY <1>5, <1>6, <1>7 DEF CommandInv

\* What a response does: it is the answer of a request the peer had, or stray, and a
\* waiter it finds is one of its own request id that still waits and has no answer.
LEMMA ResponseEffect ==
  ASSUME LinkInv, NEW c \in Conns, NEW id \in RequestIds,
         NEW a \in Calls \cup {Stray}, Response(c, id, a)
  PROVE  LET waiter == pending[id]
         IN  /\ \/ \E r \in inbox : r.call = a /\ IdOf[a] = id /\ inbox' = inbox \ {r}
                \/ a = Stray /\ inbox' = inbox
             /\ pending' = [pending EXCEPT ![id] = NoCall]
             /\ \A j \in Calls : calls'[j].phase = calls[j].phase
             /\ \A j \in Calls \ {waiter} : calls'[j] = calls[j]
             /\ waiter \in Calls =>
                  /\ IdOf[waiter] = id
                  /\ calls[waiter].phase \in {"inserted", "waiting", "expired"}
                  /\ calls[waiter].answer = NoCall
                  /\ calls'[waiter].answer = a
             /\ waiter \notin Calls => waiter = NoCall /\ calls' = calls
<1> DEFINE waiter == pending[id]
<1>1. TypeOK /\ waiter \in Calls \cup {NoCall} /\ NoCall \notin Calls
  BY LinkAssumption DEF LinkInv, TypeOK
<1>2. /\ \/ \E r \in inbox : r.call = a /\ IdOf[a] = id /\ inbox' = inbox \ {r}
         \/ a = Stray /\ inbox' = inbox
      /\ pending' = [pending EXCEPT ![id] = NoCall]
      /\ calls' = IF waiter = NoCall THEN calls
                  ELSE [calls EXCEPT ![waiter].answer = a]
  BY DEF Response
<1>3. waiter \in Calls =>
        /\ IdOf[waiter] = id
        /\ calls[waiter].phase \in {"inserted", "waiting", "expired"}
  BY <1>1 DEF LinkInv, PendingHasWaiter
<1>4. waiter \in Calls => calls[waiter].answer = NoCall
  BY <1>1, <1>3 DEF LinkInv, CallsFit
<1>5. /\ \A j \in Calls : calls'[j].phase = calls[j].phase
      /\ \A j \in Calls \ {waiter} : calls'[j] = calls[j]
      /\ waiter \in Calls => calls'[waiter].answer = a
  BY <1>1, <1>2 DEF TypeOK, Call
<1>6. QED
  BY <1>1, <1>2, <1>3, <1>4, <1>5

\* An answer is taken from the phone and given to its waiter at the same moment.
LEMMA ResponseKeepsCommands ==
  ASSUME LinkInv, CommandInv, NEW c \in Conns, NEW id \in RequestIds,
         NEW a \in Calls \cup {Stray}, Response(c, id, a)
  PROVE  CommandInv'
<1> DEFINE waiter == pending[id]
<1>1. /\ \/ \E r \in inbox : r.call = a /\ IdOf[a] = id /\ inbox' = inbox \ {r}
         \/ a = Stray /\ inbox' = inbox
      /\ pending' = [pending EXCEPT ![id] = NoCall]
      /\ \A j \in Calls : calls'[j].phase = calls[j].phase
      /\ \A j \in Calls \ {waiter} : calls'[j] = calls[j]
      /\ waiter \in Calls =>
           /\ IdOf[waiter] = id
           /\ calls[waiter].answer = NoCall
           /\ calls'[waiter].answer = a
      /\ waiter \notin Calls => waiter = NoCall /\ calls' = calls
  BY ResponseEffect
<1>2. /\ TypeOK /\ NoCall \notin Calls /\ Stray \notin Calls /\ Stray # NoCall
      /\ \A j \in Calls : IdOf[j] \in RequestIds
      /\ \A s \in inbox : s.call \in Calls
  BY LinkAssumption DEF LinkInv, TypeOK, Request
<1> HIDE DEF waiter
<1>3. InboxInv /\ AnswersInv
  BY DEF CommandInv
<1>4. a \in Calls => /\ IdOf[a] = id /\ calls[a].phase \in SentPhase
                    /\ \A j \in Calls : calls[j].answer # a
  BY <1>1, <1>2, <1>3 DEF InboxInv
<1>5. \A s \in inbox' : s \in inbox /\ s.call # a
  BY <1>1, <1>2, <1>3 DEF InboxInv
<1>6. \A j \in Calls : calls'[j].answer = calls[j].answer \/ (j = waiter /\ calls'[j].answer = a)
  BY <1>1
<1>7. InboxInv'
  BY <1>1, <1>2, <1>3, <1>5, <1>6 DEF InboxInv
<1>8. AnswersInv'
  <2> SUFFICES ASSUME NEW j \in Calls, calls'[j].answer \in Calls
               PROVE  /\ IdOf[calls'[j].answer] = IdOf[j]
                      /\ calls'[calls'[j].answer].phase \in SentPhase
                      /\ \A i \in Calls : calls'[i].answer = calls'[j].answer => i = j
    BY DEF AnswersInv
  <2>1. CASE j = waiter /\ calls'[j].answer = a
    BY <1>1, <1>4, <1>6, <2>1
  <2>2. CASE calls'[j].answer = calls[j].answer
    <3>1. /\ calls[j].answer \in Calls /\ calls[j].answer # a
          /\ IdOf[calls[j].answer] = IdOf[j]
          /\ calls[calls[j].answer].phase \in SentPhase
          /\ \A i \in Calls : calls[i].answer = calls[j].answer => i = j
      BY <1>2, <1>3, <1>4, <2>2 DEF AnswersInv
    <3>2. QED
      BY <1>1, <1>6, <2>2, <3>1
  <2>3. QED
    BY <1>6, <2>1, <2>2
<1>9. WaitersInv'
  <2> SUFFICES ASSUME NEW k \in Calls, Alone(k), calls'[k].answer = NoCall,
                      calls'[k].phase \in {"inserted", "waiting", "expired"}
               PROVE  pending'[IdOf[k]] = k
    BY DEF WaitersInv, Alone
  <2>1. a # NoCall
    BY <1>2
  <2>2. calls[k].answer = NoCall /\ k # waiter /\ calls[k].phase \in {"inserted", "waiting", "expired"}
    BY <1>1, <1>6, <2>1
  <2>3. pending[IdOf[k]] = k
    BY <2>2 DEF CommandInv, WaitersInv
  <2>4. IdOf[k] # id
    BY <2>2, <2>3 DEF waiter
  <2>5. QED
    BY <1>1, <1>2, <2>3, <2>4 DEF TypeOK
<1>10. QED
  BY <1>7, <1>8, <1>9 DEF CommandInv

\* All other steps of a connection leave the commands alone.
LEMMA OtherConnSteps ==
  ASSUME NEW c \in Conns, ConnStep(c), ~ \E id \in RequestIds, a \in Calls \cup {Stray} : Response(c, id, a)
  PROVE  UNCHANGED <<pending, calls, inbox>>
<1>1. CASE \/ Open(c) \/ FrameError(c) \/ WriterDone(c) \/ WriterFails(c)
           \/ Teardown(c) \/ StreamClosed(c) \/ Drained(c)
  BY <1>1 DEF Open, FrameError, Teardown, StreamClosed, WriterDone, WriterFails, Drained
<1>2. ASSUME NEW d \in Claims[c],
             \/ \E p \in Claims[c] \cap Devices, ok \in BOOLEAN : Hello(c, d, p, ok)
             \/ \E ok \in BOOLEAN, listed \in Lists :
                  CapabilityList(c, d, ok, listed) \/ PermissionState(c, d, ok, listed)
             \/ Heartbeat(c, d) \/ OtherEnvelope(c, d)
      PROVE  UNCHANGED <<pending, calls, inbox>>
  BY <1>2 DEF Hello, CapabilityList, PermissionState, Heartbeat, OtherEnvelope
<1>3. QED
  BY <1>1, <1>2 DEF ConnStep

\* What the phone has, what the callers have and what is pending always fit.
LEMMA CommandsAlways == Spec => [](LinkInv /\ CommandInv)
<1>1. Init => CommandInv
  BY LinkAssumption DEF Init, CommandInv, InboxInv, AnswersInv, WaitersInv
<1>2. LinkInv /\ CommandInv /\ [Next]_vars => CommandInv'
  <2> SUFFICES ASSUME LinkInv, CommandInv, [Next]_vars PROVE CommandInv'
    OBVIOUS
  <2>1. CASE UNCHANGED <<pending, calls, inbox>>
    BY <2>1 DEF CommandInv, InboxInv, AnswersInv, WaitersInv, Alone
  <2>2. ASSUME NEW c \in Conns, ConnStep(c) PROVE CommandInv'
    BY <2>1, <2>2, OtherConnSteps, ResponseKeepsCommands
  <2>3. ASSUME NEW k \in Calls, CallStep(k) PROVE CommandInv'
    BY <2>3, CallKeepsCommands
  <2>4. QED
    BY <2>1, <2>2, <2>3 DEF Next, vars
<1>3. QED
  BY <1>1, <1>2, LinkInvariant, PTL DEF Spec

\* A command that is with the phone, or that somebody has the answer of, was sent and not
\* refused; no answer is given twice, nor to a call of another request id
\* (send_command_envelope, accept_envelope), also when clients repeat request ids.
THEOREM OnceAndOnlyWhenSent == Spec => []Promise!OnceAndOnlySent
<1>1. LinkInv /\ CommandInv => Promise!OnceAndOnlySent
  <2> SUFFICES ASSUME LinkInv, CommandInv PROVE Promise!OnceAndOnlySent
    OBVIOUS
  <2>1. \A k \in Calls : calls[k].phase \in SentPhase =>
          Outcome[calls[k].phase] \in {"sent", "answered", "unknown"}
    BY DEF Outcome, SentPhase, CallPhase
  <2>2. /\ \A r \in inbox : r.call \in Calls
        /\ \A j \in Calls : calls[j].answer \in Calls \cup {NoCall, Stray}
    BY DEF LinkInv, TypeOK, Request, Call
  <2>3. QED
    BY <2>1, <2>2 DEF CommandInv, InboxInv, AnswersInv, Promise!OnceAndOnlySent
<1>2. QED
  BY <1>1, CommandsAlways, PTL

\* A step of a caller is the same step of the promise, or none.
LEMMA CallIsPromised ==
  ASSUME LinkInv, NEW k \in Calls, CallStep(k)
  PROVE  [Promise!Next]_(Promise!vars)
<1> DEFINE state == [j \in Calls |-> Outcome[calls[j].phase]]
           asked == {r.call : r \in inbox}
           got == [j \in Calls |-> calls[j].answer]
           to == calls'[k].phase
<1>1. /\ TypeOK /\ CallEffect(k)
      /\ \A j \in Calls \ {k} : calls'[j] = calls[j]
      /\ \A j \in Calls : calls'[j].answer = calls[j].answer
  BY CallEffects, CallFrame DEF LinkInv
<1>2. got' = got /\ state' = [state EXCEPT ![k] = Outcome[to]] /\ state[k] = Outcome[calls[k].phase]
  BY <1>1
<1>3. /\ Outcome["new"] = "new" /\ Outcome["answered"] = "answered" /\ Outcome["timeout"] = "unknown"
      /\ \A p \in {"checked", "routed", "inserted"} : Outcome[p] = "open"
      /\ \A p \in {"waiting", "expired"} : Outcome[p] = "sent"
      /\ \A p \in {"sendFailed", "notConnected", "noCapability", "noSession"} : Outcome[p] = "refused"
  BY DEF Outcome, CallPhase
<1>4. inbox' = inbox => asked' = asked
  OBVIOUS
<1>5. got[k] = calls[k].answer
  OBVIOUS
<1> HIDE DEF state, got
<1>6. CASE asked' = asked /\ Outcome[to] = state[k]
  <2>1. state' = state
    BY <1>2, <1>6 DEF state
  <2>2. QED
    BY <1>2, <1>6, <2>1 DEF Promise!vars, state, got
<1>7. CASE asked' = asked /\ state[k] = "new" /\ Outcome[to] = "open"
  <2>1. Promise!Begin(k)
    BY <1>2, <1>7 DEF Promise!Begin, Promise!Becomes, state, got
  <2>2. QED
    BY <2>1 DEF Promise!Next
<1>8. CASE asked' = asked /\ state[k] \in {"new", "open"} /\ Outcome[to] = "refused"
  <2>1. Promise!Refuse(k)
    BY <1>2, <1>8 DEF Promise!Refuse, Promise!Becomes, state, got
  <2>2. QED
    BY <2>1 DEF Promise!Next
<1>9. CASE asked' \in {asked, asked \cup {k}} /\ state[k] = "open" /\ Outcome[to] = "sent"
  <2>1. Promise!Deliver(k)
    BY <1>2, <1>9 DEF Promise!Deliver, Promise!Becomes, state, got
  <2>2. QED
    BY <2>1 DEF Promise!Next
<1>10. CASE /\ asked' = asked /\ state[k] = "sent"
            /\ Outcome[to] = "unknown" \/ (Outcome[to] = "answered" /\ got[k] # NoCall)
  <2>1. Promise!Return(k)
    BY <1>2, <1>10 DEF Promise!Return, Promise!Becomes, state, got
  <2>2. QED
    BY <2>1 DEF Promise!Next
<1>11. CASE Goes(k, "inserted", "waiting") /\
            inbox' \in {inbox, inbox \cup {[conn |-> calls[k].route, call |-> k]}}
  <2>1. asked' \in {asked, asked \cup {k}}
    BY <1>11
  <2>2. QED
    BY <1>2, <1>3, <1>9, <1>11, <2>1 DEF Goes
<1> HIDE DEF asked, to
<1>12. CASE UNCHANGED inbox /\ \E p, q \in CallPhase : Goes(k, p, q)
  <2>1. asked' = asked
    BY <1>4, <1>12
  <2>2. \A p, q \in CallPhase : Goes(k, p, q) => state[k] = Outcome[p] /\ to = q
    BY <1>2 DEF Goes, to
  <2>3. CASE \/ \E p \in {"checked", "notConnected", "noCapability"} : Goes(k, "new", p)
             \/ \E p \in {"routed", "noSession"} : Goes(k, "checked", p)
    BY <1>3, <1>6, <1>7, <1>8, <2>1, <2>2, <2>3 DEF CallPhase
  <2>4. CASE \/ Goes(k, "waiting", "answered") /\ calls[k].answer # NoCall
             \/ Goes(k, "waiting", "expired") \/ Goes(k, "expired", "timeout")
    BY <1>3, <1>5, <1>6, <1>10, <2>1, <2>2, <2>4 DEF CallPhase
  <2>5. CASE Goes(k, "routed", "inserted") \/ Goes(k, "inserted", "sendFailed")
    BY <1>3, <1>6, <1>8, <2>1, <2>2, <2>5 DEF CallPhase
  <2>6. CASE Goes(k, "inserted", "waiting")
    BY <1>11, <1>12, <2>6
  <2>7. QED
    BY <1>1, <2>3, <2>4, <2>5, <2>6 DEF CallEffect
<1>13. QED
  BY <1>1, <1>11, <1>12 DEF CallEffect, CallPhase

\* An answer is a reply of the promise: it reaches a caller that still waits, and is
\* dropped only when its own has given up or has a response already, or shares its id.
\* A stray response is given to the call that waits under the id, if one does.
LEMMA ResponseIsPromised ==
  ASSUME LinkInv, CommandInv, NEW c \in Conns, NEW id \in RequestIds,
         NEW a \in Calls \cup {Stray}, Response(c, id, a)
  PROVE  [Promise!Next]_(Promise!vars)
<1> DEFINE waiter == pending[id]
           state == [j \in Calls |-> Outcome[calls[j].phase]]
           asked == {s.call : s \in inbox}
           got == [j \in Calls |-> calls[j].answer]
<1>1. /\ \/ \E r \in inbox : r.call = a /\ IdOf[a] = id /\ inbox' = inbox \ {r}
         \/ a = Stray /\ inbox' = inbox
      /\ \A j \in Calls : calls'[j].phase = calls[j].phase
      /\ \A j \in Calls \ {waiter} : calls'[j] = calls[j]
      /\ waiter \in Calls =>
           /\ IdOf[waiter] = id
           /\ calls[waiter].phase \in {"inserted", "waiting", "expired"}
           /\ calls[waiter].answer = NoCall
           /\ calls'[waiter].answer = a
      /\ waiter \notin Calls => waiter = NoCall /\ calls' = calls
  BY ResponseEffect
<1>2. /\ InboxInv /\ AnswersInv /\ WaitersInv /\ NoCall \notin Calls /\ Stray \notin Calls
      /\ \A s \in inbox : s.call \in Calls
      /\ \A j \in Calls : calls[j].answer \in Calls \cup {NoCall, Stray}
  BY LinkAssumption DEF CommandInv, LinkInv, TypeOK, Call, Request
<1>3. state' = state
  BY <1>1
<1>4. waiter \in Calls => /\ got' = [got EXCEPT ![waiter] = a] /\ got[waiter] = NoCall
                         /\ state[waiter] \in {"open", "sent"}
  BY <1>1 DEF Outcome, CallPhase
<1>5. waiter \notin Calls => got' = got
  BY <1>1
<1>6. CASE a = Stray
  <2>1. asked' = asked
    BY <1>1, <1>2, <1>6
  <2> HIDE DEF state, got, asked, waiter
  <2>2. CASE waiter \in Calls
    <3>1. PICK j \in Calls : j = waiter
      BY <2>2
    <3>2. Promise!Disturb(j)
      BY <1>3, <1>4, <1>6, <2>1, <3>1 DEF Promise!Disturb, state, got, asked
    <3>3. QED
      BY <3>2 DEF Promise!Next
  <2>3. CASE waiter \notin Calls
    BY <1>3, <1>5, <2>1, <2>3 DEF Promise!vars, state, got, asked
  <2>4. QED
    BY <2>2, <2>3
<1>7. CASE a \in Calls
  <2>1. PICK r \in inbox : r.call = a /\ IdOf[a] = id /\ inbox' = inbox \ {r}
    BY <1>1, <1>2, <1>7
  <2>2. a \in asked /\ asked' = asked \ {a}
    BY <1>2, <2>1 DEF InboxInv
  <2>3. calls[a].answer # a
    BY <1>2, <1>7, <2>1 DEF InboxInv
  <2>4. CASE waiter \in Calls
    <3> HIDE DEF state, got, asked, waiter
    <3>1. Promise!Reply(a)
      BY <1>1, <1>3, <1>4, <2>1, <2>2, <2>4 DEF Promise!Reply, state, got, asked
    <3>2. QED
      BY <1>7, <3>1 DEF Promise!Next
  <2>5. CASE waiter \notin Calls
    <3>1. ASSUME Alone(a), calls[a].answer = NoCall
          PROVE  calls[a].phase \notin {"waiting", "expired"}
      BY <1>1, <1>2, <1>7, <2>1, <2>5, <3>1 DEF WaitersInv
    <3>2. calls[a].phase \notin {"waiting", "expired"} => state[a] # "sent"
      <4>1. calls[a].phase \in CallPhase
        BY <1>7 DEF LinkInv, TypeOK, Call
      <4>2. QED
        BY <1>7, <4>1 DEF Outcome
    <3>3. Alone(a) \/ Promise!Shared(a)
      BY DEF Alone, Promise!Shared
    <3>4. got[a] = calls[a].answer
      BY <1>7
    <3>5. state[a] # "sent" \/ Promise!Shared(a) \/ got[a] # NoCall
      BY <3>1, <3>2, <3>3, <3>4
    <3> HIDE DEF state, got, asked, waiter
    <3>6. Promise!Reply(a)
      BY <1>3, <1>5, <2>2, <2>5, <3>5 DEF Promise!Reply, state, got, asked
    <3>7. QED
      BY <1>7, <3>6 DEF Promise!Next
  <2>6. QED
    BY <2>4, <2>5
<1>8. QED
  BY <1>6, <1>7

\* device.invoke over the companion link keeps its promise to callers: at most one
\* delivery, none of a refused call, no answer twice or to a stranger, none dropped of a
\* call that still waits under an id of its own (handle_device_invoke,
\* send_command_envelope, accept_envelope), for connections that come and go as they may.
THEOREM LinkKeepsPromise == Spec => KeepsPromise
<1>1. Init => Promise!Init
  BY DEF Init, Promise!Init, Outcome, CallPhase
<1>2. LinkInv /\ CommandInv /\ [Next]_vars => [Promise!Next]_(Promise!vars)
  <2> SUFFICES ASSUME LinkInv, CommandInv, [Next]_vars PROVE [Promise!Next]_(Promise!vars)
    OBVIOUS
  <2>1. CASE UNCHANGED <<pending, calls, inbox>>
    BY <2>1 DEF Promise!vars
  <2>2. ASSUME NEW c \in Conns, ConnStep(c) PROVE [Promise!Next]_(Promise!vars)
    BY <2>1, <2>2, OtherConnSteps, ResponseIsPromised
  <2>3. ASSUME NEW k \in Calls, CallStep(k) PROVE [Promise!Next]_(Promise!vars)
    BY <2>3, CallIsPromised
  <2>4. QED
    BY <2>1, <2>2, <2>3 DEF Next, vars
<1>3. QED
  BY <1>1, <1>2, CommandsAlways, PTL DEF Spec, KeepsPromise, Promise!Spec
=============================================================================
