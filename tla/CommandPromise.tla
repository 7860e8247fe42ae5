---------------------------- MODULE CommandPromise ----------------------------
(***************************************************************************)
(* What device.invoke promises to its callers.  A command goes to the phone *)
(* at most once; a refused call never reached it, a call that ran into its  *)
(* time-out may have; an answer is given to one caller, to one that still   *)
(* waits and asked under the same request id; and the answer of a call that *)
(* still waits is dropped only when the request id is shared, or when the   *)
(* phone has already sent something else under it.                          *)
(***************************************************************************)
CONSTANTS Calls, IdOf, NoCall, Stray

VARIABLES
  state, \* what a call has come to
  asked, \* the calls whose command the phone has and has not answered
  got    \* the call whose answer each caller has received

vars == <<state, asked, got>>

Shared(k) == \E j \in Calls : j # k /\ IdOf[j] = IdOf[k]

Init ==
  /\ state = [k \in Calls |-> "new"]
  /\ asked = {}
  /\ got = [k \in Calls |-> NoCall]

Becomes(k, from, to) ==
  /\ state[k] \in from
  /\ state' = [state EXCEPT ![k] = to]

Begin(k) == Becomes(k, {"new"}, "open") /\ UNCHANGED <<asked, got>>

\* Before its command was sent a call can be refused.
Refuse(k) == Becomes(k, {"new", "open"}, "refused") /\ UNCHANGED <<asked, got>>

\* The command is sent; it may get lost.
Deliver(k) ==
  /\ Becomes(k, {"open"}, "sent")
  /\ asked' \in {asked, asked \cup {k}}
  /\ UNCHANGED got

\* The phone answers the command of k.
Reply(k) ==
  /\ k \in asked
  /\ asked' = asked \ {k}
  /\ \/ \E j \in Calls : /\ IdOf[j] = IdOf[k]
                         /\ state[j] \in {"open", "sent"} /\ got[j] = NoCall
                         /\ got' = [got EXCEPT ![j] = k]
     \/ (state[k] # "sent" \/ Shared(k) \/ got[k] # NoCall) /\ UNCHANGED got
  /\ UNCHANGED state

\* A phone sends what it was not asked for, or was asked by another: the call that
\* waits under the request id it names is given that.
Disturb(k) ==
  /\ state[k] \in {"open", "sent"} /\ got[k] = NoCall
  /\ got' = [got EXCEPT ![k] = Stray]
  /\ UNCHANGED <<state, asked>>

\* The call returns its answer, or that it does not know.
Return(k) ==
  /\ \/ got[k] # NoCall /\ Becomes(k, {"sent"}, "answered")
     \/ Becomes(k, {"sent"}, "unknown")
  /\ UNCHANGED <<asked, got>>

Next == \E k \in Calls : Begin(k) \/ Refuse(k) \/ Deliver(k) \/ Reply(k) \/ Disturb(k) \/ Return(k)

Spec == Init /\ [][Next]_vars

\* The promise as an invariant: a command that is with the phone, or that somebody has
\* the answer of, was sent and not refused; no answer is given twice, nor to a call of
\* another request id.
OnceAndOnlySent ==
  /\ \A k \in asked : state[k] \in {"sent", "answered", "unknown"} /\ \A j \in Calls : got[j] # k
  /\ \A j \in Calls : got[j] \in {NoCall, Stray} \/
       /\ got[j] \in Calls /\ IdOf[got[j]] = IdOf[j]
       /\ state[got[j]] \in {"sent", "answered", "unknown"}
       /\ \A i \in Calls : got[i] = got[j] => i = j
===============================================================================
