---------------------------- MODULE WirelessPairing ----------------------------
(***************************************************************************)
(* Pairing by QR code (wireless.rs): a session is made with its service name *)
(* and password, lives two minutes, and is looked up by pair requests, which *)
(* run adb without holding the lock of the pending sessions.                 *)
(***************************************************************************)
EXTENDS CoreCalls

CONSTANT QrSessions \* the session ids that will be drawn (bound: sessions made)

VARIABLES
  made,    \* the sessions made so far
  pending, \* WirelessPairingManager.pending
  expired, \* the sessions older than QR_PAIRING_TTL
  over     \* history: the sessions cancelled, or confirmed to their caller

pairings == <<made, pending, expired, over>>

PairingType ==
  /\ made \subseteq QrSessions
  /\ pending \subseteq made
  /\ expired \subseteq made
  /\ over \subseteq made

PairingInit == made = {} /\ pending = {} /\ expired = {} /\ over = {}

\* retain: what the expired sessions leave.
Purged == pending \ expired

CreateQr(c) ==
  /\ At(c, "create", "begin")
  /\ \E s \in QrSessions \ made : made' = made \cup {s} /\ pending' = Purged \cup {s}
  /\ Answered(c)
  /\ UNCHANGED <<expired, over>>

\* Two minutes have passed.
Age(s) ==
  /\ core = "running" /\ s \in made \ expired
  /\ expired' = expired \cup {s}
  /\ UNCHANGED <<made, pending, over>>

\* get_pending: a missing, expired or cancelled session is refused.
LookUp(c) ==
  /\ At(c, "pair", "begin")
  /\ pending' = Purged
  /\ IF call[c].arg \in Purged THEN To(c, "discover", None) ELSE Answered(c)
  /\ UNCHANGED <<made, expired, over>>

\* adb mdns services: the phone advertises the service of the session, or not (yet).
Discover(c) ==
  /\ At(c, "pair", "discover")
  /\ To(c, "pairing", None) \/ Answered(c)
  /\ UNCHANGED pairings

\* adb pair, with the password the session had when it was looked up.
Pair(c) ==
  /\ At(c, "pair", "pairing")
  /\ To(c, "paired", None) \/ Answered(c)
  /\ UNCHANGED pairings

\* Mutant: the session stays pending when its pairing succeeded.
ConfirmOnly(c) ==
  /\ At(c, "pair", "paired")
  /\ over' = over \cup {call[c].arg}
  /\ Answered(c)
  /\ UNCHANGED <<made, pending, expired>>

Confirm(c) ==
  /\ At(c, "pair", "paired")
  /\ pending' = pending \ {call[c].arg}
  /\ over' = over \cup {call[c].arg}
  /\ Answered(c)
  /\ UNCHANGED <<made, expired>>

CancelQr(c) ==
  /\ At(c, "cancel", "begin")
  /\ pending' = pending \ {call[c].arg}
  /\ over' = over \cup {call[c].arg}
  /\ Answered(c)
  /\ UNCHANGED <<made, expired>>

PairingCall(c) ==
  CreateQr(c) \/ LookUp(c) \/ Discover(c) \/ Pair(c) \/ Confirm(c) \/ CancelQr(c)

-----------------------------------------------------------------------------

\* A session is good for one pairing: once it was cancelled, has expired, or a request
\* that paired with it was answered, no request that looks it up goes on to adb, however
\* many requests were using it at that moment.
QrStaysOver ==
  [][\A c \in Callers : At(c, "pair", "begin") /\ call'[c].at = "discover" =>
        call[c].arg \notin over \cup expired]_<<call, pairings>>
===============================================================================
