--------------------------- MODULE MCCompanionLink ---------------------------
(* Instances of CompanionLink for TLC.                                      *)
EXTENDS CompanionLink, TLC

CONSTANTS d1, d2, c1, c2, c3, k1, k2, i1

\* c1 is an honest device.  c2 is its reconnection, or another peer, which names
\* every id, that of blanks among them, and may leave the envelope's id out.
ClaimsMixed == (c1 :> {d1}) @@ (c2 :> Devices \cup {NoDevice})

\* Every peer names its own device.
ClaimsHonest == (c1 :> {d1}) @@ (c3 :> {d2})

\* c2 is a stranger that introduces itself to nobody.
ClaimsStranger == (c1 :> {d1}) @@ (c2 :> {})

\* All calls carry the same request id.
IdShared == [k \in Calls |-> i1]
=============================================================================
