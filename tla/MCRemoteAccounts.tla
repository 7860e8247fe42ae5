---------------------------- MODULE MCRemoteAccounts ----------------------------
(* Instances of RemoteAccounts for TLC.  Devices: a phone with two wireless   *)
(* ids, w1 and its renamed service w2, and a phone on a cable.  Accounts: one  *)
(* phone, so that every change of an account can happen.                      *)
EXTENDS RemoteAccounts, TLC

CONSTANTS w1, w2, usb, X, h0, h1, h2, u1, t1, t2

DevicesOrder == <<usb, w1, w2>>
DevicesServiceOf == (w1 :> X) @@ (w2 :> X) @@ (usb :> NoService)
DevicesListed == {<<>>, <<usb, w2>>}
DevicesRegistered ==
  {<<[id |-> w1, conn |-> "ready"], [id |-> w2, conn |-> "handshaking"]>>,
   <<[id |-> usb, conn |-> "handshaking"], [id |-> w2, conn |-> "ready"]>>}

AccountsOrder == <<w1>>
AccountsServiceOf == [i \in {w1} |-> NoService]
AccountsListed == {<<w1>>}
AccountsRegistered == {<<>>, <<[id |-> w1, conn |-> "ready"]>>}

Sym == Permutations({t1, t2}) \cup Permutations({h1, h2})
===============================================================================
