---------------------------- MODULE RemoteDirectory ----------------------------
(***************************************************************************)
(* The devices a remote account reaches: when two ADB ids name one phone,   *)
(* which id a request is redirected to, and the device list a remote user   *)
(* is shown (remote/service.rs).  Ids stand for device id strings: IdOrder   *)
(* lists them in string order and ServiceOf gives what                       *)
(* normalized_mdns_service_identity returns for each, NoService when the     *)
(* string is not a wireless-debugging service name.                          *)
(***************************************************************************)
EXTENDS Naturals, Sequences, SequencesExt

CONSTANTS Ids, IdOrder, Services, NoService, ServiceOf, NoId

ASSUME DirectoryAssumption ==
  /\ ServiceOf \in [Ids -> Services \cup {NoService}]
  /\ IdOrder \in Seq(Ids) /\ Ids = ToSet(IdOrder)
  /\ NoId \notin Ids

\* The states the registry gives a device; "none" is a device it does not list.
ConnState == {"ready", "handshaking"}
Entry == [id: Ids, conn: ConnState]

\* Two ids name one device when they are equal or name one mDNS service.
same_remote_device_identity(l, r) ==
  \/ l = r
  \/ ServiceOf[l] # NoService /\ ServiceOf[l] = ServiceOf[r]

session_can_access_device(devices, id) ==
  \E a \in devices : same_remote_device_identity(a, id)

\* The first connected id of the requested device, else the id itself.
Resolved(id, current) ==
  LET Same(k) == same_remote_device_identity(id, current[k])
      first == {k \in DOMAIN current : Same(k) /\ \A j \in 1 .. k - 1 : ~Same(j)}
  IN  IF first = {} THEN id ELSE current[CHOOSE k \in first : TRUE]

\* The entries of the registry that name the device of an id.
KnownAs(id, registered) ==
  {k \in DOMAIN registered : same_remote_device_identity(registered[k].id, id)}

\* Iterator::max_by_key keeps the last of the greatest: a ready entry if there is one.
BestEntry(known, registered) ==
  LET ready == {k \in known : registered[k].conn = "ready"}
  IN  registered[Max(IF ready # {} THEN ready ELSE known)]

\* The card of one assigned id.
Card(id, registered, current) ==
  LET online == \E k \in DOMAIN current : same_remote_device_identity(id, current[k])
      known  == KnownAs(id, registered)
      entry  == IF known = {} THEN [id |-> id, conn |-> "none"]
                ELSE BestEntry(known, registered)
  IN  [id     |-> IF online THEN Resolved(id, current) ELSE entry.id,
       online |-> online,
       conn   |-> IF entry.conn \in ConnState THEN entry.conn
                  ELSE IF online THEN "adb" ELSE "offline"]

\* Mutant: a phone assigned under two ids gets two cards.
AddedTwice(cards, card) == Append(cards, card)

\* One pass of the loop: a card of a phone that has one already is left out.
Added(cards, card) ==
  IF \E k \in DOMAIN cards : same_remote_device_identity(cards[k].id, card.id)
  THEN cards ELSE Append(cards, card)

\* The list a remote user is shown: the loop over the assigned ids, in string order.
reconcile_remote_device_list(devices, registered, current) ==
  LET list[n \in 0 .. Len(IdOrder)] ==
        IF n = 0 THEN <<>>
        ELSE IF IdOrder[n] \notin devices THEN list[n - 1]
        ELSE Added(list[n - 1], Card(IdOrder[n], registered, current))
  IN  list[Len(IdOrder)]
===============================================================================
