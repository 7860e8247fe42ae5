------------------------- MODULE RemoteDirectoryProofs -------------------------
(***************************************************************************)
(* Theorems about RemoteDirectory, for every set of ids in every order,    *)
(* every assignment of services, every registry and every answer of adb.   *)
(* The device list is built by a loop over the assigned ids: what the loop *)
(* keeps is proved by induction over its passes, with the least number of  *)
(* passes for which it would fail.                                         *)
(***************************************************************************)
EXTENDS RemoteDirectory, WellFoundedInduction, TLAPS

-----------------------------------------------------------------------------
(* Least and greatest numbers, induction *)

\* Every non-empty set of natural numbers has a least element.
LEMMA Least ==
  ASSUME NEW T \in SUBSET Nat, T # {}
  PROVE  \E m \in T : \A n \in T : m <= n
<1> DEFINE R == OpToRel(<, Nat)
<1>1. IsWellFoundedOn(R, Nat)
  BY NatLessThanWellFounded
<1>2. ASSUME NEW m \in Nat, NEW n \in Nat, m < n PROVE <<m, n>> \in R
  BY <1>2 DEF OpToRel
<1> HIDE DEF R
<1>3. PICK m \in T : \A n \in T : ~(<<n, m>> \in R)
  BY <1>1, WFMin
<1>4. SUFFICES ASSUME NEW n \in T PROVE m <= n
  OBVIOUS
<1>5. m \in Nat /\ n \in Nat /\ ~(n < m)
  BY <1>2, <1>3
<1>6. QED
  BY <1>5

\* Every non-empty set of positions has a greatest element, which Max returns.
LEMMA Greatest ==
  ASSUME NEW L \in Nat, NEW T \in SUBSET (1 .. L), T # {}
  PROVE  Max(T) \in T
<1> DEFINE D == {n \in Nat : L - n \in T}
<1>1. D # {}
  <2>1. PICK t \in T : TRUE
    OBVIOUS
  <2>2. t \in 1 .. L
    OBVIOUS
  <2>3. L - t \in Nat /\ L - (L - t) = t
    BY <2>2
  <2>4. L - t \in D
    BY <2>3
  <2>5. QED
    BY <2>4
<1>2. PICK m \in D : \A n \in D : m <= n
  BY <1>1, Least
<1>3. \A t \in T : L - m >= t
  <2> SUFFICES ASSUME NEW t \in T PROVE L - m >= t
    OBVIOUS
  <2>1. t \in 1 .. L
    OBVIOUS
  <2>2. L - t \in Nat /\ L - (L - t) = t
    BY <2>1
  <2>3. L - t \in D
    BY <2>2
  <2>4. m <= L - t /\ m \in Nat
    BY <1>2, <2>3
  <2>5. QED
    BY <2>1, <2>4
<1>4. L - m \in T
  OBVIOUS
<1>5. \E x \in T : \A y \in T : x >= y
  BY <1>3, <1>4
<1>6. QED
  BY <1>5, Zenon DEF Max

\* A set that holds 0, and with a number below L the next, holds all up to L.
LEMMA UpTo ==
  ASSUME NEW L \in Nat, NEW T, 0 \in T, \A n \in 0 .. L - 1 : n \in T => n + 1 \in T
  PROVE  \A n \in 0 .. L : n \in T
<1> DEFINE C == {n \in 0 .. L : n \notin T}
<1>1. SUFFICES ASSUME C # {} PROVE FALSE
  OBVIOUS
<1>2. C \in SUBSET Nat
  OBVIOUS
<1>3. PICK m \in C : \A n \in C : m <= n
  BY <1>1, <1>2, Least
<1>4. m \in 0 .. L /\ m \notin T
  OBVIOUS
<1>5. m # 0
  BY <1>4
<1>6. m - 1 \in 0 .. L - 1 /\ m - 1 \in 0 .. L /\ m - 1 + 1 = m /\ ~(m <= m - 1)
  BY <1>4, <1>5
<1>7. m - 1 \notin C
  BY <1>3, <1>6
<1>8. m - 1 \in T
  BY <1>6, <1>7
<1>9. QED
  BY <1>4, <1>6, <1>8

-----------------------------------------------------------------------------
(* Identities of devices *)

\* Naming one device is an equivalence.
THEOREM IdentityIsEquivalence ==
  /\ \A i \in Ids : same_remote_device_identity(i, i)
  /\ \A i, j \in Ids : same_remote_device_identity(i, j) => same_remote_device_identity(j, i)
  /\ \A i, j, k \in Ids :
       same_remote_device_identity(i, j) /\ same_remote_device_identity(j, k)
         => same_remote_device_identity(i, k)
BY DEF same_remote_device_identity

\* A request is redirected to an id of the same device, which the account reaches
\* exactly when it reaches the id it asked for.
THEOREM RedirectionKeepsDevice ==
  ASSUME NEW id \in Ids, NEW current \in Seq(Ids), NEW devices \in SUBSET Ids
  PROVE  /\ Resolved(id, current) \in Ids
         /\ same_remote_device_identity(id, Resolved(id, current))
         /\ session_can_access_device(devices, Resolved(id, current))
              <=> session_can_access_device(devices, id)
<1> DEFINE Same(k) == same_remote_device_identity(id, current[k])
           first == {k \in DOMAIN current : Same(k) /\ \A j \in 1 .. k - 1 : ~Same(j)}
<1>1. /\ Resolved(id, current) \in Ids
      /\ same_remote_device_identity(id, Resolved(id, current))
  <2>1. CASE first = {}
    BY <2>1, IdentityIsEquivalence DEF Resolved
  <2>2. CASE first # {}
    <3> DEFINE k == CHOOSE i \in first : TRUE
    <3>1. k \in first
      BY <2>2
    <3>2. k \in DOMAIN current /\ same_remote_device_identity(id, current[k])
      BY <3>1
    <3>3. current[k] \in Ids
      BY <3>2
    <3> QED
      BY <2>2, <3>2, <3>3 DEF Resolved
  <2> QED
    BY <2>1, <2>2
<1>2. \A a \in devices : same_remote_device_identity(a, Resolved(id, current))
                           <=> same_remote_device_identity(a, id)
  BY <1>1, IdentityIsEquivalence
<1> QED
  BY <1>1, <1>2 DEF session_can_access_device


-----------------------------------------------------------------------------
(* One card *)

CardRecord == [id: Ids, online: BOOLEAN, conn: ConnState \cup {"adb", "offline"}]

(* What a card says of its phone: whether adb lists it, under an id that adb *)
(* lists then, and whether the registry has it ready under any of its ids.  *)
CardIsRight(card, registered, current) ==
  /\ card.online <=> \E c \in ToSet(current) : same_remote_device_identity(c, card.id)
  /\ card.online => card.id \in ToSet(current)
  /\ card.conn = "ready" <=> \E e \in ToSet(registered) :
       e.conn = "ready" /\ same_remote_device_identity(e.id, card.id)

\* When a connected id names the device, a redirected request goes to such an id.
LEMMA ResolvedIsConnected ==
  ASSUME NEW id \in Ids, NEW current \in Seq(Ids),
         \E k \in DOMAIN current : same_remote_device_identity(id, current[k])
  PROVE  Resolved(id, current) \in ToSet(current)
<1> DEFINE Same(k) == same_remote_device_identity(id, current[k])
           all == {k \in DOMAIN current : Same(k)}
           first == {k \in DOMAIN current : Same(k) /\ \A j \in 1 .. k - 1 : ~Same(j)}
<1>1. DOMAIN current = 1 .. Len(current) /\ Len(current) \in Nat
  OBVIOUS
<1>2. all \in SUBSET Nat /\ all # {}
  BY <1>1
<1>3. PICK m \in all : \A n \in all : m <= n
  BY <1>2, Least
<1>4. m \in 1 .. Len(current) /\ Same(m)
  BY <1>1
<1>5. \A j \in 1 .. m - 1 : ~Same(j)
  <2> SUFFICES ASSUME NEW j \in 1 .. m - 1, Same(j) PROVE FALSE
    OBVIOUS
  <2>1. j \in 1 .. Len(current) /\ ~(m <= j)
    BY <1>4
  <2>2. j \in all
    BY <1>1, <2>1
  <2>3. QED
    BY <1>3, <2>1, <2>2
<1>6. m \in first
  BY <1>1, <1>4, <1>5
<1>7. (CHOOSE k \in first : TRUE) \in DOMAIN current
  BY <1>6
<1>8. Resolved(id, current) = current[CHOOSE k \in first : TRUE]
  BY <1>6 DEF Resolved
<1>9. QED
  BY <1>7, <1>8 DEF ToSet

\* The best entry names the device, and is ready when any entry that does is.
LEMMA BestEntryNames ==
  ASSUME NEW id \in Ids, NEW registered \in Seq(Entry), KnownAs(id, registered) # {}
  PROVE  LET best == BestEntry(KnownAs(id, registered), registered)
         IN  /\ best \in Entry
             /\ same_remote_device_identity(best.id, id)
             /\ best.conn = "ready" <=>
                  \E k \in KnownAs(id, registered) : registered[k].conn = "ready"
<1> DEFINE known == KnownAs(id, registered)
           ready == {k \in known : registered[k].conn = "ready"}
           among == IF ready # {} THEN ready ELSE known
<1>1. known \in SUBSET (1 .. Len(registered)) /\ Len(registered) \in Nat
  BY DEF KnownAs
<1>2. among \in SUBSET (1 .. Len(registered)) /\ among # {}
  BY <1>1
<1>3. Max(among) \in among
  BY <1>1, <1>2, Greatest
<1>4. BestEntry(known, registered) = registered[Max(among)]
  BY DEF BestEntry
<1>5. Max(among) \in known /\ (registered[Max(among)].conn = "ready" <=> ready # {})
  BY <1>3
<1>6. /\ registered[Max(among)] \in Entry
      /\ same_remote_device_identity(registered[Max(among)].id, id)
  BY <1>5 DEF KnownAs
<1>7. QED
  BY <1>4, <1>5, <1>6

\* Whether some id of a sequence names a device is the same for all its ids.
LEMMA SameForAll ==
  ASSUME NEW i \in Ids, NEW j \in Ids, same_remote_device_identity(i, j)
  PROVE  \A k \in Ids : /\ same_remote_device_identity(k, i) <=> same_remote_device_identity(k, j)
                        /\ same_remote_device_identity(i, k) <=> same_remote_device_identity(k, j)
BY DEF same_remote_device_identity

\* The card of an assigned id is a card of that phone, and what it says is right.
THEOREM CardOfPhone ==
  ASSUME NEW id \in Ids, NEW registered \in Seq(Entry), NEW current \in Seq(Ids)
  PROVE  /\ Card(id, registered, current) \in CardRecord
         /\ same_remote_device_identity(id, Card(id, registered, current).id)
         /\ CardIsRight(Card(id, registered, current), registered, current)
<1> DEFINE online == \E k \in DOMAIN current : same_remote_device_identity(id, current[k])
           known == KnownAs(id, registered)
           entry == IF known = {} THEN [id |-> id, conn |-> "none"]
                    ELSE BestEntry(known, registered)
           card == Card(id, registered, current)
<1>1. /\ entry.id \in Ids
      /\ same_remote_device_identity(id, entry.id)
      /\ entry.conn = "ready" <=> \E k \in known : registered[k].conn = "ready"
  <2>1. CASE known = {}
    BY <2>1, IdentityIsEquivalence
  <2>2. CASE known # {}
    <3>1. /\ entry \in Entry
          /\ same_remote_device_identity(entry.id, id)
          /\ entry.conn = "ready" <=> \E k \in known : registered[k].conn = "ready"
      BY <2>2, BestEntryNames
    <3>2. entry.id \in Ids
      BY <3>1 DEF Entry
    <3>3. QED
      BY <3>1, <3>2, IdentityIsEquivalence
  <2>3. QED
    BY <2>1, <2>2
<1>2. /\ card.id = IF online THEN Resolved(id, current) ELSE entry.id
      /\ card.online = online
      /\ card.conn = IF entry.conn \in ConnState THEN entry.conn
                     ELSE IF online THEN "adb" ELSE "offline"
      /\ card = [id |-> card.id, online |-> card.online, conn |-> card.conn]
  BY DEF Card
<1> HIDE DEF entry, card
<1>3. card.id \in Ids /\ same_remote_device_identity(id, card.id)
  BY <1>1, <1>2, RedirectionKeepsDevice
<1>4. card.online \in BOOLEAN /\ card.conn \in ConnState \cup {"adb", "offline"}
  BY <1>2
<1>5. card \in CardRecord
  BY <1>2, <1>3, <1>4 DEF CardRecord
<1>6. card.online <=> \E c \in ToSet(current) : same_remote_device_identity(c, card.id)
  <2>1. ASSUME NEW k \in DOMAIN current
        PROVE  same_remote_device_identity(id, current[k])
                 <=> same_remote_device_identity(current[k], card.id)
    <3>1. current[k] \in Ids
      OBVIOUS
    <3>2. QED
      BY <1>3, <3>1, SameForAll
  <2>2. QED
    BY <1>2, <2>1 DEF ToSet
<1>7. card.online => card.id \in ToSet(current)
  BY <1>2, ResolvedIsConnected
<1>8. card.conn = "ready" <=> \E e \in ToSet(registered) :
        e.conn = "ready" /\ same_remote_device_identity(e.id, card.id)
  <2>2. ASSUME NEW k \in DOMAIN registered
        PROVE  same_remote_device_identity(registered[k].id, id)
                 <=> same_remote_device_identity(registered[k].id, card.id)
    <3>1. registered[k] \in Entry
      OBVIOUS
    <3>2. registered[k].id \in Ids
      BY <3>1 DEF Entry
    <3>3. QED
      BY <1>3, <3>2, SameForAll
  <2>3. card.conn = "ready" <=> entry.conn = "ready"
    BY <1>2 DEF ConnState
  <2>4. entry.conn = "ready" <=> \E k \in DOMAIN registered :
          registered[k].conn = "ready" /\ same_remote_device_identity(registered[k].id, card.id)
    BY <1>1, <2>2 DEF KnownAs
  <2>5. QED
    BY <2>3, <2>4 DEF ToSet
<1>9. QED
  BY <1>3, <1>5, <1>6, <1>7, <1>8 DEF CardIsRight, card

-----------------------------------------------------------------------------
(* The list *)

(* The list has one card for each phone of which an id is in D, and no other. *)
OneCardEach(list, D, registered, current) ==
  /\ list \in Seq(CardRecord)
  /\ \A a \in D : \E k \in DOMAIN list : same_remote_device_identity(a, list[k].id)
  /\ \A k \in DOMAIN list :
       /\ session_can_access_device(D, list[k].id)
       /\ CardIsRight(list[k], registered, current)
       /\ \A j \in DOMAIN list : same_remote_device_identity(list[j].id, list[k].id) => j = k

\* One pass of the loop takes one more id into account.
LEMMA AddedKeepsOne ==
  ASSUME NEW registered \in Seq(Entry), NEW current \in Seq(Ids),
         NEW D \in SUBSET Ids, NEW id \in Ids, NEW list,
         OneCardEach(list, D, registered, current)
  PROVE  OneCardEach(Added(list, Card(id, registered, current)), D \cup {id}, registered, current)
<1> DEFINE card == Card(id, registered, current)
           Has == \E k \in DOMAIN list : same_remote_device_identity(list[k].id, card.id)
<1>1. /\ card \in CardRecord
      /\ same_remote_device_identity(id, card.id)
      /\ CardIsRight(card, registered, current)
  BY CardOfPhone
<1> HIDE DEF card
<1>2. list \in Seq(CardRecord) /\ DOMAIN list = 1 .. Len(list) /\ Len(list) \in Nat
  BY DEF OneCardEach
<1>3. card.id \in Ids /\ \A k \in DOMAIN list : list[k].id \in Ids
  <2>1. \A k \in DOMAIN list : list[k] \in CardRecord
    BY <1>2
  <2>2. \A c \in CardRecord : c.id \in Ids
    BY DEF CardRecord
  <2>3. QED
    BY <1>1, <2>1, <2>2
<1>4. \A k \in DOMAIN list : session_can_access_device(D \cup {id}, list[k].id)
  BY DEF OneCardEach, session_can_access_device
<1>5. CASE Has
  <2>1. PICK k \in DOMAIN list : same_remote_device_identity(list[k].id, card.id)
    BY <1>5
  <2>2. same_remote_device_identity(id, list[k].id)
    BY <1>1, <1>3, <2>1, IdentityIsEquivalence
  <2>3. OneCardEach(list, D \cup {id}, registered, current)
    BY <1>4, <2>2 DEF OneCardEach
  <2>4. QED
    BY <1>5, <2>3 DEF Added, card
<1>6. CASE ~Has
  <2> DEFINE new == Append(list, card)
             n == Len(list) + 1
  <2>1. /\ new \in Seq(CardRecord)
        /\ DOMAIN new = DOMAIN list \cup {n}
        /\ n \notin DOMAIN list
        /\ new[n] = card
        /\ \A k \in DOMAIN list : new[k] = list[k]
    BY <1>1, <1>2
  <2> HIDE DEF new, n
  <2>2. \A a \in D \cup {id} : \E k \in DOMAIN new : same_remote_device_identity(a, new[k].id)
    BY <1>1, <2>1 DEF OneCardEach
  <2>3. \A k \in DOMAIN new : /\ session_can_access_device(D \cup {id}, new[k].id)
                              /\ CardIsRight(new[k], registered, current)
    <3>1. session_can_access_device(D \cup {id}, card.id)
      BY <1>1 DEF session_can_access_device
    <3>2. QED
      BY <1>1, <1>4, <2>1, <3>1 DEF OneCardEach
  <2>4. \A k \in DOMAIN new : \A j \in DOMAIN new :
          same_remote_device_identity(new[j].id, new[k].id) => j = k
    <3>1. \A k \in DOMAIN list : /\ ~same_remote_device_identity(list[k].id, card.id)
                                 /\ ~same_remote_device_identity(card.id, list[k].id)
      BY <1>3, <1>6, IdentityIsEquivalence
    <3>2. QED
      BY <2>1, <3>1 DEF OneCardEach
  <2>5. OneCardEach(new, D \cup {id}, registered, current)
    BY <2>1, <2>2, <2>3, <2>4 DEF OneCardEach
  <2>6. QED
    BY <1>6, <2>5 DEF Added, card, new
<1>7. QED
  BY <1>5, <1>6

(* The lists the loop has built after each of its first L passes.           *)
Loop(list, L, devices, registered, current) ==
  list = [n \in 0 .. L |->
    IF n = 0 THEN <<>>
    ELSE IF IdOrder[n] \notin devices THEN list[n - 1]
    ELSE Added(list[n - 1], Card(IdOrder[n], registered, current))]

\* The loop has a result after every number of passes: the function that the
\* definition chooses exists, as it can be continued by one more pass.
LEMMA LoopRuns ==
  ASSUME NEW devices, NEW registered, NEW current, NEW L \in Nat
  PROVE  \E list : Loop(list, L, devices, registered, current)
<1> DEFINE Next(before, n) ==
             IF IdOrder[n] \notin devices THEN before
             ELSE Added(before, Card(IdOrder[n], registered, current))
           Runs(m) == \E list : list = [n \in 0 .. m |-> IF n = 0 THEN <<>>
                                                          ELSE Next(list[n - 1], n)]
           T == {m \in 0 .. L : Runs(m)}
<1> HIDE DEF Next
<1>1. Runs(0)
  <2> DEFINE one == [n \in 0 .. 0 |-> <<>>]
  <2>1. one = [n \in 0 .. 0 |-> IF n = 0 THEN <<>> ELSE Next(one[n - 1], n)]
    OBVIOUS
  <2> HIDE DEF one
  <2>2. QED
    BY <2>1
<1>2. ASSUME NEW m \in 0 .. L - 1, Runs(m) PROVE Runs(m + 1)
  <2>1. PICK list : list = [n \in 0 .. m |-> IF n = 0 THEN <<>> ELSE Next(list[n - 1], n)]
    BY <1>2
  <2> DEFINE more == [n \in 0 .. m + 1 |-> IF n = m + 1 THEN Next(list[m], m + 1) ELSE list[n]]
             Value(n) == IF n = 0 THEN <<>> ELSE Next(more[n - 1], n)
  <2>2. \A n \in 0 .. m : list[n] = IF n = 0 THEN <<>> ELSE Next(list[n - 1], n)
    BY <2>1, Zenon
  <2>3. /\ \A n \in 0 .. m : more[n] = list[n]
        /\ more[m + 1] = Next(list[m], m + 1)
        /\ DOMAIN more = 0 .. m + 1
        /\ more = [n \in 0 .. m + 1 |-> more[n]]
    OBVIOUS
  <2> HIDE DEF more
  <2>4. \A n \in 0 .. m + 1 : more[n] = Value(n)
    <3> SUFFICES ASSUME NEW n \in 0 .. m + 1 PROVE more[n] = Value(n)
      OBVIOUS
    <3>1. CASE n = m + 1
      <4>1. n # 0 /\ n - 1 = m /\ m \in 0 .. m
        BY <3>1
      <4>2. QED
        BY <2>3, <3>1, <4>1
    <3>2. CASE n = 0
      <4>1. 0 \in 0 .. m
        OBVIOUS
      <4>2. QED
        BY <2>2, <2>3, <3>2, <4>1
    <3>3. CASE n # 0 /\ n # m + 1
      <4>1. n \in 0 .. m /\ n - 1 \in 0 .. m
        BY <3>3
      <4>2. more[n] = list[n] /\ more[n - 1] = list[n - 1]
        BY <2>3, <4>1
      <4>3. list[n] = Next(list[n - 1], n)
        BY <2>2, <3>3, <4>1
      <4>4. QED
        BY <3>3, <4>2, <4>3
    <3>4. QED
      BY <3>1, <3>2, <3>3
  <2>5. more = [n \in 0 .. m + 1 |-> Value(n)]
    BY <2>3, <2>4
  <2>6. QED
    BY <2>5
<1> HIDE DEF Runs
<1>3. 0 \in T /\ \A n \in 0 .. L - 1 : n \in T => n + 1 \in T
  BY <1>1, <1>2
<1> HIDE DEF T
<1>4. L \in T
  BY <1>3, UpTo
<1>5. Runs(L)
  BY <1>4 DEF T
<1>6. QED
  BY <1>5 DEF Next, Runs, Loop

\* The list a remote user is shown has one card for each assigned phone, however
\* many ids name it, and no other, and what each card says is right.
THEOREM ListHasOneCardEach ==
  ASSUME NEW devices \in SUBSET Ids, NEW registered \in Seq(Entry), NEW current \in Seq(Ids)
  PROVE  OneCardEach(reconcile_remote_device_list(devices, registered, current),
                     devices, registered, current)
<1> DEFINE L == Len(IdOrder)
           Next(before, n) ==
             IF IdOrder[n] \notin devices THEN before
             ELSE Added(before, Card(IdOrder[n], registered, current))
           list == CHOOSE f : Loop(f, L, devices, registered, current)
           Seen(n) == devices \cap {IdOrder[m] : m \in 1 .. n}
           T == {n \in 0 .. L : OneCardEach(list[n], Seen(n), registered, current)}
<1>1. L \in Nat /\ \A n \in 1 .. L : IdOrder[n] \in Ids
  BY DirectoryAssumption
<1>2. Loop(list, L, devices, registered, current)
  <2>1. \E f : Loop(f, L, devices, registered, current)
    BY <1>1, LoopRuns
  <2>2. QED
    BY <2>1
<1>3. reconcile_remote_device_list(devices, registered, current) = list[L]
  BY DEF reconcile_remote_device_list, Loop
<1> HIDE DEF list
<1>4. list[0] = <<>> /\ \A n \in 0 .. L - 1 : list[n + 1] = Next(list[n], n + 1)
  <2> HIDE DEF Next
  <2>1. \A n \in 0 .. L : list[n] = IF n = 0 THEN <<>> ELSE Next(list[n - 1], n)
    <3>1. list = [n \in 0 .. L |-> IF n = 0 THEN <<>> ELSE Next(list[n - 1], n)]
      BY <1>2 DEF Loop, Next
    <3>2. QED
      BY <3>1, Zenon
  <2>2. 0 \in 0 .. L
    BY <1>1
  <2>3. ASSUME NEW n \in 0 .. L - 1 PROVE list[n + 1] = Next(list[n], n + 1)
    <3>1. n + 1 \in 0 .. L /\ n + 1 # 0 /\ n + 1 - 1 = n
      BY <1>1
    <3>2. QED
      BY <2>1, <3>1
  <2>4. QED
    BY <2>1, <2>2, <2>3
<1>5. OneCardEach(list[0], Seen(0), registered, current)
  <2>1. Seen(0) = {} /\ DOMAIN list[0] = {} /\ list[0] \in Seq(CardRecord)
    BY <1>4
  <2>2. QED
    BY <2>1 DEF OneCardEach
<1>6. ASSUME NEW n \in 0 .. L - 1, OneCardEach(list[n], Seen(n), registered, current)
      PROVE  OneCardEach(list[n + 1], Seen(n + 1), registered, current)
  <2>1. n + 1 \in 1 .. L /\ IdOrder[n + 1] \in Ids
    BY <1>1
  <2>2. 1 .. n + 1 = (1 .. n) \cup {n + 1}
    OBVIOUS
  <2>3. CASE IdOrder[n + 1] \notin devices
    <3>1. Seen(n + 1) = Seen(n)
      BY <2>2, <2>3
    <3>2. list[n + 1] = list[n]
      BY <1>4, <2>3
    <3>3. QED
      BY <1>6, <3>1, <3>2
  <2>4. CASE IdOrder[n + 1] \in devices
    <3>1. Seen(n + 1) = Seen(n) \cup {IdOrder[n + 1]} /\ Seen(n) \in SUBSET Ids
      BY <2>2, <2>4
    <3>2. list[n + 1] = Added(list[n], Card(IdOrder[n + 1], registered, current))
      BY <1>4, <2>4
    <3> HIDE DEF Seen
    <3>3. QED
      BY <1>6, <2>1, <3>1, <3>2, AddedKeepsOne
  <2>5. QED
    BY <2>3, <2>4
<1>7. L \in T
  <2>1. 0 \in T
    BY <1>1, <1>5
  <2>2. ASSUME NEW n \in 0 .. L - 1, n \in T PROVE n + 1 \in T
    <3>1. n + 1 \in 0 .. L
      BY <1>1
    <3>2. OneCardEach(list[n + 1], Seen(n + 1), registered, current)
      BY <1>6, <2>2
    <3>3. QED
      BY <3>1, <3>2
  <2> HIDE DEF T
  <2>3. \A n \in 0 .. L : n \in T
    BY <1>1, <2>1, <2>2, UpTo
  <2>4. QED
    BY <1>1, <2>3
<1>8. Seen(L) = devices
  BY <1>1, DirectoryAssumption DEF ToSet
<1>9. QED
  BY <1>3, <1>7, <1>8
===============================================================================
