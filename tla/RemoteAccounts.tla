---------------------------- MODULE RemoteAccounts ----------------------------
(***************************************************************************)
(* The remote accounts of Core: the account store with its sessions and its *)
(* file (remote/auth.rs), the administration on the stdio thread             *)
(* (remote/local_admin.rs) and the requests of remote users on the QUIC      *)
(* thread (remote/service.rs, remote/quinn_transport.rs).                    *)
(*                                                                         *)
(* Both threads take one request at a time.  They share the store, whose     *)
(* mutex is held for a whole operation, the write of the file included.      *)
(* A request is several steps: it is authenticated, then it acts, and in     *)
(* between the other thread may change the account it was authenticated for. *)
(***************************************************************************)
EXTENDS RemoteDirectory

CONSTANTS
  Admin,        \* the built-in administrator
  RemoteUsers,  \* the names remote accounts can have
  Tokens,       \* session tokens (bound: sessions at one time)
  Hashes,       \* salted password hashes (bound: hashes in use at one time)
  DefaultHash,  \* the hash of the initial password
  AdbLists,     \* the ids `adb devices` can list
  Registered,   \* the device lists the companion registry can answer
  Asked,        \* the kinds of requests that arrive (bound)
  AdminOverQuic, \* whether a client presents the administrator's token over QUIC
  MaxFaults,    \* bound on crashes and storage errors together
  NoUser, NoToken, Free, Missing, Torn

Users == {Admin} \cup RemoteUsers
Callers == {"local", "remote"}

ASSUME AccountsAssumption ==
  /\ Admin \notin RemoteUsers /\ NoUser \notin Users /\ NoToken \notin Tokens
  /\ DefaultHash \in Hashes
  /\ "none" \notin Hashes /\ Free \notin Callers /\ Missing # Torn
  /\ AdbLists \subseteq Seq(Ids) /\ Registered \subseteq Seq(Entry)
  /\ AdminOverQuic \in BOOLEAN /\ MaxFaults \in Nat

VARIABLES
  users,    \* State.database.users
  sessions, \* State.sessions: the user of each live token
  opened,   \* history: the hash a token's login verified
  lock,     \* the holder of the store's mutex while it writes the file
  file,     \* accounts.json
  settled,  \* history: the accounts of the last change that was answered with success,
            \* or those a start found
  unsettled, \* history: the accounts of the changes begun since and not so answered
  up,       \* whether Core runs
  req,      \* the request each thread works on
  touched,  \* history: the account of a device request changed since it was authenticated
  cards,    \* the device list about to be answered
  faults

vars == <<users, sessions, opened, lock, file, settled, unsettled, up, req, touched, cards,
          faults>>
store == <<users, sessions, opened, lock, file, settled, unsettled>>

\* The role of an account follows from its name: only load_or_initialize makes an Admin.
Account == [hash: Hashes, devices: SUBSET Ids, required: BOOLEAN]
NoAccount == [hash |-> "none", devices |-> {}, required |-> FALSE]
Database == [Users -> Account \cup {NoAccount}]
\* validate_database: a file without the administrator is refused.
Valid == {d \in Database : d[Admin] # NoAccount}
Initial == [u \in Users |-> IF u = Admin
              THEN [hash |-> DefaultHash, devices |-> {}, required |-> TRUE] ELSE NoAccount]

\* Neither a missing nor a torn file reads back.
ASSUME FileAssumption == Missing \notin Database /\ Torn \notin Database

Manage == {"create", "delete", "reset", "assign", "unassign"}
\* The requests that act; the others are answered at once and change nothing.
Kinds == Manage \cup {"logout", "password", "list", "device"}
Phase == {"idle", "ready", "checked", "writing", "resolved", "executing", "listed"}

ASSUME AskedAssumption == Asked \subseteq Kinds

Request == [phase: Phase, kind: Kinds, token: Tokens \cup {NoToken},
            user: Users \cup {NoUser}, hash: Hashes \cup {"none"}, devices: SUBSET Ids,
            arg: Users \cup {NoUser}, id: Ids \cup {NoId}]
Idle == [phase |-> "idle", kind |-> "list", token |-> NoToken, user |-> NoUser,
         hash |-> "none", devices |-> {}, arg |-> NoUser, id |-> NoId]

\* The ids adb lists; none when it cannot be asked.
Connected == AdbLists \cup {<<>>}
NoCards == [current |-> <<>>, registered |-> <<>>, cards |-> <<>>]

TypeOK ==
  /\ users \in Database
  /\ sessions \in [Tokens -> Users \cup {NoUser}]
  /\ opened \in [Tokens -> Hashes \cup {"none"}]
  /\ lock \in Callers \cup {Free}
  /\ file \in Database \cup {Missing, Torn}
  /\ settled \in Database \cup {Missing}
  /\ unsettled \subseteq Database
  /\ up \in BOOLEAN
  /\ req \in [Callers -> Request]
  /\ touched \in [Callers -> BOOLEAN]
  /\ faults \in 0 .. MaxFaults

-----------------------------------------------------------------------------
(* Helpers *)

Exists(u) == users[u] # NoAccount
\* A session, and its account still exists.
Live(t) == sessions[t] # NoUser /\ Exists(sessions[t])
IsAdmin(c) == req[c].user = Admin
\* stdio serves the administrator only, and no device requests.
Admits(c, u, kind) ==
  IF c = "local" THEN u = Admin /\ kind \notin {"list", "device"} ELSE u = Admin => AdminOverQuic

\* A hash nobody has: every hash_password draws a new salt.
Unused(h) ==
  /\ \A u \in Users : users[u].hash # h /\ (file \in Database => file[u].hash # h)
  /\ \A t \in Tokens : opened[t] # h
  /\ \A c \in Callers : req[c].hash # h

Fault == faults < MaxFaults /\ faults' = faults + 1

At(c, kind, phase) == up /\ req[c].kind = kind /\ req[c].phase = phase
To(c, phase) == req' = [req EXCEPT ![c].phase = phase]
Answered(c) == req' = [req EXCEPT ![c] = Idle]

\* persist_database: the directory or the file cannot be opened, or the file is
\* truncated and the mutex stays held until it is written.
Persist(c) ==
  /\ \/ /\ Fault
        /\ Answered(c)
        /\ UNCHANGED <<file, lock>>
     \/ /\ file' = Torn /\ lock' = c
        /\ To(c, "writing")
        /\ UNCHANGED faults
  /\ unsettled' = unsettled \cup {users'}
  /\ UNCHANGED settled

\* A change of one account, with or without the end of its sessions, then persist_locked.
Update(c, u, account, ends) ==
  /\ lock = Free
  /\ users' = [users EXCEPT ![u] = account]
  /\ sessions' = [t \in Tokens |-> IF ends /\ sessions[t] = u THEN NoUser ELSE sessions[t]]
  /\ opened' = [t \in Tokens |-> IF sessions'[t] = NoUser THEN "none" ELSE opened[t]]
  /\ touched' = [k \in Callers |-> touched[k] \/ (req[k].user = u /\ req[k].kind = "device")]
  /\ Persist(c)
  /\ UNCHANGED <<up, cards>>

\* require_admin on the QUIC thread; authenticate_admin admits nobody else on stdio.
MayManage(c, kind) == At(c, kind, "ready") /\ IsAdmin(c)

\* require_remote_user: the stdio thread leaves the administrator's account alone.
MayTarget(c, u) == Exists(u) /\ (c = "local" => u # Admin)

-----------------------------------------------------------------------------
(* Sessions *)

\* The right password of an account opens a session under a new token.
Open(t, u) ==
  /\ Exists(u)
  /\ sessions[t] = NoUser /\ \A k \in Callers : req[k].token # t
  /\ sessions' = [sessions EXCEPT ![t] = u]
  /\ opened' = [opened EXCEPT ![t] = users[u].hash]

\* login: on QUIC never the administrator, on stdio only the administrator.
Login(c, u, t) ==
  /\ IF c = "remote" THEN u # Admin ELSE u = Admin
  /\ Open(t, u)
  /\ UNCHANGED <<users, lock, file, settled, unsettled, up, req, touched, cards, faults>>

\* A session's eight hours are over; authenticate drops it before it looks.
Expire(t) ==
  /\ up /\ sessions[t] # NoUser /\ lock = Free
  /\ sessions' = [sessions EXCEPT ![t] = NoUser]
  /\ opened' = [opened EXCEPT ![t] = "none"]
  /\ UNCHANGED <<users, lock, file, settled, unsettled, up, req, touched, cards, faults>>

\* Mutant: a password change that is due does not hold a request back.
AuthenticateAnyway(c, kind, t, arg, id) ==
  LET u == sessions[t]
  IN  /\ Live(t) /\ Admits(c, u, kind)
      /\ req' = [req EXCEPT ![c] = [phase |-> "ready", kind |-> kind, user |-> u,
                   token |-> IF kind \in {"logout", "password"} THEN t ELSE NoToken,
                   hash |-> IF kind = "password" THEN users[u].hash ELSE "none",
                   devices |-> IF kind \in {"list", "device"} THEN users[u].devices ELSE {},
                   arg |-> arg, id |-> id]]
      /\ touched' = [touched EXCEPT ![c] = FALSE]
      /\ UNCHANGED <<store, up, cards, faults>>

\* A request with a live token: what it may go on with is the account as it is now.
\* Until the password is changed only "logout" and "password" pass.
Authenticate(c, kind, t, arg, id) ==
  LET u == sessions[t]
  IN  /\ Live(t) /\ Admits(c, u, kind)
      /\ users[u].required => kind \in {"logout", "password"}
      /\ req' = [req EXCEPT ![c] = [phase |-> "ready", kind |-> kind, user |-> u,
                   token |-> IF kind \in {"logout", "password"} THEN t ELSE NoToken,
                   hash |-> IF kind = "password" THEN users[u].hash ELSE "none",
                   devices |-> IF kind \in {"list", "device"} THEN users[u].devices ELSE {},
                   arg |-> arg, id |-> id]]
      /\ touched' = [touched EXCEPT ![c] = FALSE]
      /\ UNCHANGED <<store, up, cards, faults>>

Logout(c) ==
  /\ At(c, "logout", "ready") /\ lock = Free
  /\ sessions' = [sessions EXCEPT ![req[c].token] = NoUser]
  /\ opened' = [opened EXCEPT ![req[c].token] = "none"]
  /\ Answered(c)
  /\ UNCHANGED <<users, lock, file, settled, unsettled, up, touched, cards, faults>>

-----------------------------------------------------------------------------
(* Changes of the accounts *)

CreateUser(c) ==
  /\ MayManage(c, "create") /\ ~Exists(req[c].arg)
  /\ \E h \in Hashes : /\ Unused(h)
                       /\ Update(c, req[c].arg,
                            [hash |-> h, devices |-> {}, required |-> FALSE], FALSE)

DeleteUser(c) ==
  /\ MayManage(c, "delete") /\ MayTarget(c, req[c].arg) /\ req[c].arg # Admin
  /\ Update(c, req[c].arg, NoAccount, TRUE)

\* Mutant: a reset leaves the sessions of the account alone.
ResetPasswordOnly(c) ==
  LET u == req[c].arg
  IN  /\ MayManage(c, "reset") /\ MayTarget(c, u)
      /\ \E h \in Hashes : /\ Unused(h)
                           /\ Update(c, u, [users[u] EXCEPT !.hash = h, !.required = TRUE], FALSE)

ResetPassword(c) ==
  LET u == req[c].arg
  IN  /\ MayManage(c, "reset") /\ MayTarget(c, u)
      /\ \E h \in Hashes : /\ Unused(h)
                           /\ Update(c, u, [users[u] EXCEPT !.hash = h, !.required = TRUE], TRUE)

\* The stdio thread authenticates the token a second time before the change.
Reauthenticate(c) ==
  /\ c = "local" /\ At(c, "password", "ready") /\ lock = Free
  /\ IF Live(req[c].token) THEN To(c, "checked") ELSE Answered(c)
  /\ UNCHANGED <<store, up, touched, cards, faults>>

\* On QUIC the change follows at once.
Proving(c) == At(c, "password", IF c = "local" THEN "checked" ELSE "ready")

\* Mutant: the current password is not verified.
ChangeAnyPassword(c) ==
  LET u == req[c].user
  IN  /\ Proving(c) /\ Exists(u)
      /\ \E h \in Hashes : /\ Unused(h)
                           /\ Update(c, u, [users[u] EXCEPT !.hash = h, !.required = FALSE], TRUE)

\* The caller proves the password it knows, which may have been changed meanwhile.
ChangeOwnPassword(c) ==
  LET u == req[c].user
  IN  /\ Proving(c) /\ Exists(u) /\ users[u].hash = req[c].hash
      /\ \E h \in Hashes : /\ Unused(h)
                           /\ Update(c, u, [users[u] EXCEPT !.hash = h, !.required = FALSE], TRUE)

\* Mutant: the account may be gone by the time the device is stored.
MayAssignToAnyone(c) == req[c].arg # Admin

\* Devices assigned to the administrator are never looked at and are left out.
MayAssign(c) == Exists(req[c].arg) /\ req[c].arg # Admin

\* Over QUIC a device is only assigned when Core lists it at that moment.
CheckDevice ==
  /\ MayManage("remote", "assign")
  /\ \E listed \in Registered : \E k \in DOMAIN listed : listed[k].id = req["remote"].id
  /\ To("remote", "checked")
  /\ UNCHANGED <<store, up, touched, cards, faults>>

AssignDevice(c) ==
  LET u == req[c].arg
  IN  /\ At(c, "assign", IF c = "local" THEN "ready" ELSE "checked") /\ MayAssign(c)
      /\ Update(c, u, [users[u] EXCEPT !.devices = @ \cup {req[c].id}], FALSE)

UnassignDevice(c) ==
  LET u == req[c].arg
  IN  /\ MayManage(c, "unassign") /\ MayAssign(c)
      /\ Update(c, u, [users[u] EXCEPT !.devices = @ \ {req[c].id}], FALSE)

\* Mutant: the result of the write is not looked at.
WriteFileUnchecked(c) ==
  /\ up /\ lock = c
  /\ \/ file' = users /\ UNCHANGED faults
     \/ Fault /\ file' \in {users, Torn}
  /\ settled' = users /\ unsettled' = {}
  /\ lock' = Free
  /\ Answered(c)
  /\ UNCHANGED <<users, sessions, opened, up, touched, cards>>

\* The write behind the truncation: whole, whole but not synced, or cut short.
WriteFile(c) ==
  /\ up /\ lock = c
  /\ \/ file' = users /\ settled' = users /\ unsettled' = {} /\ UNCHANGED faults
     \/ Fault /\ file' \in {users, Torn} /\ UNCHANGED <<settled, unsettled>>
  /\ lock' = Free
  /\ Answered(c)
  /\ UNCHANGED <<users, sessions, opened, up, touched, cards>>

-----------------------------------------------------------------------------
(* Requests of remote users *)

\* An assigned device may have a new wireless id: ask adb and redirect the request.
Resolve ==
  /\ At("remote", "device", "ready") /\ ~IsAdmin("remote")
  /\ session_can_access_device(req["remote"].devices, req["remote"].id)
  /\ \E current \in Connected :
       req' = [req EXCEPT !["remote"].phase = "resolved",
                          !["remote"].id = Resolved(req["remote"].id, current)]
  /\ UNCHANGED <<store, up, touched, cards, faults>>

\* authorize_user_core_request, then the Core call begins; the administrator's are not
\* redirected nor authorised.
Forward ==
  /\ \/ /\ At("remote", "device", "resolved")
        /\ session_can_access_device(req["remote"].devices, req["remote"].id)
     \/ At("remote", "device", "ready") /\ IsAdmin("remote")
  /\ To("remote", "executing")
  /\ UNCHANGED <<store, up, touched, cards, faults>>

\* The Core call ends, if it does: adb has no time-out.
Executed ==
  /\ At("remote", "device", "executing")
  /\ Answered("remote")
  /\ UNCHANGED <<store, up, touched, cards, faults>>

\* The device list of Core, then the connected ids, merged with the assignments.
ListDevices ==
  /\ At("remote", "list", "ready") /\ ~IsAdmin("remote")
  /\ \E registered \in Registered, current \in Connected :
       cards' = [current |-> current, registered |-> registered,
                 cards |-> reconcile_remote_device_list(req["remote"].devices, registered, current)]
  /\ To("remote", "listed")
  /\ UNCHANGED <<store, up, touched, faults>>

\* An answer that changes nothing: a refusal, of a redirected device request too when
\* the command is not one for a device, or parameters that do not validate.
Answer(c) ==
  /\ up /\ req[c].phase \in {"ready", "checked", "resolved", "listed"}
  /\ Answered(c)
  /\ cards' = IF c = "remote" THEN NoCards ELSE cards
  /\ UNCHANGED <<store, up, touched, faults>>

-----------------------------------------------------------------------------
(* The process *)

Init ==
  /\ users = [u \in Users |-> NoAccount]
  /\ sessions = [t \in Tokens |-> NoUser]
  /\ opened = [t \in Tokens |-> "none"]
  /\ lock = Free
  /\ file = Missing
  /\ settled = Missing
  /\ unsettled = {}
  /\ up = FALSE
  /\ req = [c \in Callers |-> Idle]
  /\ touched = [c \in Callers |-> FALSE]
  /\ cards = NoCards
  /\ faults = 0

\* load_or_initialize with a file that reads back.
Start ==
  /\ ~up /\ file \in Valid
  /\ users' = file
  /\ settled' = file /\ unsettled' = {}
  /\ up' = TRUE
  /\ UNCHANGED <<sessions, opened, lock, file, req, touched, cards, faults>>

\* Mutant: a file that does not parse is taken for a missing one.
FirstStartOverTorn ==
  /\ ~up /\ file \in {Missing, Torn}
  /\ \/ /\ users' = Initial /\ file' = Initial /\ up' = TRUE
        /\ settled' = Initial /\ unsettled' = {} /\ UNCHANGED faults
     \/ /\ Fault /\ file' = Torn /\ unsettled' = {Initial}
        /\ UNCHANGED <<users, up, settled>>
  /\ UNCHANGED <<sessions, opened, lock, req, touched, cards>>

\* load_or_initialize without a file; when the write fails Core exits.
FirstStart ==
  /\ ~up /\ file = Missing
  /\ \/ /\ users' = Initial /\ file' = Initial /\ up' = TRUE
        /\ settled' = Initial /\ unsettled' = {} /\ UNCHANGED faults
     \/ /\ Fault /\ file' = Torn /\ unsettled' = {Initial}
        /\ UNCHANGED <<users, up, settled>>
  /\ UNCHANGED <<sessions, opened, lock, req, touched, cards>>

\* A file cut short does not parse: Core exits, at every start.
RefuseStart == ~up /\ file \notin Valid \cup {Missing} /\ UNCHANGED vars

\* Core dies or its stdin ends; a write in progress stays cut.
Crash ==
  /\ up /\ Fault
  /\ up' = FALSE
  /\ users' = [u \in Users |-> NoAccount]
  /\ sessions' = [t \in Tokens |-> NoUser]
  /\ opened' = [t \in Tokens |-> "none"]
  /\ lock' = Free
  /\ req' = [c \in Callers |-> Idle]
  /\ touched' = [c \in Callers |-> FALSE]
  /\ cards' = NoCards
  /\ UNCHANGED <<file, settled, unsettled>>

-----------------------------------------------------------------------------

\* The next request of a thread that has none, at a moment the mutex is free.
Receive(c) ==
  /\ up /\ lock = Free /\ req[c] = Idle
  /\ \E t \in Tokens :
       \/ \E u \in Users : Login(c, u, t)
       \/ \E kind \in Asked :
            \E arg \in IF kind \in Manage THEN Users ELSE {NoUser},
               id \in IF kind \in {"assign", "unassign", "device"} THEN Ids ELSE {NoId} :
              Authenticate(c, kind, t, arg, id)

Change(c) ==
  \/ CreateUser(c) \/ DeleteUser(c) \/ ResetPassword(c) \/ ChangeOwnPassword(c)
  \/ AssignDevice(c) \/ UnassignDevice(c)

Next ==
  \/ \E c \in Callers : \/ Receive(c) \/ Change(c) \/ WriteFile(c)
                        \/ Reauthenticate(c) \/ Logout(c) \/ Answer(c)
  \/ CheckDevice \/ Resolve \/ Forward \/ Executed \/ ListDevices
  \/ \E t \in Tokens : Expire(t)
  \/ Start \/ FirstStart \/ RefuseStart \/ Crash

Spec == Init /\ [][Next]_vars

-----------------------------------------------------------------------------
(* Properties *)

\* A session is of an account that exists and that still has the password the login
\* verified: changing, resetting or deleting ends all sessions (README.md:104), also
\* when an account of that name is created again.
SessionsMatchAccounts ==
  \A t \in Tokens : sessions[t] # NoUser => /\ Exists(sessions[t])
                                            /\ users[sessions[t]].hash = opened[t]

\* What a start would bring back, while Core runs and after it has died: the accounts
\* acknowledged last, and nothing else, until another change is begun.  From then on
\* until a change succeeds it may be one of those begun since; or the file may be
\* unreadable, cut short in place by the failed or interrupted write of such a change,
\* the acknowledged accounts with it.  The accounts in force are of the same kinds.
FileKeepsUp ==
  /\ file \in {settled, Torn} \cup unsettled
  /\ up => users \in {settled} \cup unsettled
  /\ file = Torn => unsettled # {}

\* A remote user's command runs on a phone that was assigned to the account when the
\* request was authenticated, under whatever wireless id the phone has now; when the
\* account was left alone meanwhile, on one that still is, with no password change due.
CommandsAreAssigned ==
  LET r == req["remote"]
  IN  r.phase = "executing" /\ r.user # Admin =>
        /\ session_can_access_device(r.devices, r.id)
        /\ ~touched["remote"] => /\ session_can_access_device(users[r.user].devices, r.id)
                                 /\ ~users[r.user].required

\* The device list has one card, however many ids name the phone, for each assigned phone
\* adb lists, and no card of a phone that is not assigned; a card is online and bears the
\* connected id exactly when adb lists the phone, and is ready when the registry has it
\* ready under any of its ids.  Whether a phone that is not connected has a card is left
\* open: the list has one, docs/feature-parity.md:32 says it has none.
CardsAreTheAssignedPhones ==
  LET r == req["remote"]  cs == cards.cards
  IN  r.phase = "listed" =>
        /\ \A a \in r.devices, c \in ToSet(cards.current) :
             same_remote_device_identity(a, c)
               => \E k \in DOMAIN cs : cs[k].id \in ToSet(cards.current)
                                       /\ same_remote_device_identity(a, cs[k].id)
        /\ \A k \in DOMAIN cs :
             /\ session_can_access_device(r.devices, cs[k].id)
             /\ \A j \in DOMAIN cs : same_remote_device_identity(cs[j].id, cs[k].id) => j = k
             /\ cs[k].online <=> \E c \in ToSet(cards.current) :
                                   same_remote_device_identity(c, cs[k].id)
             /\ cs[k].online => cs[k].id \in ToSet(cards.current)
             /\ cs[k].conn = "ready" <=> \E e \in ToSet(cards.registered) :
                  e.conn = "ready" /\ same_remote_device_identity(e.id, cs[k].id)

\* While Core runs, an account changes only by a management request of the administrator,
\* or by its owner's request that proves the password the account has at that moment:
\* a password that was changed while the request was on its way proves nothing.
OnlyOwnersAndAdminChange ==
  [][\A u \in Users : up /\ up' /\ users'[u] # users[u] =>
       \E c \in Callers : /\ req[c].phase \in {"ready", "checked"} /\ req'[c] # req[c]
                          /\ IF req[c].kind = "password"
                             THEN req[c].user = u /\ req[c].hash = users[u].hash
                             ELSE req[c].kind \in Manage /\ IsAdmin(c)]_vars

\* The store keeps its promise: the module is an implementation of AccountPromise.
Promise == INSTANCE AccountPromise WITH account <- users, session <- sessions,
             kept <- file, serving <- up, Nothing <- Missing, Lost <- Torn
KeepsPromise == Promise!Spec
===============================================================================
