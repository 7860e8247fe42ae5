------------------------- MODULE RemoteAccountsProofs -------------------------
(***************************************************************************)
(* Theorems about RemoteAccounts, for every set of accounts, tokens, hashes *)
(* and device ids, every number of crashes and storage errors.              *)
(***************************************************************************)
EXTENDS RemoteAccounts, RemoteDirectoryProofs

(* A request that a thread works on carries what its kind needs, and only   *)
(* the administrator's requests reach the stdio thread or the step after    *)
(* the device was looked up.                                                *)
Fits(c, r) ==
  r.phase # "idle" =>
    /\ r.user \in Users
    /\ c = "local" => r.user = Admin
    /\ r.kind = "assign" /\ r.phase # "ready" => r.user = Admin
    /\ r.kind \in Manage => r.arg \in Users
    /\ r.kind \in {"logout", "password"} => r.token \in Tokens
    /\ r.kind \in {"assign", "unassign", "device"} => r.id \in Ids

RequestsFit == \A c \in Callers : Fits(c, req[c])

(* A process that is down has no accounts, sessions or requests in memory.  *)
DownIsEmpty ==
  ~up => /\ users = [u \in Users |-> NoAccount] /\ sessions = [t \in Tokens |-> NoUser]
         /\ \A c \in Callers : req[c].phase = "idle"

(* While the mutex is held across a write the file is cut short.            *)
WriterTears == lock # Free => up /\ file = Torn

AccountsInv ==
  /\ TypeOK
  /\ RequestsFit
  /\ SessionsMatchAccounts
  /\ DownIsEmpty
  /\ WriterTears

-----------------------------------------------------------------------------
(* Requests *)

\* A request stays one when it goes from phase to phase.
LEMMA RequestAt ==
  \A r \in Request, p \in Phase :
    /\ [r EXCEPT !.phase = p] \in Request
    /\ [r EXCEPT !.phase = p].phase = p
    /\ [r EXCEPT !.phase = p].kind = r.kind
    /\ [r EXCEPT !.phase = p].user = r.user
    /\ [r EXCEPT !.phase = p].token = r.token
    /\ [r EXCEPT !.phase = p].hash = r.hash
    /\ [r EXCEPT !.phase = p].devices = r.devices
    /\ [r EXCEPT !.phase = p].arg = r.arg
    /\ [r EXCEPT !.phase = p].id = r.id
BY DEF Request

\* The request of an idle thread.
LEMMA IdleRequest == Idle \in Request /\ Idle.phase = "idle"
BY DEF Idle, Request, Phase, Kinds

\* A thread that goes to another phase, or answers, keeps what the requests need.
LEMMA ToKeepsRequests ==
  ASSUME req \in [Callers -> Request], RequestsFit,
         NEW c \in Callers, NEW p \in Phase, req[c].phase # "idle", To(c, p),
         req[c].kind = "assign" /\ p # "ready" => req[c].user = Admin
  PROVE  req' \in [Callers -> Request] /\ RequestsFit' /\ req'[c].phase = p
<1>1. [req[c] EXCEPT !.phase = p] \in Request
  BY RequestAt
<1>2. /\ req' \in [Callers -> Request]
      /\ \A k \in Callers : k # c => req'[k] = req[k]
      /\ req'[c] = [req[c] EXCEPT !.phase = p]
  BY <1>1 DEF To
<1>3. Fits(c, req[c])
  BY DEF RequestsFit
<1>4. Fits(c, req'[c])
  BY <1>2, <1>3, RequestAt DEF Fits
<1>5. \A k \in Callers : Fits(k, req'[k])
  BY <1>2, <1>4 DEF RequestsFit
<1>6. req'[c].phase = p
  BY <1>2, RequestAt
<1> QED
  BY <1>2, <1>5, <1>6 DEF RequestsFit, Fits

\* The same for an answer.
LEMMA AnsweredKeepsRequests ==
  ASSUME req \in [Callers -> Request], RequestsFit, NEW c \in Callers, Answered(c)
  PROVE  req' \in [Callers -> Request] /\ RequestsFit' /\ req'[c].phase = "idle"
<1>1. /\ req' \in [Callers -> Request]
      /\ \A k \in Callers : k # c => req'[k] = req[k]
      /\ req'[c] = Idle
  BY IdleRequest DEF Answered
<1>2. \A k \in Callers : Fits(k, req'[k])
  BY <1>1, IdleRequest DEF RequestsFit, Fits
<1> QED
  BY <1>1, <1>2, IdleRequest DEF RequestsFit, Fits

-----------------------------------------------------------------------------
(* Changes of accounts *)

(* What every operation that changes an account has in common: the account  *)
(* it changes and what becomes of it, for whom, and that the sessions of an *)
(* account outlive only a change of its devices.                            *)
Justified(c, u) ==
  /\ up /\ req[c].phase \in {"ready", "checked"}
  /\ IF req[c].kind = "password" THEN req[c].user = u /\ req[c].hash = users[u].hash
     ELSE req[c].kind \in Manage /\ IsAdmin(c)

KeepsSessions(u, a) ==
  /\ users[u] # NoAccount /\ a # NoAccount
  /\ a.hash = users[u].hash /\ a.required = users[u].required

Changes(c, u, a, ends) ==
  /\ Update(c, u, a, ends)
  /\ Justified(c, u)
  /\ u = Admin => a # NoAccount
  /\ ends \/ users[u] = NoAccount \/ KeepsSessions(u, a)

\* Fields of an account that are replaced leave an account.
LEMMA AccountWith ==
  /\ \A h \in Hashes, b \in BOOLEAN, d \in SUBSET Ids :
       [hash |-> h, devices |-> d, required |-> b] \in Account
  /\ \A a \in Account, h \in Hashes, b \in BOOLEAN :
       [a EXCEPT !.hash = h, !.required = b] \in Account
  /\ \A a \in Account, d \in SUBSET Ids :
       /\ [a EXCEPT !.devices = d] \in Account
       /\ [a EXCEPT !.devices = d].hash = a.hash
       /\ [a EXCEPT !.devices = d].required = a.required
BY DEF Account

\* No account is the account of nobody.
LEMMA AccountExists == NoAccount \notin Account
BY AccountsAssumption DEF NoAccount, Account

\* Each operation is such a change.
LEMMA ChangeChanges ==
  ASSUME TypeOK, RequestsFit, NEW c \in Callers, Change(c)
  PROVE  \E u \in Users, a \in Account \cup {NoAccount}, ends \in BOOLEAN :
           Changes(c, u, a, ends)
<1> DEFINE r == req[c]
<1>1. Fits(c, r) /\ r \in Request
  BY DEF RequestsFit, TypeOK
<1>2. \A u \in Users : Exists(u) => users[u] \in Account
  BY DEF Exists, TypeOK, Database
<1>3. CASE CreateUser(c)
  <2>1. PICK h \in Hashes : Update(c, r.arg, [hash |-> h, devices |-> {}, required |-> FALSE], FALSE)
    BY <1>3 DEF CreateUser
  <2> DEFINE a == [hash |-> h, devices |-> {}, required |-> FALSE]
  <2>2. a \in Account
    BY AccountWith
  <2>3. r.arg \in Users /\ users[r.arg] = NoAccount /\ Justified(c, r.arg)
    BY <1>1, <1>3 DEF CreateUser, MayManage, At, Fits, Manage, Justified, Exists
  <2>4. Changes(c, r.arg, a, FALSE)
    BY <2>1, <2>2, <2>3, AccountExists DEF Changes
  <2> QED
    BY <2>2, <2>3, <2>4
<1>4. CASE DeleteUser(c)
  <2>1. r.arg \in Users /\ Justified(c, r.arg)
    BY <1>1, <1>4 DEF DeleteUser, MayManage, At, Fits, Manage, Justified
  <2>2. Changes(c, r.arg, NoAccount, TRUE)
    BY <1>4, <2>1 DEF DeleteUser, Changes
  <2> QED
    BY <2>1, <2>2
<1>5. CASE ResetPassword(c)
  <2>1. r.arg \in Users /\ Justified(c, r.arg)
    BY <1>1, <1>5 DEF ResetPassword, MayManage, At, Fits, Manage, Justified
  <2>2. users[r.arg] \in Account
    BY <1>2, <1>5, <2>1 DEF ResetPassword, MayTarget
  <2>3. PICK h \in Hashes :
          Update(c, r.arg, [users[r.arg] EXCEPT !.hash = h, !.required = TRUE], TRUE)
    BY <1>5 DEF ResetPassword
  <2> DEFINE a == [users[r.arg] EXCEPT !.hash = h, !.required = TRUE]
  <2>4. a \in Account
    BY <2>2, AccountWith
  <2>5. Changes(c, r.arg, a, TRUE)
    BY <2>1, <2>3, <2>4, AccountExists DEF Changes
  <2> QED
    BY <2>1, <2>4, <2>5
<1>6. CASE ChangeOwnPassword(c)
  <2>1. r.user \in Users /\ Justified(c, r.user)
    BY <1>1, <1>6 DEF ChangeOwnPassword, Proving, At, Fits, Justified
  <2>2. users[r.user] \in Account
    BY <1>2, <1>6, <2>1 DEF ChangeOwnPassword
  <2>3. PICK h \in Hashes :
          Update(c, r.user, [users[r.user] EXCEPT !.hash = h, !.required = FALSE], TRUE)
    BY <1>6 DEF ChangeOwnPassword
  <2> DEFINE a == [users[r.user] EXCEPT !.hash = h, !.required = FALSE]
  <2>4. a \in Account
    BY <2>2, AccountWith
  <2>5. Changes(c, r.user, a, TRUE)
    BY <2>1, <2>3, <2>4, AccountExists DEF Changes
  <2> QED
    BY <2>1, <2>4, <2>5
<1>7. CASE AssignDevice(c) \/ UnassignDevice(c)
  <2>1. r.arg \in Users /\ Justified(c, r.arg) /\ r.id \in Ids
    BY <1>1, <1>7 DEF AssignDevice, UnassignDevice, MayManage, IsAdmin, At, Fits, Manage,
                      Justified, Callers
  <2>2. users[r.arg] \in Account
    BY <1>2, <1>7, <2>1 DEF AssignDevice, UnassignDevice, MayAssign
  <2>3. users[r.arg].devices \in SUBSET Ids
    BY <2>2 DEF Account
  <2>4. PICK d \in SUBSET Ids : Update(c, r.arg, [users[r.arg] EXCEPT !.devices = d], FALSE)
    <3>1. CASE AssignDevice(c)
      <4>1. Update(c, r.arg, [users[r.arg] EXCEPT !.devices = users[r.arg].devices \cup {r.id}], FALSE)
        BY <3>1 DEF AssignDevice
      <4> QED
        BY <2>1, <2>3, <4>1
    <3>2. CASE UnassignDevice(c)
      <4>1. Update(c, r.arg, [users[r.arg] EXCEPT !.devices = users[r.arg].devices \ {r.id}], FALSE)
        BY <3>2 DEF UnassignDevice
      <4> QED
        BY <2>1, <2>3, <4>1
    <3> QED
      BY <1>7, <3>1, <3>2
  <2> DEFINE a == [users[r.arg] EXCEPT !.devices = d]
  <2>5. a \in Account /\ a.hash = users[r.arg].hash /\ a.required = users[r.arg].required
    BY <2>2, AccountWith
  <2>6. KeepsSessions(r.arg, a)
    BY <2>2, <2>5, AccountExists DEF KeepsSessions
  <2>7. Changes(c, r.arg, a, FALSE)
    BY <2>1, <2>4, <2>5, <2>6, AccountExists DEF Changes
  <2> QED
    BY <2>1, <2>5, <2>7
<1> QED
  BY <1>3, <1>4, <1>5, <1>6, <1>7 DEF Change

-----------------------------------------------------------------------------
(* The invariant *)

\* It holds when Core has never run.
LEMMA AccountsInit == Init => AccountsInv
<1> SUFFICES ASSUME Init PROVE AccountsInv
  OBVIOUS
<1>1. NoUser \notin Users
  BY AccountsAssumption
<1>2. TypeOK
  <2>1. users \in Database /\ sessions \in [Tokens -> Users \cup {NoUser}]
    BY DEF Init, Database
  <2>2. opened \in [Tokens -> Hashes \cup {"none"}] /\ touched \in [Callers -> BOOLEAN]
    BY DEF Init
  <2>3. req \in [Callers -> Request]
    BY IdleRequest DEF Init
  <2>4. faults \in 0 .. MaxFaults
    BY AccountsAssumption DEF Init
  <2> QED
    BY <2>1, <2>2, <2>3, <2>4 DEF Init, TypeOK
<1>3. RequestsFit
  BY IdleRequest DEF Init, RequestsFit, Fits
<1>4. SessionsMatchAccounts /\ DownIsEmpty /\ WriterTears
  BY IdleRequest DEF Init, SessionsMatchAccounts, DownIsEmpty, WriterTears
<1> QED
  BY <1>2, <1>3, <1>4 DEF AccountsInv

\* A change of an account keeps it: the sessions of the account end, or none exist,
\* or the password they verified stays.
LEMMA ChangeKeepsInv ==
  ASSUME AccountsInv, NEW c \in Callers, NEW u \in Users,
         NEW a \in Account \cup {NoAccount}, NEW ends \in BOOLEAN, Changes(c, u, a, ends)
  PROVE  AccountsInv'
<1>1. TypeOK /\ RequestsFit /\ SessionsMatchAccounts /\ DownIsEmpty /\ WriterTears
  BY DEF AccountsInv
<1>2. Update(c, u, a, ends) /\ Justified(c, u)
  BY DEF Changes
<1>3. /\ users' = [users EXCEPT ![u] = a]
      /\ sessions' = [t \in Tokens |-> IF ends /\ sessions[t] = u THEN NoUser ELSE sessions[t]]
      /\ opened' = [t \in Tokens |-> IF sessions'[t] = NoUser THEN "none" ELSE opened[t]]
      /\ touched' = [k \in Callers |-> touched[k] \/ (req[k].user = u /\ req[k].kind = "device")]
      /\ Persist(c) /\ lock = Free /\ up /\ up' = up
  BY <1>2 DEF Update, Justified
<1>4. users' \in Database /\ sessions' \in [Tokens -> Users \cup {NoUser}]
  BY <1>1, <1>3 DEF TypeOK, Database
<1>5. opened' \in [Tokens -> Hashes \cup {"none"}] /\ touched' \in [Callers -> BOOLEAN]
  BY <1>1, <1>3 DEF TypeOK
<1>6. req[c].phase # "idle" /\ (req[c].kind = "assign" => req[c].user = Admin)
  BY <1>2 DEF Justified, Manage, IsAdmin
<1>7. req' \in [Callers -> Request] /\ RequestsFit'
  <2>1. CASE Answered(c)
    BY <1>1, <2>1, AnsweredKeepsRequests DEF TypeOK
  <2>2. CASE To(c, "writing")
    BY <1>1, <1>6, <2>2, ToKeepsRequests DEF TypeOK, Phase
  <2> QED
    BY <1>3, <2>1, <2>2 DEF Persist
<1>8. /\ lock' \in Callers \cup {Free} /\ file' \in Database \cup {Missing, Torn}
      /\ settled' \in Database \cup {Missing} /\ unsettled' \subseteq Database
      /\ up' \in BOOLEAN /\ faults' \in 0 .. MaxFaults
  <2>1. /\ lock \in Callers \cup {Free} /\ file \in Database \cup {Missing, Torn}
        /\ settled \in Database \cup {Missing} /\ unsettled \subseteq Database
        /\ up \in BOOLEAN /\ faults \in 0 .. MaxFaults
    BY <1>1 DEF TypeOK
  <2>2. faults' \in 0 .. MaxFaults
    BY <1>3, <2>1, AccountsAssumption DEF Persist, Fault
  <2>3. lock' \in Callers \cup {Free} /\ file' \in Database \cup {Missing, Torn}
    BY <1>3, <2>1 DEF Persist
  <2>4. settled' \in Database \cup {Missing} /\ unsettled' \subseteq Database /\ up' \in BOOLEAN
    BY <1>3, <1>4, <2>1 DEF Persist
  <2> QED
    BY <2>2, <2>3, <2>4
<1>9. SessionsMatchAccounts'
  <2> SUFFICES ASSUME NEW t \in Tokens, sessions'[t] # NoUser
               PROVE  Exists(sessions[t])' /\ users'[sessions'[t]].hash = opened'[t]
    BY DEF SessionsMatchAccounts, Exists
  <2>1. sessions'[t] = sessions[t] /\ sessions[t] # NoUser /\ opened'[t] = opened[t]
        /\ ~(ends /\ sessions[t] = u)
    BY <1>3
  <2>2. sessions[t] \in Users /\ users[sessions[t]] # NoAccount
        /\ users[sessions[t]].hash = opened[t]
    BY <1>1, <2>1 DEF TypeOK, SessionsMatchAccounts, Exists
  <2>3. CASE sessions[t] = u
    <3>1. KeepsSessions(u, a)
      BY <2>1, <2>2, <2>3 DEF Changes
    <3>2. users'[u] = a
      BY <1>1, <1>3 DEF TypeOK, Database
    <3> QED
      BY <2>1, <2>2, <2>3, <3>1, <3>2 DEF KeepsSessions, Exists
  <2>4. CASE sessions[t] # u
    <3>1. users'[sessions[t]] = users[sessions[t]]
      BY <1>1, <1>3, <2>2, <2>4 DEF TypeOK, Database
    <3> QED
      BY <2>1, <2>2, <3>1 DEF Exists
  <2> QED
    BY <2>3, <2>4
<1>10. DownIsEmpty' /\ WriterTears'
  BY <1>1, <1>3 DEF DownIsEmpty, WriterTears, Persist
<1>11. TypeOK'
  BY <1>4, <1>5, <1>7, <1>8 DEF TypeOK
<1> QED
  BY <1>7, <1>9, <1>10, <1>11 DEF AccountsInv

\* A step of a request alone keeps it.
LEMMA RequestKeepsInv ==
  ASSUME AccountsInv, UNCHANGED <<store, up, faults>>, up \/ req' = req,
         req' \in [Callers -> Request], RequestsFit', touched' \in [Callers -> BOOLEAN]
  PROVE  AccountsInv'
<1>1. UNCHANGED <<users, sessions, opened, lock, file, settled, unsettled, up, faults>>
  BY DEF store
<1>2. TypeOK'
  BY <1>1 DEF AccountsInv, TypeOK
<1>3. SessionsMatchAccounts' /\ WriterTears'
  BY <1>1 DEF AccountsInv, SessionsMatchAccounts, Exists, WriterTears
<1>4. DownIsEmpty'
  BY <1>1 DEF AccountsInv, DownIsEmpty
<1> QED
  BY <1>2, <1>3, <1>4 DEF AccountsInv

\* The end of one session keeps it.
LEMMA SessionEndKeepsInv ==
  ASSUME AccountsInv, NEW t \in Tokens, up,
         sessions' = [sessions EXCEPT ![t] = NoUser],
         opened' = [opened EXCEPT ![t] = "none"],
         UNCHANGED <<users, lock, file, settled, unsettled, up, touched, faults>>,
         req' \in [Callers -> Request], RequestsFit'
  PROVE  AccountsInv'
<1>1. TypeOK'
  BY DEF AccountsInv, TypeOK
<1>2. SessionsMatchAccounts'
  BY DEF AccountsInv, TypeOK, SessionsMatchAccounts, Exists
<1>3. DownIsEmpty' /\ WriterTears'
  BY DEF AccountsInv, DownIsEmpty, WriterTears
<1> QED
  BY <1>1, <1>2, <1>3 DEF AccountsInv

\* A login keeps it: the session starts with the password the account has.
LEMMA LoginKeepsInv ==
  ASSUME AccountsInv, NEW c \in Callers, NEW u \in Users, NEW t \in Tokens, up, Login(c, u, t)
  PROVE  AccountsInv'
<1>1. /\ TypeOK /\ RequestsFit /\ SessionsMatchAccounts /\ WriterTears /\ up'
      /\ UNCHANGED <<users, lock, file, settled, unsettled, up, req, touched, faults>>
  BY DEF AccountsInv, Login, Open
<1>2. users[u] \in Account /\ users[u] # NoAccount
  BY <1>1 DEF Login, Open, Exists, TypeOK, Database
<1>3. users[u].hash \in Hashes
  BY <1>2 DEF Account
<1>4. /\ sessions' = [sessions EXCEPT ![t] = u]
      /\ opened' = [opened EXCEPT ![t] = users[u].hash]
  BY DEF Login, Open
<1>5. TypeOK'
  BY <1>1, <1>3, <1>4 DEF TypeOK
<1>6. SessionsMatchAccounts'
  BY <1>1, <1>2, <1>4 DEF TypeOK, SessionsMatchAccounts, Exists
<1>7. RequestsFit' /\ DownIsEmpty' /\ WriterTears'
  BY <1>1 DEF RequestsFit, Fits, DownIsEmpty, WriterTears
<1> QED
  BY <1>5, <1>6, <1>7 DEF AccountsInv

\* An authenticated request keeps it.
LEMMA AuthenticateKeepsInv ==
  ASSUME AccountsInv, NEW c \in Callers, NEW kind \in Kinds, NEW t \in Tokens,
         NEW arg \in Users \cup {NoUser}, NEW id \in Ids \cup {NoId},
         kind \in Manage => arg \in Users,
         kind \in {"assign", "unassign", "device"} => id \in Ids,
         up, Authenticate(c, kind, t, arg, id)
  PROVE  AccountsInv'
<1> DEFINE u == sessions[t]
           token == IF kind \in {"logout", "password"} THEN t ELSE NoToken
           hash == IF kind = "password" THEN users[u].hash ELSE "none"
           devices == IF kind \in {"list", "device"} THEN users[u].devices ELSE {}
           new == [phase |-> "ready", kind |-> kind, user |-> u, token |-> token,
                   hash |-> hash, devices |-> devices, arg |-> arg, id |-> id]
<1>1. TypeOK /\ RequestsFit
  BY DEF AccountsInv
<1>2. u \in Users /\ users[u] \in Account
  BY <1>1 DEF TypeOK, Database, Authenticate, Live, Exists
<1>3. users[u].hash \in Hashes /\ users[u].devices \in SUBSET Ids
  BY <1>2 DEF Account
<1>4. new \in Request
  BY <1>2, <1>3 DEF Request, Phase
<1>5. req' = [req EXCEPT ![c] = new] /\ touched' = [touched EXCEPT ![c] = FALSE]
  BY DEF Authenticate
<1>6. c = "local" => u = Admin
  BY DEF Authenticate, Admits
<1>7. Fits(c, new)
  BY <1>2, <1>6 DEF Fits
<1> HIDE DEF new
<1>8. req' \in [Callers -> Request] /\ touched' \in [Callers -> BOOLEAN]
  BY <1>1, <1>4, <1>5 DEF TypeOK
<1>9. \A k \in Callers : Fits(k, req'[k])
  BY <1>1, <1>5, <1>7 DEF TypeOK, RequestsFit
<1>10. RequestsFit'
  BY <1>9 DEF RequestsFit, Fits
<1>11. UNCHANGED <<store, up, faults>>
  BY DEF Authenticate
<1> QED
  BY <1>8, <1>10, <1>11, RequestKeepsInv

\* Every step keeps it.
LEMMA AccountsStep == AccountsInv /\ [Next]_vars => AccountsInv'
<1> SUFFICES ASSUME AccountsInv, [Next]_vars PROVE AccountsInv'
  OBVIOUS
<1>1. TypeOK /\ RequestsFit /\ SessionsMatchAccounts /\ DownIsEmpty /\ WriterTears
  BY DEF AccountsInv
<1>2. req \in [Callers -> Request] /\ touched \in [Callers -> BOOLEAN]
      /\ "remote" \in Callers
  BY <1>1 DEF TypeOK, Callers
<1>3. ASSUME NEW c \in Callers, Receive(c) PROVE AccountsInv'
  <2>1. CASE \E t \in Tokens, u \in Users : Login(c, u, t)
    BY <1>3, <2>1, LoginKeepsInv DEF Receive
  <2>2. CASE \E t \in Tokens, kind \in Asked :
               \E arg \in IF kind \in Manage THEN Users ELSE {NoUser},
                  id \in IF kind \in {"assign", "unassign", "device"} THEN Ids ELSE {NoId} :
                 Authenticate(c, kind, t, arg, id)
    <3>1. PICK t \in Tokens, kind \in Asked :
            \E arg \in IF kind \in Manage THEN Users ELSE {NoUser},
               id \in IF kind \in {"assign", "unassign", "device"} THEN Ids ELSE {NoId} :
              Authenticate(c, kind, t, arg, id)
      BY <2>2
    <3>2. PICK arg \in IF kind \in Manage THEN Users ELSE {NoUser},
               id \in IF kind \in {"assign", "unassign", "device"} THEN Ids ELSE {NoId} :
            Authenticate(c, kind, t, arg, id)
      BY <3>1
    <3>3. /\ arg \in Users \cup {NoUser} /\ id \in Ids \cup {NoId}
          /\ kind \in Manage => arg \in Users
          /\ kind \in {"assign", "unassign", "device"} => id \in Ids
      OBVIOUS
    <3> QED
      BY AskedAssumption, <1>3, <3>2, <3>3, AuthenticateKeepsInv DEF Receive
  <2> QED
    BY <1>3, <2>1, <2>2 DEF Receive
<1>4. ASSUME NEW c \in Callers, Change(c) PROVE AccountsInv'
  BY <1>1, <1>4, ChangeChanges, ChangeKeepsInv
<1>5. ASSUME NEW c \in Callers, WriteFile(c) PROVE AccountsInv'
  <2>1. req' \in [Callers -> Request] /\ RequestsFit'
    BY <1>1, <1>2, <1>5, AnsweredKeepsRequests DEF WriteFile
  <2>2. faults' \in 0 .. MaxFaults
    BY <1>1, <1>5, AccountsAssumption DEF TypeOK, WriteFile, Fault
  <2>3. file' \in Database \cup {Missing, Torn} /\ lock' = Free
        /\ settled' \in Database \cup {Missing} /\ unsettled' \subseteq Database
    BY <1>1, <1>5 DEF TypeOK, WriteFile
  <2>4. UNCHANGED <<users, sessions, opened, up, touched>>
    BY <1>5 DEF WriteFile
  <2>5. TypeOK'
    BY <1>1, <2>1, <2>2, <2>3, <2>4 DEF TypeOK
  <2>6. SessionsMatchAccounts' /\ WriterTears'
    BY <1>1, <2>3, <2>4 DEF SessionsMatchAccounts, Exists, WriterTears
  <2>7. DownIsEmpty'
    BY <1>5, <2>4 DEF WriteFile, DownIsEmpty
  <2> QED
    BY <2>1, <2>5, <2>6, <2>7 DEF AccountsInv
<1>6. ASSUME NEW c \in Callers, Reauthenticate(c) \/ Answer(c) PROVE AccountsInv'
  <2>1. UNCHANGED <<store, up, faults, touched>>
    BY <1>6 DEF Reauthenticate, Answer
  <2>5. up
    BY <1>6 DEF Reauthenticate, Answer, At
  <2>2. Answered(c) \/ (To(c, "checked") /\ req[c].phase # "idle" /\ req[c].kind # "assign")
    BY <1>6 DEF Reauthenticate, Answer, At
  <2>3. req' \in [Callers -> Request] /\ RequestsFit'
    BY <1>1, <1>2, <2>2, AnsweredKeepsRequests, ToKeepsRequests DEF Phase
  <2> QED
    BY <1>2, <2>1, <2>3, <2>5, RequestKeepsInv
<1>7. ASSUME NEW c \in Callers, Logout(c) PROVE AccountsInv'
  <2>1. req' \in [Callers -> Request] /\ RequestsFit'
    BY <1>1, <1>2, <1>7, AnsweredKeepsRequests DEF Logout
  <2>2. Fits(c, req[c]) /\ up /\ req[c].phase # "idle" /\ req[c].kind = "logout"
    BY <1>1, <1>7 DEF Logout, At, RequestsFit
  <2>3. req[c].token \in Tokens
    BY <2>2 DEF Fits
  <2> QED
    BY <1>7, <2>1, <2>2, <2>3, SessionEndKeepsInv DEF Logout
<1>8. CASE CheckDevice \/ Forward \/ Executed \/ ListDevices
  <2>1. UNCHANGED <<store, up, faults, touched>>
    BY <1>8 DEF CheckDevice, Forward, Executed, ListDevices
  <2>4. up
    BY <1>8 DEF CheckDevice, Forward, Executed, ListDevices, MayManage, At
  <2>2. \/ Answered("remote")
        \/ /\ req["remote"].phase # "idle"
           /\ To("remote", "executing") \/ To("remote", "listed")
           /\ req["remote"].kind # "assign"
        \/ /\ req["remote"].phase # "idle" /\ req["remote"].user = Admin
           /\ To("remote", "checked")
    BY <1>8 DEF CheckDevice, Forward, Executed, ListDevices, MayManage, IsAdmin, At
  <2>3. req' \in [Callers -> Request] /\ RequestsFit'
    BY <1>1, <1>2, <2>2, AnsweredKeepsRequests, ToKeepsRequests DEF Phase
  <2> QED
    BY <1>2, <2>1, <2>3, <2>4, RequestKeepsInv
<1>9. CASE Resolve
  <2>1. UNCHANGED <<store, up, faults, touched>>
    BY <1>9 DEF Resolve
  <2>2. PICK current \in Connected :
          req' = [req EXCEPT !["remote"].phase = "resolved",
                             !["remote"].id = Resolved(req["remote"].id, current)]
    BY <1>9 DEF Resolve
  <2> DEFINE id == Resolved(req["remote"].id, current)
             new == [req["remote"] EXCEPT !.phase = "resolved", !.id = id]
  <2>3. /\ Fits("remote", req["remote"]) /\ req["remote"] \in Request
        /\ req["remote"].phase = "ready" /\ req["remote"].kind = "device"
    BY <1>1, <1>2, <1>9 DEF Resolve, At, RequestsFit
  <2>4. req["remote"].id \in Ids /\ current \in Seq(Ids)
    <3>1. req["remote"].id \in Ids
      BY <2>3 DEF Fits
    <3>2. <<>> \in Seq(Ids)
      OBVIOUS
    <3>3. current \in Seq(Ids)
      BY <3>2, AccountsAssumption DEF Connected
    <3> QED
      BY <3>1, <3>3
  <2>5. id \in Ids
    BY <2>4, RedirectionKeepsDevice
  <2> HIDE DEF id
  <2>6. new \in Request
    BY <2>3, <2>5 DEF Request, Phase
  <2>7. /\ new.user = req["remote"].user /\ new.kind = "device" /\ new.id = id
        /\ new.arg = req["remote"].arg /\ new.phase = "resolved"
    BY <2>3, <2>5 DEF Request
  <2>8. req' = [req EXCEPT !["remote"] = new]
    BY <1>2, <2>2 DEF id
  <2> HIDE DEF new
  <2>9. Fits("remote", new)
    BY <2>3, <2>5, <2>7 DEF Fits, Manage
  <2>10. req' \in [Callers -> Request]
    BY <1>2, <2>6, <2>8
  <2>11. \A k \in Callers : Fits(k, req'[k])
    BY <1>1, <1>2, <2>8, <2>9 DEF RequestsFit
  <2>12. RequestsFit'
    BY <2>11 DEF RequestsFit, Fits
  <2> QED
    BY <1>2, <1>9, <2>1, <2>10, <2>12, RequestKeepsInv DEF Resolve, At
<1>10. ASSUME NEW t \in Tokens, Expire(t) PROVE AccountsInv'
  <2>1. req' \in [Callers -> Request] /\ RequestsFit'
    BY <1>1, <1>2, <1>10 DEF Expire, RequestsFit, Fits
  <2> QED
    BY <1>10, <2>1, SessionEndKeepsInv DEF Expire
<1>11. CASE Start \/ FirstStart
  <2>1. UNCHANGED <<sessions, opened, lock, req, touched>> /\ ~up
        /\ sessions = [t \in Tokens |-> NoUser] /\ lock = Free
    BY <1>1, <1>11 DEF Start, Valid, FirstStart, DownIsEmpty, WriterTears
  <2>2. Initial \in Database
    BY AccountsAssumption, AccountWith DEF Initial, Database
  <2>3. users' \in Database
    BY <1>1, <1>11, <2>2 DEF TypeOK, Start, Valid, FirstStart
  <2>4. file' \in Database \cup {Missing, Torn} /\ up' \in BOOLEAN
    BY <1>1, <1>11, <2>2 DEF TypeOK, Start, Valid, FirstStart
  <2>5. faults' \in 0 .. MaxFaults
    BY <1>1, <1>11, AccountsAssumption DEF TypeOK, Start, Valid, FirstStart, Fault
  <2>10. settled' \in Database \cup {Missing} /\ unsettled' \subseteq Database
    BY <1>1, <1>11, <2>2 DEF TypeOK, Start, Valid, FirstStart
  <2>6. TypeOK'
    BY <1>1, <2>1, <2>3, <2>4, <2>5, <2>10 DEF TypeOK
  <2>7. RequestsFit'
    BY <1>1, <2>1 DEF RequestsFit, Fits
  <2>8. SessionsMatchAccounts' /\ WriterTears'
    BY <2>1 DEF SessionsMatchAccounts, WriterTears
  <2>9. DownIsEmpty'
    BY <1>1, <1>11, <2>1 DEF Start, Valid, FirstStart, DownIsEmpty
  <2> QED
    BY <2>6, <2>7, <2>8, <2>9 DEF AccountsInv
<1>12. CASE Crash
  <2>1. users' \in Database
    BY <1>12 DEF Crash, Database
  <2>2. /\ sessions' = [t \in Tokens |-> NoUser] /\ opened' = [t \in Tokens |-> "none"]
        /\ lock' = Free /\ up' = FALSE /\ UNCHANGED <<settled, unsettled>>
        /\ touched' = [k \in Callers |-> FALSE] /\ file' = file
        /\ users' = [u \in Users |-> NoAccount] /\ req' = [k \in Callers |-> Idle]
    BY <1>12 DEF Crash
  <2>3. faults' \in 0 .. MaxFaults
    BY <1>1, <1>12, AccountsAssumption DEF TypeOK, Crash, Fault
  <2>4. sessions' \in [Tokens -> Users \cup {NoUser}] /\ opened' \in [Tokens -> Hashes \cup {"none"}]
        /\ touched' \in [Callers -> BOOLEAN]
    BY <2>2
  <2>5. req' \in [Callers -> Request] /\ RequestsFit'
    BY <2>2, IdleRequest DEF RequestsFit, Fits
  <2>6. TypeOK'
    BY <1>1, <2>1, <2>2, <2>3, <2>4, <2>5 DEF TypeOK
  <2>7. SessionsMatchAccounts' /\ DownIsEmpty' /\ WriterTears'
    BY <2>2, IdleRequest DEF SessionsMatchAccounts, DownIsEmpty, WriterTears
  <2> QED
    BY <2>5, <2>6, <2>7 DEF AccountsInv
<1>13. CASE UNCHANGED vars \/ RefuseStart
  <2>1. UNCHANGED <<users, sessions, opened, lock, file, settled, unsettled, up, req, touched, faults>>
    BY <1>13 DEF vars, RefuseStart
  <2>2. RequestsFit'
    BY <1>1, <2>1 DEF RequestsFit, Fits
  <2> QED
    BY <1>2, <2>1, <2>2, RequestKeepsInv DEF store
<1> QED
  BY <1>3, <1>4, <1>5, <1>6, <1>7, <1>8, <1>9, <1>10, <1>11, <1>12, <1>13 DEF Next

\* Every state of Core's account store and its two threads is well typed, for all
\* accounts, tokens, ids and faults (remote/auth.rs, remote/service.rs).
THEOREM AccountsTypeCorrect == Spec => []TypeOK
<1>1. AccountsInv => TypeOK
  BY DEF AccountsInv
<1> QED
  BY <1>1, AccountsInit, AccountsStep, PTL DEF Spec

\* A live session is of an account that exists and whose password is the one its login
\* verified (README.md:104), whatever the two threads do and however often Core dies.
THEOREM SessionsAlwaysMatch == Spec => []SessionsMatchAccounts
<1>1. AccountsInv => SessionsMatchAccounts
  BY DEF AccountsInv
<1> QED
  BY <1>1, AccountsInit, AccountsStep, PTL DEF Spec

-----------------------------------------------------------------------------
(* The accounts on disk *)

\* What a start brings back is what was acknowledged last until another change is begun,
\* then what that change left, or nothing when its write did not end (persist_database,
\* load_or_initialize): for every number of crashes and storage errors.
THEOREM FileAlwaysKeepsUp == Spec => []FileKeepsUp
<1>1. Init => FileKeepsUp
  BY AccountsAssumption DEF Init, FileKeepsUp
<1>2. AccountsInv /\ FileKeepsUp /\ [Next]_vars => FileKeepsUp'
  <2> SUFFICES ASSUME AccountsInv, FileKeepsUp, [Next]_vars PROVE FileKeepsUp'
    OBVIOUS
  <2>1. TypeOK /\ RequestsFit /\ WriterTears /\ DownIsEmpty
    BY DEF AccountsInv
  <2>2. CASE UNCHANGED <<users, file, settled, unsettled, up>>
    BY <2>2 DEF FileKeepsUp
  <2>3. ASSUME NEW c \in Callers, Change(c) PROVE FileKeepsUp'
    <3>1. Persist(c) /\ up' = up
      BY <2>1, <2>3, ChangeChanges DEF Changes, Update
    <3> QED
      BY <3>1 DEF Persist, FileKeepsUp
  <2>4. ASSUME NEW c \in Callers, WriteFile(c) PROVE FileKeepsUp'
    <3>1. file = Torn /\ up /\ unsettled # {}
      BY <2>1, <2>4, AccountsAssumption DEF WriteFile, WriterTears, FileKeepsUp
    <3>2. CASE file' = users /\ settled' = users /\ unsettled' = {}
      BY <2>1, <2>4, <3>2, FileAssumption DEF WriteFile, FileKeepsUp, TypeOK
    <3>3. CASE file' \in {users, Torn} /\ UNCHANGED <<settled, unsettled>>
      BY <2>4, <3>1, <3>3 DEF WriteFile, FileKeepsUp
    <3> QED
      BY <2>4, <3>2, <3>3 DEF WriteFile
  <2>5. CASE Start
    BY <2>5, FileAssumption DEF Start, Valid, FileKeepsUp
  <2>6. CASE FirstStart
    <3>1. Initial \in Database
      BY AccountsAssumption, AccountWith DEF Initial, Database
    <3>2. Initial # Torn
      BY <3>1, FileAssumption
    <3> QED
      BY <2>6, <3>2 DEF FirstStart, FileKeepsUp
  <2>7. CASE Crash
    BY <2>7 DEF Crash, FileKeepsUp
  <2>8. ASSUME NEW c \in Callers, Receive(c) \/ Reauthenticate(c) \/ Logout(c) \/ Answer(c)
        PROVE  UNCHANGED <<users, file, settled, unsettled, up>>
    BY <2>8 DEF Receive, Login, Open, Authenticate, Reauthenticate, Logout, Answer, store
  <2>9. ASSUME CheckDevice \/ Resolve \/ Forward \/ Executed \/ ListDevices \/ RefuseStart
               \/ (\E t \in Tokens : Expire(t))
        PROVE  UNCHANGED <<users, file, settled, unsettled, up>>
    BY <2>9 DEF CheckDevice, Resolve, Forward, Executed, ListDevices, RefuseStart, Expire,
                store, vars
  <2>10. CASE UNCHANGED vars
    BY <2>2, <2>10 DEF vars
  <2> QED
    BY <2>2, <2>3, <2>4, <2>5, <2>6, <2>7, <2>8, <2>9, <2>10 DEF Next
<1> QED
  BY <1>1, <1>2, AccountsInit, AccountsStep, PTL DEF Spec

-----------------------------------------------------------------------------
(* Who changes an account *)

\* Besides a change of an account, a start and a crash no step touches the accounts.
LEMMA OthersKeepAccounts ==
  ASSUME [Next]_vars, up, up', ~ \E c \in Callers : Change(c)
  PROVE  users' = users
<1>1. CASE UNCHANGED vars \/ RefuseStart
  BY <1>1 DEF vars, RefuseStart
<1>2. CASE Start \/ FirstStart \/ Crash
  BY <1>2 DEF Start, Valid, FirstStart, Crash
<1>3. CASE \E c \in Callers : Receive(c) \/ WriteFile(c) \/ Reauthenticate(c) \/ Logout(c) \/ Answer(c)
  BY <1>3 DEF Receive, Login, Open, Authenticate, WriteFile, Reauthenticate, Logout, Answer, store
<1>4. CASE CheckDevice \/ Resolve \/ Forward \/ Executed \/ ListDevices
           \/ (\E t \in Tokens : Expire(t))
  BY <1>4 DEF CheckDevice, Resolve, Forward, Executed, ListDevices, Expire, store
<1> QED
  BY <1>1, <1>2, <1>3, <1>4 DEF Next

\* While Core runs an account changes only by a management request of the administrator
\* or by its owner's request that proves its present password (require_admin,
\* change_own_password).
THEOREM OnlyOwnersAndAdmin == Spec => OnlyOwnersAndAdminChange
<1> DEFINE Only ==
      \A u \in Users : up /\ up' /\ users'[u] # users[u] =>
        \E c \in Callers : /\ req[c].phase \in {"ready", "checked"} /\ req'[c] # req[c]
                           /\ IF req[c].kind = "password"
                              THEN req[c].user = u /\ req[c].hash = users[u].hash
                              ELSE req[c].kind \in Manage /\ IsAdmin(c)
<1>1. AccountsInv /\ [Next]_vars => [Only]_vars
  <2> SUFFICES ASSUME AccountsInv, [Next]_vars,
                      NEW v \in Users, up, up', users'[v] # users[v]
               PROVE  \E c \in Callers :
                        /\ req[c].phase \in {"ready", "checked"} /\ req'[c] # req[c]
                        /\ IF req[c].kind = "password"
                           THEN req[c].user = v /\ req[c].hash = users[v].hash
                           ELSE req[c].kind \in Manage /\ IsAdmin(c)
    OBVIOUS
  <2>1. TypeOK /\ RequestsFit
    BY DEF AccountsInv
  <2>2. PICK c \in Callers : Change(c)
    BY OthersKeepAccounts
  <2>3. PICK u \in Users, a \in Account \cup {NoAccount}, ends \in BOOLEAN : Changes(c, u, a, ends)
    BY <2>1, <2>2, ChangeChanges
  <2>4. u = v /\ Persist(c) /\ Justified(c, v)
    BY <2>1, <2>3 DEF Changes, Update, TypeOK, Database
  <2>5. req[c].phase \in {"ready", "checked"}
    BY <2>4 DEF Justified
  <2>6. req'[c].phase \in {"idle", "writing"}
    <3>1. CASE Answered(c)
      BY <2>1, <3>1, IdleRequest DEF TypeOK, Answered
    <3>2. CASE To(c, "writing")
      BY <2>1, <3>2, RequestAt DEF TypeOK, To, Phase
    <3> QED
      BY <2>4, <3>1, <3>2 DEF Persist
  <2>7. req'[c] # req[c]
    BY <2>5, <2>6
  <2> QED
    BY <2>4, <2>5, <2>7 DEF Justified
<1> QED
  BY <1>1, AccountsInit, AccountsStep, PTL DEF Spec, OnlyOwnersAndAdminChange

-----------------------------------------------------------------------------
(* Commands of remote users *)

(* Until the account of a device request is touched, the request knows the  *)
(* devices the account has, and no password change is due.                  *)
KnowsAccount(r) ==
  r.phase # "idle" /\ r.kind = "device" /\ r.user # Admin /\ ~touched["remote"] =>
    users[r.user].devices = r.devices /\ ~users[r.user].required

(* What is executed was authorised with the devices of the request.         *)
Authorised(r) ==
  r.phase = "executing" =>
    r.kind = "device" /\ (r.user # Admin => session_can_access_device(r.devices, r.id))

CommandsInv == KnowsAccount(req["remote"]) /\ Authorised(req["remote"])

\* The steps of the remote request keep it.
LEMMA RemoteKeepsCommands ==
  ASSUME AccountsInv, CommandsInv, UNCHANGED <<store, touched>>,
         \/ Answered("remote")
         \/ /\ req["remote"].phase # "idle"
            /\ To("remote", "checked") \/ To("remote", "listed") \/ To("remote", "writing")
         \/ Forward
         \/ Resolve
  PROVE  CommandsInv'
<1>1. /\ req \in [Callers -> Request] /\ RequestsFit /\ "remote" \in Callers
      /\ users' = users /\ touched' = touched
  BY DEF AccountsInv, TypeOK, Callers, store
<1>2. CASE Answered("remote")
  <2>1. req'["remote"].phase = "idle"
    BY <1>1, <1>2, IdleRequest DEF Answered
  <2> QED
    BY <2>1 DEF CommandsInv, KnowsAccount, Authorised
<1>3. ASSUME NEW p \in Phase, req["remote"].phase # "idle", To("remote", p),
             p = "executing" => Authorised([req["remote"] EXCEPT !.phase = p])
      PROVE  CommandsInv'
  <2>1. req'["remote"] = [req["remote"] EXCEPT !.phase = p]
    BY <1>1, <1>3 DEF To
  <2>2. /\ req'["remote"].phase = p
        /\ req'["remote"].kind = req["remote"].kind /\ req'["remote"].user = req["remote"].user
        /\ req'["remote"].devices = req["remote"].devices
    BY <1>1, <2>1, RequestAt
  <2>3. KnowsAccount(req["remote"])'
    BY <1>1, <1>3, <2>2 DEF CommandsInv, KnowsAccount
  <2>4. Authorised(req["remote"])'
    BY <1>3, <2>1, <2>2 DEF Authorised
  <2> QED
    BY <2>3, <2>4 DEF CommandsInv
<1>4. CASE /\ req["remote"].phase # "idle"
           /\ To("remote", "checked") \/ To("remote", "listed") \/ To("remote", "writing")
  BY <1>3, <1>4 DEF Phase
<1>5. CASE Forward
  <2> DEFINE new == [req["remote"] EXCEPT !.phase = "executing"]
  <2>1. To("remote", "executing") /\ req["remote"].phase # "idle" /\ req["remote"].kind = "device"
        /\ (req["remote"].user # Admin =>
              session_can_access_device(req["remote"].devices, req["remote"].id))
    BY <1>5 DEF Forward, At, IsAdmin
  <2>2. /\ new.kind = req["remote"].kind /\ new.user = req["remote"].user
        /\ new.devices = req["remote"].devices /\ new.id = req["remote"].id
    BY <1>1, RequestAt DEF Phase
  <2>3. Authorised(new)
    BY <2>1, <2>2 DEF Authorised
  <2> QED
    BY <1>3, <2>1, <2>3 DEF Phase
<1>6. CASE Resolve
  <2>1. PICK current \in Connected :
          req' = [req EXCEPT !["remote"].phase = "resolved",
                             !["remote"].id = Resolved(req["remote"].id, current)]
    BY <1>6 DEF Resolve
  <2>2. req["remote"].phase # "idle" /\ req["remote"].kind = "device"
    BY <1>6 DEF Resolve, At
  <2>3. /\ req'["remote"].phase = "resolved"
        /\ req'["remote"].kind = req["remote"].kind /\ req'["remote"].user = req["remote"].user
        /\ req'["remote"].devices = req["remote"].devices
    BY <1>1, <2>1 DEF Request
  <2>4. KnowsAccount(req["remote"])'
    BY <1>1, <2>2, <2>3 DEF CommandsInv, KnowsAccount
  <2>5. Authorised(req["remote"])'
    BY <2>3 DEF Authorised
  <2> QED
    BY <2>4, <2>5 DEF CommandsInv
<1> QED
  BY <1>2, <1>4, <1>5, <1>6

\* A change of an account keeps it: the request of that account counts as touched.
LEMMA ChangeKeepsCommands ==
  ASSUME AccountsInv, CommandsInv, NEW c \in Callers, NEW u \in Users,
         NEW a \in Account \cup {NoAccount}, NEW ends \in BOOLEAN, Changes(c, u, a, ends)
  PROVE  CommandsInv'
<1>1. /\ req \in [Callers -> Request] /\ users \in Database /\ RequestsFit
      /\ "remote" \in Callers /\ touched \in [Callers -> BOOLEAN]
  BY DEF AccountsInv, TypeOK, Callers
<1>2. /\ users' = [users EXCEPT ![u] = a]
      /\ touched' = [k \in Callers |-> touched[k] \/ (req[k].user = u /\ req[k].kind = "device")]
      /\ Answered(c) \/ To(c, "writing")
      /\ req[c].phase \in {"ready", "checked"} /\ req[c].kind # "device"
  BY DEF Changes, Update, Persist, Justified, Manage
<1>3. CASE c = "remote"
  <2>1. req'["remote"].phase = "idle" \/ (req'["remote"].phase = "writing" /\ req'["remote"].kind # "device")
    <3>1. CASE Answered("remote")
      BY <1>1, <3>1, IdleRequest DEF Answered
    <3>2. CASE To("remote", "writing")
      <4>1. req'["remote"] = [req["remote"] EXCEPT !.phase = "writing"]
        BY <1>1, <3>2 DEF To
      <4>2. /\ req'["remote"].phase = "writing"
            /\ req'["remote"].kind = req["remote"].kind
        BY <1>1, <4>1, RequestAt DEF Phase
      <4> QED
        BY <1>2, <1>3, <4>2
    <3> QED
      BY <1>2, <1>3, <3>1, <3>2
  <2> QED
    BY <2>1 DEF CommandsInv, KnowsAccount, Authorised
<1>4. CASE c # "remote"
  <2>1. req'["remote"] = req["remote"]
    BY <1>1, <1>2, <1>4 DEF Answered, To
  <2>2. KnowsAccount(req["remote"])'
    <3> SUFFICES ASSUME req["remote"].phase # "idle", req["remote"].kind = "device",
                        req["remote"].user # Admin, ~touched'["remote"]
                 PROVE  /\ users'[req["remote"].user].devices = req["remote"].devices
                        /\ ~users'[req["remote"].user].required
      BY <2>1 DEF KnowsAccount
    <3>1. ~touched["remote"] /\ req["remote"].user # u
      BY <1>1, <1>2
    <3>2. users'[req["remote"].user] = users[req["remote"].user]
      BY <1>1, <1>2, <3>1 DEF Database
    <3> QED
      BY <3>1, <3>2 DEF CommandsInv, KnowsAccount
  <2>3. Authorised(req["remote"])'
    BY <2>1 DEF CommandsInv, Authorised
  <2> QED
    BY <2>2, <2>3 DEF CommandsInv
<1> QED
  BY <1>3, <1>4

\* So do all other steps.
LEMMA CommandsStep == AccountsInv /\ CommandsInv /\ [Next]_vars => CommandsInv'
<1> SUFFICES ASSUME AccountsInv, CommandsInv, [Next]_vars PROVE CommandsInv'
  OBVIOUS
<1>1. /\ TypeOK /\ RequestsFit /\ "remote" \in Callers
      /\ req \in [Callers -> Request] /\ touched \in [Callers -> BOOLEAN]
  BY DEF AccountsInv, TypeOK, Callers
<1>2. ASSUME users' = users, touched' = touched, req'["remote"] = req["remote"]
      PROVE  CommandsInv'
  BY <1>2 DEF CommandsInv, KnowsAccount, Authorised
<1>3. ASSUME req'["remote"].phase = "idle" PROVE CommandsInv'
  BY <1>3 DEF CommandsInv, KnowsAccount, Authorised
<1>4. ASSUME NEW c \in Callers, Receive(c) PROVE CommandsInv'
  <2>1. CASE \E t \in Tokens, u \in Users : Login(c, u, t)
    BY <1>2, <2>1 DEF Login, Open
  <2>2. ASSUME NEW t \in Tokens, NEW kind \in Asked, NEW arg, NEW id,
               Authenticate(c, kind, t, arg, id)
        PROVE  CommandsInv'
    <3>1. CASE c # "remote"
      <4>1. req'["remote"] = req["remote"] /\ touched'["remote"] = touched["remote"] /\ users' = users
        BY <1>1, <2>2, <3>1 DEF Authenticate, store
      <4> QED
        BY <4>1 DEF CommandsInv, KnowsAccount, Authorised
    <3>2. CASE c = "remote"
      <4>1. req'["remote"] =
              [phase |-> "ready", kind |-> kind, user |-> sessions[t],
               token |-> IF kind \in {"logout", "password"} THEN t ELSE NoToken,
               hash |-> IF kind = "password" THEN users[sessions[t]].hash ELSE "none",
               devices |-> IF kind \in {"list", "device"} THEN users[sessions[t]].devices ELSE {},
               arg |-> arg, id |-> id]
        BY <1>1, <2>2, <3>2 DEF Authenticate
      <4>2. /\ req'["remote"].phase = "ready" /\ req'["remote"].kind = kind
            /\ req'["remote"].user = sessions[t]
            /\ req'["remote"].devices =
                 IF kind \in {"list", "device"} THEN users[sessions[t]].devices ELSE {}
        BY <4>1
      <4>3. users' = users /\ (users[sessions[t]].required => kind \in {"logout", "password"})
        BY <2>2 DEF Authenticate, store
      <4>4. KnowsAccount(req["remote"])'
        BY <4>2, <4>3 DEF KnowsAccount
      <4> QED
        BY <4>2, <4>4 DEF CommandsInv, Authorised
    <3> QED
      BY <3>1, <3>2
  <2> QED
    BY <1>4, <2>1, <2>2 DEF Receive
<1>5. ASSUME NEW c \in Callers, Change(c) PROVE CommandsInv'
  BY <1>1, <1>5, ChangeChanges, ChangeKeepsCommands
<1>6. ASSUME NEW c \in Callers,
             WriteFile(c) \/ Reauthenticate(c) \/ Logout(c) \/ Answer(c)
      PROVE  CommandsInv'
  <2>1. users' = users /\ touched' = touched
    BY <1>6 DEF WriteFile, Reauthenticate, Logout, Answer, store
  <2>2. Answered(c) \/ (c = "local" /\ To(c, "checked"))
    BY <1>6 DEF WriteFile, Reauthenticate, Logout, Answer
  <2>3. CASE c = "remote"
    <3>1. req'["remote"] = Idle
      BY <1>1, <2>2, <2>3 DEF Answered
    <3> QED
      BY <1>3, <3>1, IdleRequest
  <2>4. CASE c # "remote"
    <3>1. req'["remote"] = req["remote"]
      BY <1>1, <2>2, <2>4 DEF Answered, To
    <3> QED
      BY <1>2, <2>1, <3>1
  <2> QED
    BY <2>3, <2>4
<1>7. CASE CheckDevice \/ Resolve \/ Forward \/ Executed \/ ListDevices
  <2>1. UNCHANGED <<store, touched>>
    BY <1>7 DEF CheckDevice, Resolve, Forward, Executed, ListDevices
  <2>2. \/ Answered("remote")
        \/ /\ req["remote"].phase # "idle"
           /\ To("remote", "checked") \/ To("remote", "listed") \/ To("remote", "writing")
        \/ Forward
        \/ Resolve
    BY <1>7 DEF CheckDevice, Executed, ListDevices, MayManage, At
  <2> QED
    BY <2>1, <2>2, RemoteKeepsCommands
<1>8. CASE \E t \in Tokens : Expire(t)
  BY <1>2, <1>8 DEF Expire
<1>9. CASE Start \/ FirstStart
  <2>1. req' = req /\ touched' = touched /\ ~up
    BY <1>9 DEF Start, Valid, FirstStart
  <2>2. req["remote"].phase = "idle"
    BY <1>1, <2>1 DEF AccountsInv, DownIsEmpty
  <2> QED
    BY <1>3, <2>1, <2>2
<1>10. CASE Crash
  <2>1. req'["remote"] = Idle
    BY <1>1, <1>10 DEF Crash
  <2> QED
    BY <1>3, <2>1, IdleRequest
<1>11. CASE UNCHANGED vars \/ RefuseStart
  BY <1>2, <1>11 DEF vars, RefuseStart
<1> QED
  BY <1>4, <1>5, <1>6, <1>7, <1>8, <1>9, <1>10, <1>11 DEF Next

\* A remote user's command runs on a phone assigned to the account when the request was
\* authenticated and, unless the account was changed since, on one that still is, under
\* any id the redirection found (handle_request, authorize_user_core_request).
THEOREM CommandsAlwaysAssigned == Spec => []CommandsAreAssigned
<1>1. Init => CommandsInv
  <2> SUFFICES ASSUME Init PROVE req["remote"].phase = "idle"
    BY DEF CommandsInv, KnowsAccount, Authorised
  <2> QED
    BY IdleRequest DEF Init, Callers
<1>2. CommandsInv => CommandsAreAssigned
  BY DEF CommandsInv, KnowsAccount, Authorised, CommandsAreAssigned
<1> QED
  BY <1>1, <1>2, AccountsInit, AccountsStep, CommandsStep, PTL DEF Spec

-----------------------------------------------------------------------------
(* Device lists of remote users *)

(* The list that is about to be answered is the one the loop builds from    *)
(* the devices of the request, the registry and the ids adb listed then.    *)
Merged(r) ==
  \E registered \in Registered, current \in Connected :
    cards = [current |-> current, registered |-> registered,
             cards |-> reconcile_remote_device_list(r.devices, registered, current)]

CardsInv == req["remote"].phase = "listed" => Merged(req["remote"])

\* The administrator's steps leave the list alone; the remote thread's replace it or
\* answer it.
LEMMA CardsStep == AccountsInv /\ CardsInv /\ [Next]_vars => CardsInv'
<1> SUFFICES ASSUME AccountsInv, CardsInv, [Next]_vars PROVE CardsInv'
  OBVIOUS
<1>1. TypeOK /\ req \in [Callers -> Request] /\ RequestsFit /\ "remote" \in Callers
  BY DEF AccountsInv, TypeOK, Callers
<1>2. ASSUME cards' = cards, req'["remote"] = req["remote"] PROVE CardsInv'
  BY <1>2 DEF CardsInv, Merged
<1>3. ASSUME req'["remote"].phase # "listed" PROVE CardsInv'
  BY <1>3 DEF CardsInv
<1>4. ASSUME NEW p \in Phase, p # "listed", To("remote", p) PROVE CardsInv'
  <2>1. req'["remote"] = [req["remote"] EXCEPT !.phase = p]
    BY <1>1, <1>4 DEF To
  <2>2. req'["remote"].phase = p
    BY <1>1, <2>1, RequestAt
  <2> QED
    BY <1>3, <1>4, <2>2
<1>5. ASSUME Answered("remote") PROVE CardsInv'
  BY <1>1, <1>3, <1>5, IdleRequest DEF Answered
<1>6. ASSUME NEW c \in Callers, Receive(c) PROVE CardsInv'
  <2>1. CASE \E t \in Tokens, u \in Users : Login(c, u, t)
    BY <1>2, <2>1 DEF Login
  <2>2. ASSUME NEW t \in Tokens, NEW kind \in Asked, NEW arg, NEW id,
               Authenticate(c, kind, t, arg, id)
        PROVE  CardsInv'
    <3>1. CASE c # "remote"
      BY <1>1, <1>2, <2>2, <3>1 DEF Authenticate
    <3>2. CASE c = "remote"
      <4>1. req'["remote"].phase = "ready"
        BY <1>1, <2>2, <3>2 DEF Authenticate
      <4> QED
        BY <1>3, <4>1
    <3> QED
      BY <3>1, <3>2
  <2> QED
    BY <1>6, <2>1, <2>2 DEF Receive
<1>7. ASSUME NEW c \in Callers,
             Change(c) \/ WriteFile(c) \/ Reauthenticate(c) \/ Logout(c) \/ Answer(c)
      PROVE  CardsInv'
  <2>1. Answered(c) \/ To(c, "writing") \/ To(c, "checked")
    <3>1. CASE Change(c)
      <4>1. PICK u \in Users, a \in Account \cup {NoAccount}, ends \in BOOLEAN : Changes(c, u, a, ends)
        BY <1>1, <3>1, ChangeChanges
      <4> QED
        BY <4>1 DEF Changes, Update, Persist
    <3>2. CASE WriteFile(c) \/ Reauthenticate(c) \/ Logout(c) \/ Answer(c)
      BY <3>2 DEF WriteFile, Reauthenticate, Logout, Answer
    <3> QED
      BY <1>7, <3>1, <3>2
  <2>2. CASE c = "remote"
    BY <1>4, <1>5, <2>1, <2>2 DEF Phase
  <2>3. CASE c # "remote"
    <3>1. req'["remote"] = req["remote"]
      BY <1>1, <2>1, <2>3 DEF Answered, To
    <3>2. cards' = cards
      <4>1. CASE Change(c)
        BY <4>1 DEF Change, CreateUser, DeleteUser, ResetPassword, ChangeOwnPassword,
                    AssignDevice, UnassignDevice, Update
      <4>2. CASE WriteFile(c) \/ Reauthenticate(c) \/ Logout(c) \/ Answer(c)
        BY <2>3, <4>2 DEF WriteFile, Reauthenticate, Logout, Answer
      <4> QED
        BY <1>7, <4>1, <4>2
    <3> QED
      BY <1>2, <3>1, <3>2
  <2> QED
    BY <2>2, <2>3
<1>8. CASE CheckDevice \/ Forward \/ Executed
  BY <1>4, <1>5, <1>8 DEF CheckDevice, Forward, Executed, Phase
<1>9. CASE Resolve
  <2>1. req'["remote"].phase = "resolved"
    BY <1>1, <1>9 DEF Resolve, Request
  <2> QED
    BY <1>3, <2>1
<1>10. CASE ListDevices
  <2>1. /\ To("remote", "listed")
        /\ \E registered \in Registered, current \in Connected :
             cards' = [current |-> current, registered |-> registered,
               cards |-> reconcile_remote_device_list(req["remote"].devices, registered, current)]
    BY <1>10 DEF ListDevices
  <2>2. req'["remote"].devices = req["remote"].devices
    BY <1>1, <2>1, RequestAt DEF To, Phase
  <2> QED
    BY <2>1, <2>2 DEF CardsInv, Merged
<1>11. CASE \E t \in Tokens : Expire(t)
  BY <1>2, <1>11 DEF Expire
<1>12. CASE Start \/ FirstStart
  BY <1>2, <1>12 DEF Start, FirstStart
<1>13. CASE Crash
  BY <1>1, <1>3, <1>13, IdleRequest DEF Crash
<1>14. CASE UNCHANGED vars \/ RefuseStart
  BY <1>2, <1>14 DEF vars, RefuseStart
<1> QED
  BY <1>6, <1>7, <1>8, <1>9, <1>10, <1>11, <1>12, <1>13, <1>14 DEF Next

\* The device list of a remote user has one card for each assigned phone adb lists, however
\* many ids name it, and none of another account's phone; each card has the id and the
\* state adb and the registry gave its phone (handle_request, reconcile_remote_device_list).
THEOREM CardsAlwaysAssigned == Spec => []CardsAreTheAssignedPhones
<1>1. Init => CardsInv
  BY IdleRequest DEF Init, CardsInv, Callers
<1>2. AccountsInv /\ CardsInv => CardsAreTheAssignedPhones
  <2> SUFFICES ASSUME AccountsInv, CardsInv, req["remote"].phase = "listed"
               PROVE  CardsAreTheAssignedPhones
    BY DEF CardsAreTheAssignedPhones
  <2>1. PICK registered \in Registered, current \in Connected :
          cards = [current |-> current, registered |-> registered, cards |->
                     reconcile_remote_device_list(req["remote"].devices, registered, current)]
    BY DEF CardsInv, Merged
  <2>2. req["remote"] \in Request
    BY DEF AccountsInv, TypeOK, Callers
  <2>3. req["remote"].devices \in SUBSET Ids
    BY <2>2 DEF Request
  <2>4. registered \in Seq(Entry) /\ current \in Seq(Ids)
    <3>1. Registered \subseteq Seq(Entry) /\ AdbLists \subseteq Seq(Ids)
      BY AccountsAssumption
    <3>2. <<>> \in Seq(Ids)
      OBVIOUS
    <3>3. Connected \subseteq Seq(Ids)
      BY <3>1, <3>2, Zenon DEF Connected
    <3> QED
      BY <3>1, <3>3, Zenon
  <2>5. OneCardEach(cards.cards, req["remote"].devices, cards.registered, cards.current)
    <3>1. /\ cards.cards = reconcile_remote_device_list(req["remote"].devices, registered, current)
          /\ cards.registered = registered /\ cards.current = current
      BY <2>1
    <3> QED
      BY <2>3, <2>4, <3>1, ListHasOneCardEach
  <2> DEFINE cs == cards.cards
             D == req["remote"].devices
  <2>6. ASSUME NEW a \in D, NEW c \in ToSet(cards.current), same_remote_device_identity(a, c)
        PROVE  \E k \in DOMAIN cs : cs[k].id \in ToSet(cards.current)
                                     /\ same_remote_device_identity(a, cs[k].id)
    <3>1. PICK k \in DOMAIN cs : same_remote_device_identity(a, cs[k].id)
      BY <2>5 DEF OneCardEach
    <3>2. cs[k].id \in Ids
      <4>1. cs \in Seq(CardRecord)
        BY <2>5 DEF OneCardEach
      <4>2. cs[k] \in CardRecord
        BY <3>1, <4>1
      <4> QED
        BY <4>2 DEF CardRecord
    <3>3. a \in Ids /\ c \in Ids
      <4>1. ToSet(current) \subseteq Ids
        BY <2>4 DEF ToSet
      <4> QED
        BY <2>1, <2>3, <4>1
    <3>4. same_remote_device_identity(c, cs[k].id)
      BY <2>6, <3>1, <3>2, <3>3, IdentityIsEquivalence
    <3>5. CardIsRight(cs[k], cards.registered, cards.current)
      BY <2>5, <3>1 DEF OneCardEach
    <3>6. cs[k].id \in ToSet(cards.current)
      BY <2>6, <3>4, <3>5 DEF CardIsRight
    <3> QED
      BY <3>1, <3>6
  <2> QED
    BY <2>5, <2>6 DEF OneCardEach, CardIsRight, CardsAreTheAssignedPhones
<1> QED
  BY <1>1, <1>2, AccountsInit, AccountsStep, CardsStep, PTL DEF Spec

-----------------------------------------------------------------------------
(* The promise *)

\* Each step of the module is a step of AccountPromise, or none.
LEMMA PromiseInit == Init => Promise!Init
BY DEF Init, Promise!Init, Promise!None

\* A change of an account is one the promise allows.
LEMMA ChangeIsPromised ==
  ASSUME AccountsInv, NEW c \in Callers, NEW u \in Users,
         NEW a \in Account \cup {NoAccount}, NEW ends \in BOOLEAN, Changes(c, u, a, ends)
  PROVE  Promise!Change(u)
<1>1. /\ users' = [users EXCEPT ![u] = a]
      /\ sessions' = [t \in Tokens |-> IF ends /\ sessions[t] = u THEN NoUser ELSE sessions[t]]
      /\ up /\ up' = up /\ Persist(c) /\ (u = Admin => a # NoAccount)
      /\ ends \/ users[u] = NoAccount \/ KeepsSessions(u, a)
  BY DEF Changes, Update, Justified
<1>2. sessions \in [Tokens -> Users \cup {NoUser}] /\ SessionsMatchAccounts
  BY DEF AccountsInv, TypeOK
<1>3. file' \in {file, Torn}
  BY <1>1 DEF Persist
<1>4. \/ sessions' = Promise!Without(u)
      \/ KeepsSessions(u, a) /\ sessions' = sessions
  <2>1. CASE ends
    BY <1>1, <2>1 DEF Promise!Without
  <2>2. CASE ~ends
    <3>1. sessions' = sessions
      BY <1>1, <1>2, <2>2
    <3>2. CASE users[u] = NoAccount
      <4>1. \A t \in Tokens : sessions[t] # u
        BY <1>2, <3>2, AccountsAssumption DEF SessionsMatchAccounts, Exists
      <4>2. Promise!Without(u) = sessions
        BY <1>2, <4>1 DEF Promise!Without
      <4> QED
        BY <3>1, <4>2
    <3> QED
      BY <1>1, <2>2, <3>1, <3>2
  <2> QED
    BY <2>1, <2>2
<1> QED
  BY <1>1, <1>3, <1>4 DEF Promise!Change, KeepsSessions

\* Every step of the module implements one of the promise.
LEMMA PromiseStep == AccountsInv /\ [Next]_vars => [Promise!Next]_(Promise!vars)
<1> SUFFICES ASSUME AccountsInv, [Next]_vars
             PROVE  Promise!Next \/ UNCHANGED Promise!vars
  OBVIOUS
<1>1. TypeOK /\ RequestsFit /\ DownIsEmpty /\ WriterTears
  BY DEF AccountsInv
<1>2. ASSUME users' = users, sessions' = sessions, file' = file, up' = up
      PROVE  UNCHANGED Promise!vars
  BY <1>2 DEF Promise!vars
<1>3. ASSUME NEW c \in Callers, Receive(c) PROVE Promise!Next \/ UNCHANGED Promise!vars
  <2>1. CASE \E t \in Tokens, kind \in Asked :
               \E arg \in IF kind \in Manage THEN Users ELSE {NoUser},
                  id \in IF kind \in {"assign", "unassign", "device"} THEN Ids ELSE {NoId} :
                 Authenticate(c, kind, t, arg, id)
    BY <1>2, <2>1 DEF Authenticate, store
  <2>2. ASSUME NEW t \in Tokens, NEW u \in Users, Login(c, u, t), up PROVE Promise!Next
    <3>1. Promise!Open(t, u)
      BY <2>2 DEF Login, Open, Exists, Promise!Open
    <3> QED
      BY <3>1 DEF Promise!Next
  <2> QED
    BY <1>3, <2>1, <2>2 DEF Receive
<1>4. ASSUME NEW c \in Callers, Change(c) PROVE Promise!Next
  <2>1. \E u \in Users : Promise!Change(u)
    BY <1>1, <1>4, ChangeChanges, ChangeIsPromised
  <2> QED
    BY <2>1 DEF Promise!Next
<1>5. ASSUME NEW c \in Callers, WriteFile(c) PROVE Promise!Next \/ UNCHANGED Promise!vars
  <2>1. CASE file' = users
    <3>1. Promise!Keep
      BY <1>5, <2>1 DEF WriteFile, Promise!Keep
    <3> QED
      BY <3>1 DEF Promise!Next
  <2>2. CASE file' = Torn
    BY <1>1, <1>2, <1>5, <2>2, AccountsAssumption DEF WriteFile, WriterTears
  <2> QED
    BY <1>5, <2>1, <2>2 DEF WriteFile
<1>6. ASSUME NEW t \in Tokens, up, sessions' = [sessions EXCEPT ![t] = NoUser],
             users' = users, file' = file, up' = up
      PROVE  Promise!Next
  <2>1. Promise!Close(t)
    BY <1>6 DEF Promise!Close
  <2> QED
    BY <2>1 DEF Promise!Next
<1>7. ASSUME NEW c \in Callers, Logout(c) PROVE Promise!Next
  <2>1. Fits(c, req[c]) /\ up /\ req[c].phase # "idle" /\ req[c].kind = "logout"
    BY <1>1, <1>7 DEF Logout, At, RequestsFit
  <2>2. req[c].token \in Tokens
    BY <2>1 DEF Fits
  <2> QED
    BY <1>6, <1>7, <2>1, <2>2 DEF Logout
<1>8. ASSUME NEW t \in Tokens, Expire(t) PROVE Promise!Next
  BY <1>6, <1>8 DEF Expire
<1>9. ASSUME NEW c \in Callers, Reauthenticate(c) \/ Answer(c) PROVE UNCHANGED Promise!vars
  BY <1>2, <1>9 DEF Reauthenticate, Answer, store
<1>10. CASE CheckDevice \/ Resolve \/ Forward \/ Executed \/ ListDevices
  BY <1>2, <1>10 DEF CheckDevice, Resolve, Forward, Executed, ListDevices, store
<1>11. CASE Start
  <2>1. file # Torn /\ file # Missing /\ sessions' = Promise!None
    BY <1>1, <1>11, FileAssumption DEF Start, Valid, DownIsEmpty, Promise!None
  <2>2. Promise!Start
    BY <1>11, <2>1 DEF Start, Valid, Promise!Start
  <2> QED
    BY <2>2 DEF Promise!Next
<1>12. CASE FirstStart
  <2>1. sessions' = Promise!None /\ sessions' = sessions
    BY <1>1, <1>12 DEF FirstStart, DownIsEmpty, Promise!None
  <2>2. CASE users' = Initial /\ file' = Initial /\ up' = TRUE
    <3> DEFINE a == [hash |-> DefaultHash, devices |-> {}, required |-> TRUE]
    <3>1. a \in Account
      BY AccountWith, AccountsAssumption
    <3>2. users' = [u \in Users |-> IF u = Admin THEN a ELSE NoAccount]
      BY <2>2 DEF Initial
    <3>3. file = Missing /\ Missing # Torn /\ ~up
      BY <1>12, AccountsAssumption DEF FirstStart
    <3> HIDE DEF a
    <3>4. \E x \in Account : users' = [u \in Users |-> IF u = Admin THEN x ELSE NoAccount]
      BY <3>1, <3>2
    <3>5. Promise!Start
      BY <2>1, <2>2, <3>3, <3>4 DEF Promise!Start
    <3> QED
      BY <3>5 DEF Promise!Next
  <2>3. CASE file' = Torn /\ UNCHANGED <<users, up>>
    <3>1. Promise!FirstStartFails
      BY <1>12, <2>1, <2>3 DEF FirstStart, Promise!FirstStartFails
    <3> QED
      BY <3>1 DEF Promise!Next
  <2> QED
    BY <1>12, <2>2, <2>3 DEF FirstStart
<1>13. CASE Crash
  <2>1. Promise!Crash
    BY <1>13 DEF Crash, Promise!Crash, Promise!None
  <2> QED
    BY <2>1 DEF Promise!Next
<1>14. CASE UNCHANGED vars \/ RefuseStart
  BY <1>2, <1>14 DEF vars, RefuseStart
<1> QED
  BY <1>3, <1>4, <1>5, <1>7, <1>8, <1>9, <1>10, <1>11, <1>12, <1>13, <1>14 DEF Next

\* The account store implements its promise: sessions end in the step that changes their
\* account, and a restart brings back the accounts that were kept, or none at all.
THEOREM StoreKeepsPromise == Spec => KeepsPromise
BY AccountsInit, AccountsStep, PromiseInit, PromiseStep, PTL
   DEF Spec, KeepsPromise, Promise!Spec

===============================================================================
