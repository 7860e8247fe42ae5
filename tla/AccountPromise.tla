----------------------------- MODULE AccountPromise -----------------------------
(***************************************************************************)
(* What the account store of Core promises to its callers: whoever holds a  *)
(* session has proved the password the account has now, a change of a       *)
(* password or the removal of an account ends the sessions of that account  *)
(* in the same step, and a restart brings back exactly the accounts that     *)
(* were kept, without sessions.                                             *)
(***************************************************************************)
CONSTANTS Users, Admin, Tokens, Account, NoAccount, NoUser, Nothing, Lost

VARIABLES
  account,  \* the accounts in force
  session,  \* the user of each live token
  kept,     \* the accounts a restart brings back: Nothing yet, or Lost
  serving   \* whether Core is running

vars == <<account, session, kept, serving>>

None == [t \in Tokens |-> NoUser]
Without(u) == [t \in Tokens |-> IF session[t] = u THEN NoUser ELSE session[t]]

Init ==
  /\ account = [u \in Users |-> NoAccount]
  /\ session = None
  /\ kept = Nothing
  /\ serving = FALSE

\* A session starts for an account that exists, under a token nobody holds.
Open(t, u) ==
  /\ serving /\ session[t] = NoUser /\ account[u] # NoAccount
  /\ session' = [session EXCEPT ![t] = u]
  /\ UNCHANGED <<account, kept, serving>>

Close(t) ==
  /\ serving
  /\ session' = [session EXCEPT ![t] = NoUser]
  /\ UNCHANGED <<account, kept, serving>>

\* Any other change of one account ends its sessions with it; only the devices
\* of an account change under its sessions. The change may or may not be kept.
Change(u) ==
  /\ serving
  /\ \E a \in Account \cup {NoAccount} :
       /\ u = Admin => a # NoAccount
       /\ account' = [account EXCEPT ![u] = a]
       /\ \/ session' = Without(u)
          \/ /\ account[u] # NoAccount /\ a # NoAccount
             /\ a.hash = account[u].hash /\ a.required = account[u].required
             /\ session' = session
  /\ kept' \in {kept, Lost}
  /\ UNCHANGED serving

\* The accounts in force are kept, all of them at once.
Keep == serving /\ kept' = account /\ UNCHANGED <<account, session, serving>>

Crash ==
  /\ serving /\ serving' = FALSE
  /\ account' = [u \in Users |-> NoAccount] /\ session' = None
  /\ UNCHANGED kept

\* The first start makes the administrator; accounts that are lost stop every start.
Start ==
  /\ ~serving /\ kept # Lost
  /\ serving' = TRUE /\ session' = None /\ kept' = account'
  /\ IF kept = Nothing
     THEN \E a \in Account : account' = [u \in Users |-> IF u = Admin THEN a ELSE NoAccount]
     ELSE account' = kept

FirstStartFails ==
  /\ ~serving /\ kept = Nothing
  /\ kept' = Lost
  /\ UNCHANGED <<account, session, serving>>

Next ==
  \/ \E t \in Tokens : Close(t) \/ \E u \in Users : Open(t, u)
  \/ \E u \in Users : Change(u)
  \/ Keep \/ Crash \/ Start \/ FirstStartFails

Spec == Init /\ [][Next]_vars

\* The promise in one line: a session belongs to an account that exists.
SessionsHaveAccounts == \A t \in Tokens : session[t] # NoUser => account[session[t]] # NoAccount
===============================================================================
