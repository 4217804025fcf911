------------------------ MODULE AccessControlProofs ------------------------
(***************************************************************************)
(* The safety of sessions and of the routes behind them, for any number of *)
(* users, tokens and concurrent requests and any lifetime of a session:    *)
(* the rows of the sessions table say no more and no less than the logins  *)
(* and logouts that were asked for and answered.                           *)
(***************************************************************************)
EXTENDS AccessControl, TLAPS

Task == Login \cup Logout \cup ApiCall

\* A session row comes from the login of its token; it is revoked when a logout
\* was answered, and only if one was asked for.
SessionOK(k) ==
    /\ sessions[k] # None =>
          /\ issued[k] # None
          /\ sessions[k].revoked_at # None => logout[k] # "No"
    /\ logout[k] = "Answered" => sessions[k] # None /\ sessions[k].revoked_at # None

\* Between the generation of a token and its insert the token is new.
LoginOK(r) ==
    At(r, "Login", "Insert") =>
        /\ task[r].token # None
        /\ issued[task[r].token] # None
        /\ issued[task[r].token].user = task[r].user
        /\ sessions[task[r].token] = None

LogoutOK(r) ==
    Is(r, "Logout") /\ task[r].token # None =>
        sessions[task[r].token] # None /\ logout[task[r].token] # "No"

\* A call presents a token that had a session when it came; the identity that
\* is attached to it is the one the token was issued to.
CallOK(r) ==
    /\ Is(r, "Call") /\ task[r].token # None => sessions[task[r].token] # None
    /\ At(r, "Call", "Handle") =>
          /\ task[r].token # None /\ task[r].user = issued[task[r].token].user
          /\ could[r]

\* The histories cover the present moment.
WitnessOK(r) ==
    Is(r, "Call") => /\ CanBeServed(r) => could[r]
                     /\ ~ MustBeServed(r) => could_not[r]

\* No two logins are about to insert the same token.
TokensDiffer ==
    \A r, q \in Tasks :
        At(r, "Login", "Insert") /\ At(q, "Login", "Insert") /\ task[r].token = task[q].token
            => r = q

SessionsOK == \A k \in Tokens : SessionOK(k)
TasksOK == \A r \in Tasks : LoginOK(r) /\ LogoutOK(r) /\ CallOK(r) /\ WitnessOK(r)

Inductive == TypeOK /\ SessionsOK /\ TasksOK /\ TokensDiffer

-----------------------------------------------------------------------------
(* What a step keeps.                                                      *)

\* The histories after any step.
LEMMA Witnessed ==
    ASSUME Witness, NEW r \in Tasks
    PROVE  /\ WitnessOK(r)'
           /\ Is(r, "Call") /\ Is(r, "Call")' /\ could[r] => could'[r]
           /\ could' \in [Tasks -> BOOLEAN] /\ could_not' \in [Tasks -> BOOLEAN]
<1>1. /\ could' = [q \in Tasks |->
             Is(q, "Call")' /\ ((Is(q, "Call") /\ could[q]) \/ CanBeServed(q)')]
      /\ could_not' = [q \in Tasks |->
             Is(q, "Call")' /\ ((Is(q, "Call") /\ could_not[q]) \/ ~ MustBeServed(q)')]
  BY DEF Witness
<1>2. /\ could'[r] = (Is(r, "Call")' /\ ((Is(r, "Call") /\ could[r]) \/ CanBeServed(r)'))
      /\ could_not'[r] =
            (Is(r, "Call")' /\ ((Is(r, "Call") /\ could_not[r]) \/ ~ MustBeServed(r)'))
  BY <1>1
<1>3. could' \in [Tasks -> BOOLEAN] /\ could_not' \in [Tasks -> BOOLEAN]
  BY <1>1
<1> QED
  BY <1>2, <1>3 DEF WitnessOK

\* Sessions stay, tokens stay issued and a logout stays asked for: what is said
\* of the requests that do not move stays true.
LEMMA Kept ==
    ASSUME Inductive, Witness, NEW Moved \in SUBSET Tasks,
           \A q \in Tasks \ Moved : task'[q] = task[q],
           \A k \in Tokens : issued[k] # None => issued'[k] = issued[k],
           \A k \in Tokens : sessions[k] # None => sessions'[k] # None,
           \A k \in Tokens : logout[k] # "No" => logout'[k] # "No",
           \A k \in Tokens : sessions'[k] # None /\ sessions[k] = None =>
              \E r \in Moved : At(r, "Login", "Insert") /\ task[r].token = k
    PROVE  \A q \in Tasks \ Moved :
              (LoginOK(q) /\ LogoutOK(q) /\ CallOK(q) /\ WitnessOK(q))'
<1> SUFFICES ASSUME NEW q \in Tasks \ Moved
             PROVE  (LoginOK(q) /\ LogoutOK(q) /\ CallOK(q) /\ WitnessOK(q))'
  OBVIOUS
<1>1. WitnessOK(q)' /\ (Is(q, "Call") /\ Is(q, "Call")' /\ could[q] => could'[q])
  BY Witnessed
<1>2. task'[q] = task[q] /\ task[q] \in Task \cup {None}
      /\ (task[q] # None => task[q].token \in Tokens \cup {None})
  BY DEF Inductive, TypeOK, Task, Login, Logout, ApiCall
<1>3. LoginOK(q)'
  BY <1>2 DEF Inductive, TasksOK, TokensDiffer, LoginOK, At, Is
<1>4. LogoutOK(q)'
  BY <1>2 DEF Inductive, TasksOK, LogoutOK, Is
<1>5. CallOK(q)'
  <2>1. Is(q, "Call")' /\ task'[q].token # None => sessions'[task'[q].token] # None
    BY <1>2 DEF Inductive, TasksOK, CallOK, Is
  <2>2. ASSUME At(q, "Call", "Handle")'
        PROVE  /\ task[q].token # None
               /\ task[q].user = issued'[task[q].token].user
               /\ could'[q]
    <3>1. At(q, "Call", "Handle") /\ Is(q, "Call")' /\ Is(q, "Call")
      BY <1>2, <2>2 DEF At, Is
    <3>2. /\ task[q].token \in Tokens /\ task[q].user = issued[task[q].token].user
          /\ could[q] /\ sessions[task[q].token] # None
      BY <1>2, <3>1 DEF Inductive, TasksOK, CallOK, Is
    <3> QED
      BY <1>1, <3>1, <3>2, NoneAssumption DEF Inductive, SessionsOK, SessionOK
  <2> QED
    BY <1>2, <2>1, <2>2 DEF CallOK
<1> QED
  BY <1>1, <1>3, <1>4, <1>5

-----------------------------------------------------------------------------
(* One lemma per kind of step.                                             *)

\* A task moves and the tables do not: it is no login about to insert, and a
\* call it moves to is one that the state entitles to be there.
LEMMA TaskStep ==
    ASSUME Inductive, Witness, NEW r \in Tasks, NEW new \in Task \cup {None},
           task' = [task EXCEPT ![r] = new],
           accounts' \in [Users -> SUBSET Names],
           UNCHANGED <<clock, status, sessions, issued, logout>>,
           new # None => new.kind \in {"Login", "Call"},
           new # None /\ new.kind = "Login" => new.at # "Insert",
           new # None /\ new.kind = "Call" =>
              /\ new.token # None => sessions[new.token] # None
              /\ new.at = "Handle" =>
                    /\ new.token # None /\ new.user = issued[new.token].user
                    /\ (Is(r, "Call") /\ could[r]) \/ CanBeServed(r)'
    PROVE  Inductive'
<1>1. /\ task' \in [Tasks -> Task \cup {None}] /\ task'[r] = new
      /\ \A q \in Tasks \ {r} : task'[q] = task[q]
  BY DEF Inductive, TypeOK, Task
<1>2. TypeOK'
  BY <1>1, Witnessed DEF Inductive, TypeOK, Task, Witness
<1>3. SessionsOK'
  BY DEF Inductive, SessionsOK, SessionOK
<1>4. \A q \in Tasks \ {r} : (LoginOK(q) /\ LogoutOK(q) /\ CallOK(q) /\ WitnessOK(q))'
  BY <1>1, Kept
<1>5. (LoginOK(r) /\ LogoutOK(r))'
  BY <1>1 DEF LoginOK, LogoutOK, At, Is
<1>6. WitnessOK(r)' /\ (Is(r, "Call")' => could'[r] \/ ~ CanBeServed(r)')
      /\ (Is(r, "Call") /\ Is(r, "Call")' /\ could[r] => could'[r])
  BY Witnessed DEF WitnessOK
<1>7. CallOK(r)'
  <2>1. Is(r, "Call")' => new # None /\ new.kind = "Call"
    BY <1>1 DEF Is
  <2>2. At(r, "Call", "Handle")' => Is(r, "Call")' /\ new.at = "Handle"
    BY <1>1 DEF At, Is
  <2> QED
    BY <1>1, <1>6, <2>1, <2>2 DEF CallOK
<1>8. TokensDiffer'
  BY <1>1 DEF Inductive, TokensDiffer, At, Is
<1> QED
  BY <1>2, <1>3, <1>4, <1>5, <1>6, <1>7, <1>8 DEF Inductive, TasksOK

\* The clock ticks or a status changes.
LEMMA WorldStep ==
    ASSUME Inductive, Witness, clock' \in 0 .. MaxClock, status' \in [Users -> Statuses],
           UNCHANGED <<sessions, accounts, task, issued, logout>>
    PROVE  Inductive'
<1>1. TypeOK'
  BY Witnessed DEF Inductive, TypeOK, Task, Witness
<1>2. SessionsOK' /\ TokensDiffer'
  BY DEF Inductive, SessionsOK, SessionOK, TokensDiffer, At, Is
<1>3. \A q \in Tasks \ {} : (LoginOK(q) /\ LogoutOK(q) /\ CallOK(q) /\ WitnessOK(q))'
  BY Kept
<1> QED
  BY <1>1, <1>2, <1>3 DEF Inductive, TasksOK

LEMMA GenerateTokenStep ==
    ASSUME Inductive, Witness, NEW r \in Tasks, NEW token \in Tokens, GenerateToken(r, token)
    PROVE  Inductive'
<1> DEFINE new == [task[r] EXCEPT !.at = "Insert", !.token = token]
           issue == [user |-> task[r].user, at |-> clock]
<1>1. /\ At(r, "Login", "Verify") /\ issued[token] = None
      /\ issued' = [issued EXCEPT ![token] = issue]
      /\ task' = [task EXCEPT ![r] = new]
      /\ UNCHANGED <<data, logout>>
  BY DEF GenerateToken
<1>2. task[r] \in Login
  BY <1>1 DEF At, Is, Inductive, TypeOK, Logout, ApiCall
<1>3. /\ new \in Login /\ new.kind = "Login" /\ new.at = "Insert" /\ new.token = token
      /\ new.user = task[r].user /\ new # None
  BY <1>2, NoneAssumption DEF Login
<1>4. issue \in Issue /\ issue # None /\ issue.user = task[r].user
  BY <1>2, NoneAssumption DEF Issue, Login, Inductive, TypeOK
<1>5. sessions[token] = None /\ logout[token] # "Answered"
  BY <1>1 DEF Inductive, SessionsOK, SessionOK
<1> HIDE DEF new, issue
<1>6. /\ issued' \in [Tokens -> Issue \cup {None}] /\ issued'[token] = issue
      /\ \A k \in Tokens \ {token} : issued'[k] = issued[k]
  BY <1>1, <1>4 DEF Inductive, TypeOK
<1>7. /\ task' \in [Tasks -> Task \cup {None}] /\ task'[r] = new
      /\ \A q \in Tasks \ {r} : task'[q] = task[q]
  BY <1>1, <1>3 DEF Inductive, TypeOK, Task
<1>8. UNCHANGED <<clock, status, sessions, accounts, logout>>
  BY <1>1 DEF data
<1>9. TypeOK'
  <2>1. \A k \in Tokens : sessions[k] # None => issued'[k] = issued[k]
    BY <1>5, <1>6
  <2> QED
    BY <1>6, <1>7, <1>8, <2>1, Witnessed DEF Inductive, TypeOK, Task, Witness
<1>10. SessionsOK'
  BY <1>4, <1>6, <1>8 DEF Inductive, SessionsOK, SessionOK
<1>11. \A q \in Tasks \ {r} : (LoginOK(q) /\ LogoutOK(q) /\ CallOK(q) /\ WitnessOK(q))'
  BY <1>1, <1>6, <1>7, <1>8, Kept
<1>12. (LoginOK(r) /\ LogoutOK(r) /\ CallOK(r))'
  BY <1>3, <1>4, <1>5, <1>6, <1>7, <1>8, NoneAssumption DEF LoginOK, LogoutOK, CallOK, At, Is
<1>13. TokensDiffer'
  <2>1. \A q \in Tasks \ {r} : At(q, "Login", "Insert")' =>
           At(q, "Login", "Insert") /\ task'[q].token = task[q].token
    BY <1>7 DEF At, Is
  <2>2. \A q \in Tasks \ {r} : At(q, "Login", "Insert") => task[q].token # token
    BY <1>1 DEF Inductive, TasksOK, LoginOK
  <2> QED
    BY <1>3, <1>7, <2>1, <2>2 DEF Inductive, TokensDiffer
<1> QED
  BY <1>9, <1>10, <1>11, <1>12, <1>13, Witnessed DEF Inductive, TasksOK

LEMMA InsertSessionStep ==
    ASSUME Inductive, Witness, NEW r \in Tasks, InsertSession(r)
    PROVE  Inductive'
<1> DEFINE token == task[r].token
           row == [user |-> task[r].user, expires_at |-> ExpiryOf(token), revoked_at |-> None]
<1>1. /\ At(r, "Login", "Insert") /\ (Answer(r, 200) \/ Answer(r, 500))
      /\ sessions' = [sessions EXCEPT ![token] = row] \/ sessions' = sessions
      /\ UNCHANGED <<clock, status, accounts, issued, logout>>
  BY DEF InsertSession
<1>2. task[r] \in Login /\ token \in Tokens /\ task[r].user \in Users
  <2>1. task[r] \in Login
    BY <1>1 DEF InsertSession, At, Is, Inductive, TypeOK, Logout, ApiCall
  <2> QED
    BY <1>1, <2>1 DEF InsertSession, Login, Inductive, TasksOK, LoginOK
<1>3. /\ issued[token] # None /\ issued[token].user = task[r].user
      /\ sessions[token] = None
  BY DEF InsertSession, Inductive, TasksOK, LoginOK
<1>4. issued[token] \in Issue
  BY <1>2, <1>3 DEF Inductive, TypeOK
<1>5. /\ row \in Session /\ row # None
      /\ row.user = issued[token].user /\ row.expires_at = issued[token].at + Lifetime
      /\ row.revoked_at = None
  BY <1>2, <1>3, <1>4, AccessAssumption, NoneAssumption DEF Session, Issue, ExpiryOf, Times
<1> HIDE DEF token, row
<1>6. /\ sessions' \in [Tokens -> Session \cup {None}]
      /\ sessions'[token] \in {row, None}
      /\ \A k \in Tokens \ {token} : sessions'[k] = sessions[k]
  BY <1>1, <1>2, <1>3, <1>5 DEF Inductive, TypeOK
<1>7. /\ task' \in [Tasks -> Task \cup {None}] /\ task'[r] = None
      /\ \A q \in Tasks \ {r} : task'[q] = task[q]
  BY <1>1 DEF Inductive, TypeOK, Task, Answer
<1>8. TypeOK'
  BY <1>1, <1>5, <1>6, <1>7, Witnessed DEF Inductive, TypeOK, Task, Witness
<1>9. SessionsOK'
  BY <1>1, <1>2, <1>3, <1>5, <1>6 DEF Inductive, SessionsOK, SessionOK
<1>10. \A q \in Tasks \ {r} : (LoginOK(q) /\ LogoutOK(q) /\ CallOK(q) /\ WitnessOK(q))'
  <2>1. \A k \in Tokens : sessions'[k] # None /\ sessions[k] = None => k = token
    BY <1>6
  <2>2. At(r, "Login", "Insert") /\ task[r].token = token
    BY <1>1 DEF token, InsertSession
  <2> QED
    BY <1>1, <1>3, <1>6, <1>7, <2>1, <2>2, Kept
<1>11. (LoginOK(r) /\ LogoutOK(r) /\ CallOK(r))'
  BY <1>7 DEF LoginOK, LogoutOK, CallOK, At, Is
<1>12. TokensDiffer'
  BY <1>7 DEF Inductive, TokensDiffer, At, Is
<1> QED
  BY <1>8, <1>9, <1>10, <1>11, <1>12, Witnessed DEF Inductive, TasksOK

LEMMA ReceiveLogoutStep ==
    ASSUME Inductive, Witness, NEW r \in Tasks, NEW token \in Presented,
           ReceiveLogout(r, token)
    PROVE  Inductive'
<1> DEFINE new == [kind |-> "Logout", token |-> token]
<1>1. /\ task[r] = None /\ task' = [task EXCEPT ![r] = new]
      /\ logout' = [k \in Tokens |->
                      IF k = token /\ logout[k] = "No" THEN "Asked" ELSE logout[k]]
      /\ UNCHANGED <<data, issued>>
  BY DEF ReceiveLogout
<1>2. UNCHANGED <<clock, status, sessions, accounts, issued>>
  BY <1>1 DEF data
<1>3. new \in Logout /\ new # None /\ new.kind = "Logout" /\ new.token = token
      /\ (token # None => token \in Tokens /\ sessions[token] # None)
  BY NoneAssumption DEF Logout, Presented
<1> HIDE DEF new
<1>4. /\ logout' \in [Tokens -> {"No", "Asked", "Answered"}]
      /\ \A k \in Tokens : /\ logout[k] # "No" => logout'[k] = logout[k]
                           /\ logout'[k] = "Answered" => logout[k] = "Answered"
                           /\ k = token => logout'[k] # "No"
  BY <1>1 DEF Inductive, TypeOK
<1>5. /\ task' \in [Tasks -> Task \cup {None}] /\ task'[r] = new
      /\ \A q \in Tasks \ {r} : task'[q] = task[q]
  BY <1>1, <1>3 DEF Inductive, TypeOK, Task
<1>6. TypeOK'
  BY <1>2, <1>4, <1>5, Witnessed DEF Inductive, TypeOK, Task, Witness
<1>7. SessionsOK'
  BY <1>2, <1>4 DEF Inductive, SessionsOK, SessionOK
<1>8. \A q \in Tasks \ {r} : (LoginOK(q) /\ LogoutOK(q) /\ CallOK(q) /\ WitnessOK(q))'
  BY <1>2, <1>4, <1>5, Kept
<1>9. (LoginOK(r) /\ LogoutOK(r) /\ CallOK(r))'
  BY <1>2, <1>3, <1>4, <1>5 DEF LoginOK, LogoutOK, CallOK, At, Is
<1>10. TokensDiffer'
  BY <1>3, <1>5 DEF Inductive, TokensDiffer, At, Is
<1> QED
  BY <1>6, <1>7, <1>8, <1>9, <1>10, Witnessed DEF Inductive, TasksOK

\* A revoked row, and one that was never there, stay what they are.
LEMMA RevokedRow ==
    ASSUME TypeOK, NEW k \in Tokens, sessions[k] # None
    PROVE  /\ Revoked(sessions[k]) \in Session
           /\ Revoked(sessions[k]).user = sessions[k].user
           /\ Revoked(sessions[k]).expires_at = sessions[k].expires_at
           /\ Revoked(sessions[k]).revoked_at # None
           /\ sessions[k].revoked_at # None => Revoked(sessions[k]) = sessions[k]
  BY NoneAssumption, AccessAssumption DEF TypeOK, Session, Revoked, Times

LEMMA RevokeSessionStep ==
    ASSUME Inductive, Witness, NEW r \in Tasks, RevokeSession(r)
    PROVE  Inductive'
<1> DEFINE token == task[r].token
<1>1. /\ Is(r, "Logout") /\ Answer(r, 204)
      /\ UNCHANGED <<clock, status, accounts, issued>>
  BY DEF RevokeSession
<1>2. token # None => token \in Tokens /\ sessions[token] # None /\ logout[token] # "No"
  BY <1>1 DEF Inductive, TypeOK, TasksOK, LogoutOK, Is, Login, Logout, ApiCall
<1>3. /\ task' \in [Tasks -> Task \cup {None}] /\ task'[r] = None
      /\ \A q \in Tasks \ {r} : task'[q] = task[q]
  BY <1>1 DEF Inductive, TypeOK, Task, Answer
<1>4. CASE token = None
  <2>1. UNCHANGED <<sessions, logout>>
    BY <1>4 DEF RevokeSession
  <2> QED
    BY <1>1, <1>3, <2>1, TaskStep DEF Answer, Inductive, TypeOK
<1>5. CASE token # None
  <2>1. /\ sessions' = [sessions EXCEPT ![token] = Revoked(@)]
        /\ logout' \in {[logout EXCEPT ![token] = "Answered"], logout}
    BY <1>5 DEF RevokeSession, RevokedIn
  <2>2. /\ Revoked(sessions[token]) \in Session
        /\ Revoked(sessions[token]).user = sessions[token].user
        /\ Revoked(sessions[token]).expires_at = sessions[token].expires_at
        /\ Revoked(sessions[token]).revoked_at # None
        /\ Revoked(sessions[token]) # None
    BY <1>2, <1>5, RevokedRow, NoneAssumption DEF Inductive
  <2> HIDE DEF token
  <2>3. /\ sessions' \in [Tokens -> Session \cup {None}]
        /\ sessions'[token] = Revoked(sessions[token])
        /\ \A k \in Tokens \ {token} : sessions'[k] = sessions[k]
    BY <1>2, <1>5, <2>1, <2>2 DEF Inductive, TypeOK
  <2>4. /\ logout' \in [Tokens -> {"No", "Asked", "Answered"}]
        /\ logout'[token] # "No"
        /\ \A k \in Tokens \ {token} : logout'[k] = logout[k]
    BY <1>2, <1>5, <2>1 DEF Inductive, TypeOK
  <2>5. TypeOK'
    <3>1. ASSUME NEW k \in Tokens, sessions'[k] # None
          PROVE  /\ sessions'[k].user = issued[k].user
                 /\ sessions'[k].expires_at = issued[k].at + Lifetime
      BY <1>2, <1>5, <2>2, <2>3, <3>1 DEF Inductive, TypeOK
    <3> QED
      BY <1>1, <1>3, <2>3, <2>4, <3>1, Witnessed DEF Inductive, TypeOK, Task, Witness
  <2>6. SessionsOK'
    BY <1>1, <1>2, <1>5, <2>2, <2>3, <2>4 DEF Inductive, SessionsOK, SessionOK
  <2>7. \A q \in Tasks \ {r} : (LoginOK(q) /\ LogoutOK(q) /\ CallOK(q) /\ WitnessOK(q))'
    BY <1>1, <1>2, <1>3, <1>5, <2>2, <2>3, <2>4, Kept
  <2>8. (LoginOK(r) /\ LogoutOK(r) /\ CallOK(r))'
    BY <1>3 DEF LoginOK, LogoutOK, CallOK, At, Is
  <2>9. TokensDiffer'
    BY <1>3 DEF Inductive, TokensDiffer, At, Is
  <2> QED
    BY <2>5, <2>6, <2>7, <2>8, <2>9, Witnessed DEF Inductive, TasksOK
<1> QED
  BY <1>4, <1>5

\* A call is accepted only when it may be served: the row it finds agrees with
\* the logins and logouts of its token.
LEMMA AcceptedEntitled ==
    ASSUME Inductive, NEW r \in Tasks, AcceptCall(r)
    PROVE  /\ task[r] \in ApiCall /\ task[r].token \in Tokens /\ task[r].token # None
           /\ sessions[task[r].token].user = issued[task[r].token].user
           /\ sessions[task[r].token].user \in Users
           /\ CanBeServed(r)
<1> DEFINE token == task[r].token
           row == sessions[token]
<1>1. /\ task[r] \in ApiCall /\ token \in Tokens /\ row # None /\ token # None
      /\ ValidSession(row) /\ MayUse(row.user, task[r].route)
  BY NoneAssumption DEF AcceptCall, Row, ValidSession, At, Is, Inductive, TypeOK, Login,
     Logout, ApiCall
<1>2. /\ row \in Session /\ row.user = issued[token].user
      /\ row.expires_at = issued[token].at + Lifetime /\ issued[token] # None
      /\ logout[token] \in {"No", "Asked", "Answered"}
      /\ logout[token] = "Answered" => row.revoked_at # None
      /\ clock \in 0 .. MaxClock /\ issued[token] \in Issue
  BY <1>1 DEF Inductive, TypeOK, SessionsOK, SessionOK
<1> HIDE DEF row
<1>3. clock < issued[token].at + Lifetime
  BY <1>1, <1>2, AccessAssumption DEF ValidSession, Issue
<1> QED
  BY <1>1, <1>2, <1>3 DEF ValidSession, MayUse, CanBeServed, Entitled, Session, row

LEMMA AcceptCallStep ==
    ASSUME Inductive, Witness, NEW r \in Tasks, AcceptCall(r)
    PROVE  Inductive'
<1> DEFINE new == [task[r] EXCEPT !.at = "Handle", !.user = sessions[task[r].token].user]
<1>1. /\ task[r] \in ApiCall /\ task[r].token \in Tokens /\ task[r].token # None
      /\ sessions[task[r].token].user = issued[task[r].token].user
      /\ sessions[task[r].token].user \in Users
      /\ CanBeServed(r) /\ sessions[task[r].token] # None
  BY AcceptedEntitled DEF AcceptCall, Row, ValidSession
<1>2. /\ task' = [task EXCEPT ![r] = new]
      /\ UNCHANGED <<clock, status, sessions, accounts, issued, logout>>
  BY <1>1 DEF AcceptCall, Row, data
<1>3. /\ new \in ApiCall /\ new.kind = "Call" /\ new.at = "Handle"
      /\ new.token = task[r].token /\ new.route = task[r].route
      /\ new.user = sessions[task[r].token].user
  BY <1>1 DEF ApiCall
<1> HIDE DEF new
<1>4. task'[r] = new
  BY <1>2 DEF Inductive, TypeOK
<1>5. CanBeServed(r)'
  BY <1>1, <1>2, <1>3, <1>4 DEF CanBeServed, Entitled
<1> QED
  BY <1>1, <1>2, <1>3, <1>5, TaskStep DEF Task, Inductive, TypeOK

\* A request ends: whatever it was, nothing is said of it any more.
LEMMA AnswerStep ==
    ASSUME Inductive, Witness, NEW r \in Tasks, NEW code, Answer(r, code),
           accounts' \in [Users -> SUBSET Names],
           UNCHANGED <<clock, status, sessions, issued, logout>>
    PROVE  Inductive'
  BY TaskStep DEF Answer

\* The invariant is inductive.
THEOREM StepInductive == Inductive /\ [Next]_vars => Inductive'
<1> SUFFICES ASSUME Inductive, [Next]_vars PROVE Inductive'
  OBVIOUS
<1>1. accounts \in [Users -> SUBSET Names]
  BY DEF Inductive, TypeOK
<1>2. CASE Next
  <2>1. Witness
    BY <1>2 DEF Next
  <2>2. CASE Tick
    BY <2>1, <2>2, WorldStep, AccessAssumption DEF Tick, Inductive, TypeOK
  <2>3. ASSUME NEW user \in Users, NEW new \in Statuses, SetStatus(user, new)
        PROVE  Inductive'
    BY <2>1, <2>3, WorldStep DEF SetStatus, Inductive, TypeOK
  <2>4. ASSUME NEW r \in Tasks, NEW user \in Users, ReceiveLogin(r, user) PROVE Inductive'
    <3> DEFINE new == [kind |-> "Login", user |-> user, at |-> "Load", status |-> None,
                       token |-> None]
    <3>1. new \in Task /\ new.kind = "Login" /\ new.at = "Load"
      BY DEF Task, Login
    <3>2. task' = [task EXCEPT ![r] = new] /\ UNCHANGED <<data, issued, logout>>
      BY <2>4 DEF ReceiveLogin
    <3> HIDE DEF new
    <3> QED
      BY <1>1, <2>1, <3>1, <3>2, TaskStep DEF data
  <2>5. ASSUME NEW r \in Tasks, FindLoginUser(r) PROVE Inductive'
    <3> DEFINE new == [task[r] EXCEPT !.at = "Verify", !.status = status[task[r].user]]
    <3>1. task[r] \in Login /\ status[task[r].user] \in Statuses
      BY <2>5 DEF FindLoginUser, At, Is, Inductive, TypeOK, Login, Logout, ApiCall
    <3>2. new \in Task /\ new.kind = "Login" /\ new.at = "Verify"
      BY <3>1 DEF Task, Login
    <3>3. task' = [task EXCEPT ![r] = new] /\ UNCHANGED <<data, issued, logout>>
      BY <2>5 DEF FindLoginUser
    <3> HIDE DEF new
    <3> QED
      BY <1>1, <2>1, <3>2, <3>3, TaskStep DEF data
  <2>6. ASSUME NEW r \in Tasks, NEW token \in Presented, NEW route \in Routes,
               ReceiveCall(r, token, route)
        PROVE  Inductive'
    <3> DEFINE new == [kind |-> "Call", token |-> token, route |-> route,
                       at |-> "Check", user |-> None]
    <3>1. /\ new \in Task /\ new.kind = "Call" /\ new.at = "Check" /\ new.token = token
          /\ token # None => sessions[token] # None
      BY DEF Task, ApiCall, Presented
    <3>2. task' = [task EXCEPT ![r] = new] /\ UNCHANGED <<data, issued, logout>>
      BY <2>6 DEF ReceiveCall
    <3> HIDE DEF new
    <3> QED
      BY <1>1, <2>1, <3>1, <3>2, TaskStep DEF data
  <2>7. ASSUME NEW r \in Tasks, RefuseLogin(r) \/ RefuseCall(r) \/ Serve(r) \/ Fail(r)
        PROVE  Inductive'
    <3>1. /\ UNCHANGED <<clock, status, sessions, accounts, issued, logout>>
          /\ Answer(r, 200) \/ Answer(r, 401) \/ Answer(r, 403) \/ Answer(r, 500)
      BY <2>7 DEF RefuseLogin, RefuseCall, Serve, Fail, data
    <3> QED
      BY <1>1, <2>1, <3>1, AnswerStep
  <2>8. ASSUME NEW r \in Tasks, NEW name \in Names, CreateAccount(r, name) PROVE Inductive'
    <3>1. /\ accounts' \in [Users -> SUBSET Names]
          /\ UNCHANGED <<clock, status, sessions, issued, logout>>
          /\ Answer(r, 201) \/ Answer(r, 409)
      BY <1>1, <2>8 DEF CreateAccount
    <3> QED
      BY <2>1, <3>1, AnswerStep
  <2> QED
    BY <1>2, <2>1, <2>2, <2>3, <2>4, <2>5, <2>6, <2>7, <2>8, GenerateTokenStep,
       InsertSessionStep, ReceiveLogoutStep, RevokeSessionStep, AcceptCallStep
    DEF Next, Step
<1>3. CASE UNCHANGED vars
  <2>1. TypeOK' /\ SessionsOK' /\ TokensDiffer'
    BY <1>3 DEF vars, data, Inductive, TypeOK, SessionsOK, SessionOK, TokensDiffer, At, Is
  <2>2. TasksOK'
    BY <1>3 DEF vars, data, Inductive, TasksOK, LoginOK, LogoutOK, CallOK, WitnessOK, At, Is,
       CanBeServed, MustBeServed, Entitled
  <2> QED
    BY <2>1, <2>2 DEF Inductive
<1> QED
  BY <1>2, <1>3

THEOREM AlwaysInductive == Spec => []Inductive
<1>1. Init => Inductive
  BY AccessAssumption
  DEF Init, Inductive, TypeOK, SessionsOK, SessionOK, TasksOK, LoginOK, LogoutOK, CallOK,
      WitnessOK, TokensDiffer, At, Is
<1> QED
  BY <1>1, StepInductive, PTL DEF Spec

-----------------------------------------------------------------------------
(* What the invariant gives.                                               *)

\* Every variable keeps its type, and a session row its user and expiry.
THEOREM TypeCorrect == Spec => []TypeOK
<1>1. Inductive => TypeOK
  BY DEF Inductive
<1> QED
  BY <1>1, AlwaysInductive, PTL

\* No handler behind require_authenticated or require_admin runs for a call
\* that was not entitled to it at some moment since it came.
THEOREM AlwaysHandledOnlyIfEntitled == Spec => []HandledOnlyIfEntitled
<1>1. Inductive => HandledOnlyIfEntitled
  BY DEF Inductive, TasksOK, CallOK, HandledOnlyIfEntitled
<1> QED
  BY <1>1, AlwaysInductive, PTL

\* require_authenticated and require_admin turn nobody away who was entitled
\* all the time.
THEOREM AlwaysRefusedOnlyIfNotEntitled == Spec => RefusedOnlyIfNotEntitled
<1>1. ASSUME Inductive, NEW r \in Tasks, RefuseCall(r)
      PROVE  could_not[r]
  <2> DEFINE token == task[r].token
             row == sessions[token]
  <2>1. Is(r, "Call") /\ token \in Tokens \cup {None}
    BY <1>1 DEF RefuseCall, At, Is, Inductive, TypeOK, Login, Logout, ApiCall
  <2>2. CASE token = None
    BY <1>1, <2>1, <2>2 DEF Inductive, TasksOK, WitnessOK, MustBeServed, Entitled
  <2>3. CASE token # None
    <3>1. /\ token \in Tokens /\ row # None /\ row \in Session
          /\ row.user = issued[token].user /\ issued[token] \in Issue
          /\ row.expires_at = issued[token].at + Lifetime
          /\ row.revoked_at # None => logout[token] # "No"
      BY <1>1, <2>1, <2>3 DEF Inductive, TypeOK, SessionsOK, SessionOK, TasksOK, CallOK
    <3> HIDE DEF row
    <3>2. Row(r) = row
      BY <2>3 DEF Row, row
    <3>3. ~ ValidSession(row) \/ ~ MayUse(row.user, task[r].route)
      BY <1>1, <3>2 DEF RefuseCall
    <3>4. CASE ~ ValidSession(row)
      <4>1. clock \in Nat /\ issued[token].at + Lifetime \in Int
        BY <1>1, <3>1, AccessAssumption DEF Inductive, TypeOK, Issue
      <4> QED
        BY <3>1, <3>4, <4>1, <1>1, <2>1 DEF ValidSession, Inductive, TasksOK, WitnessOK,
           MustBeServed, Entitled
    <3>5. CASE ~ MayUse(row.user, task[r].route)
      BY <1>1, <2>1, <3>1, <3>5 DEF MayUse, Inductive, TasksOK, WitnessOK, MustBeServed,
         Entitled
    <3> QED
      BY <3>3, <3>4, <3>5
  <2> QED
    BY <2>2, <2>3
<1> DEFINE NotEntitled == \A r \in Tasks : RefuseCall(r) => could_not[r]
<1>2. Inductive /\ [Next]_vars => [NotEntitled]_vars
  BY <1>1
<1> QED
  BY <1>2, AlwaysInductive, PTL DEF Spec, RefusedOnlyIfNotEntitled

\* However logins and logouts overlap, a session row is never removed, renewed
\* or given to another user, and keeps its first revocation.
THEOREM SessionsAlwaysOnlyEnd == Spec => SessionsOnlyEnd
<1> DEFINE OnlyEnd ==
        \A k \in Tokens : sessions[k] # None =>
          /\ sessions'[k] # None
          /\ sessions'[k].user = sessions[k].user
          /\ sessions'[k].expires_at = sessions[k].expires_at
          /\ sessions[k].revoked_at # None
                => sessions'[k].revoked_at = sessions[k].revoked_at
<1>1. ASSUME Inductive, NEW r \in Tasks, InsertSession(r) PROVE OnlyEnd
  <2>1. sessions[task[r].token] = None
    BY <1>1 DEF InsertSession, Inductive, TasksOK, LoginOK
  <2>2. \A k \in Tokens \ {task[r].token} : sessions'[k] = sessions[k]
    BY <1>1 DEF InsertSession, Inductive, TypeOK
  <2> QED
    BY <2>1, <2>2
<1>2. ASSUME Inductive, NEW r \in Tasks, RevokeSession(r) PROVE OnlyEnd
  <2>1. \A k \in Tokens : sessions'[k] = sessions[k] \/ sessions'[k] = Revoked(sessions[k])
    BY <1>2 DEF RevokeSession, RevokedIn, Inductive, TypeOK
  <2>2. \A k \in Tokens : sessions[k] # None => Revoked(sessions[k]) # None
    BY <1>2, RevokedRow, NoneAssumption DEF Inductive
  <2> QED
    BY <1>2, <2>1, <2>2, RevokedRow DEF Inductive
<1>3. ASSUME Inductive, Next PROVE OnlyEnd
  <2>1. \/ UNCHANGED sessions
        \/ \E r \in Tasks : InsertSession(r) \/ RevokeSession(r)
    BY <1>3 DEF Next, Step, data, Tick, SetStatus, ReceiveLogin, FindLoginUser, RefuseLogin,
       GenerateToken, ReceiveLogout, ReceiveCall, RefuseCall, AcceptCall, CreateAccount,
       Serve, Fail
  <2> QED
    BY <1>1, <1>2, <1>3, <2>1
<1>4. Inductive /\ [Next]_vars => [OnlyEnd]_vars
  BY <1>3
<1> QED
  BY <1>4, AlwaysInductive, PTL DEF Spec, SessionsOnlyEnd

\* create_account gives an account to nobody but the user its token was issued
\* to, in a call that was entitled while it was in progress.
THEOREM AccountsAlwaysOfCallers == Spec => AccountsOfCallers
<1> DEFINE OfCallers ==
        \A u \in Users : accounts'[u] # accounts[u] =>
          \E r \in Tasks :
             /\ Is(r, "Call") /\ could[r]
             /\ issued[task[r].token].user = u
<1>1. ASSUME Inductive, NEW r \in Tasks, NEW name \in Names, CreateAccount(r, name)
      PROVE  OfCallers
  <2>1. Is(r, "Call") /\ could[r] /\ issued[task[r].token].user = task[r].user
    BY <1>1 DEF CreateAccount, At, Inductive, TasksOK, CallOK
  <2>2. \A u \in Users \ {task[r].user} : accounts'[u] = accounts[u]
    BY <1>1 DEF CreateAccount, Inductive, TypeOK
  <2> QED
    BY <2>1, <2>2
<1>2. ASSUME Inductive, Next PROVE OfCallers
  <2>1. \/ UNCHANGED accounts
        \/ \E r \in Tasks, name \in Names : CreateAccount(r, name)
    BY <1>2 DEF Next, Step, data, Tick, SetStatus, ReceiveLogin, FindLoginUser, RefuseLogin,
       GenerateToken, InsertSession, ReceiveLogout, RevokeSession, ReceiveCall, RefuseCall,
       AcceptCall, Serve, Fail
  <2> QED
    BY <1>1, <1>2, <2>1
<1>3. Inductive /\ [Next]_vars => [OfCallers]_vars
  BY <1>2
<1> QED
  BY <1>3, AlwaysInductive, PTL DEF Spec, AccountsOfCallers
=============================================================================
