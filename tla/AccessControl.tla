--------------------------- MODULE AccessControl ---------------------------
(***************************************************************************)
(* src/api/auth/ and the routes behind it: who gets a session, what a      *)
(* bearer token opens, and for how long.  Requests run concurrently; each  *)
(* step below is one database statement with the code that follows it up   *)
(* to the next await.                                                      *)
(*                                                                         *)
(* A raw token and its SHA-256 digest are the same value here, and one     *)
(* clock stands for Utc::now() and the now() of the database.              *)
(***************************************************************************)
EXTENDS Integers, FiniteSets

CONSTANTS
    Users,     \* users that have credentials
    Admins,    \* those whose role is admin
    Tokens,    \* tokens that may be generated
    Names,     \* account names
    Statuses,  \* the user statuses that occur; all but Active are alike
    Tasks,     \* requests handled at a time
    Lifetime,  \* SESSION_LIFETIME_HOURS
    MaxClock,  \* bound: the clock stops here
    None       \* NULL; as a token, one that no login returned, or none at all

ASSUME AccessAssumption ==
    /\ Admins \subseteq Users
    /\ Lifetime \in Nat \ {0} /\ MaxClock \in Nat
    /\ "Active" \in Statuses /\ Statuses \subseteq {"Active", "Suspended", "Closed"}

VARIABLES
    clock,
    status,    \* users.status
    sessions,  \* the sessions table: token -> row, or None
    accounts,  \* the accounts table: user -> names of their accounts
    task,      \* the request in progress, or None
    issued,    \* history: token -> the login it was generated by, or None
    logout,    \* history: token -> whether a logout was asked for or answered
    could,     \* history: the call was entitled at some moment since it came
    could_not  \* history: it was not quite entitled at some moment since it came

data == <<clock, status, sessions, accounts>>
vars == <<data, task, issued, logout, could, could_not>>

Times == 0 .. (MaxClock + Lifetime)
Session == [user: Users, expires_at: Times, revoked_at: Times \cup {None}]

Routes == {"User", "Admin"}
Login == [kind: {"Login"}, user: Users, at: {"Load", "Verify", "Insert"}, status: Statuses \cup {None},
          token: Tokens \cup {None}]
Logout == [kind: {"Logout"}, token: Tokens \cup {None}]
ApiCall == [kind: {"Call"}, token: Tokens \cup {None}, route: Routes,
            at: {"Check", "Handle"}, user: Users \cup {None}]
Issue == [user: Users, at: 0 .. MaxClock]

ASSUME NoneAssumption ==
    None \notin Session \cup Login \cup Logout \cup ApiCall \cup Issue \cup Tokens \cup Times

Is(r, kind) == task[r] # None /\ task[r].kind = kind
At(r, kind, step) == Is(r, kind) /\ task[r].at = step

Answer(r, code) == task' = [task EXCEPT ![r] = None]

\* The row a request's token is looked up to, and the tokens callers present.
Row(r) == IF task[r].token = None THEN None ELSE sessions[task[r].token]
Presented == {k \in Tokens : sessions[k] # None} \cup {None}

-----------------------------------------------------------------------------
(* What a caller may rely on, from the logins and logouts that were        *)
(* answered; the tables are not consulted.                                 *)

\* The call of task r may have its effect at this moment, if the logouts of its
\* token have got no further than `progress` says.
Entitled(r, progress) ==
    LET token == task[r].token
    IN  /\ token # None
        /\ issued[token] # None
        /\ clock < issued[token].at + Lifetime
        /\ logout[token] \in progress
        /\ status[issued[token].user] = "Active"
        /\ task[r].route = "Admin" => issued[token].user \in Admins

CanBeServed(r) == Entitled(r, {"No", "Asked"})
MustBeServed(r) == Entitled(r, {"No"})

\* The histories could and could_not after a step.
Witness ==
    /\ could' = [r \in Tasks |->
         Is(r, "Call")' /\ ((Is(r, "Call") /\ could[r]) \/ CanBeServed(r)')]
    /\ could_not' = [r \in Tasks |->
         Is(r, "Call")' /\ ((Is(r, "Call") /\ could_not[r]) \/ ~ MustBeServed(r)')]

-----------------------------------------------------------------------------
Init ==
    /\ clock = 0
    /\ status = [u \in Users |-> "Active"]
    /\ sessions = [k \in Tokens |-> None]
    /\ accounts = [u \in Users |-> {}]
    /\ task = [r \in Tasks |-> None]
    /\ issued = [k \in Tokens |-> None]
    /\ logout = [k \in Tokens |-> "No"]
    /\ could = [r \in Tasks |-> FALSE]
    /\ could_not = [r \in Tasks |-> FALSE]

Tick ==
    /\ clock < MaxClock
    /\ clock' = clock + 1
    /\ UNCHANGED <<status, sessions, accounts, task, issued, logout>>

\* An operator changes the status of a user in the database.
SetStatus(user, new) ==
    /\ status[user] # new
    /\ status' = [status EXCEPT ![user] = new]
    /\ UNCHANGED <<clock, sessions, accounts, task, issued, logout>>

-----------------------------------------------------------------------------
(* POST /auth/login.                                                       *)

ReceiveLogin(r, user) ==
    /\ task[r] = None
    /\ task' = [task EXCEPT ![r] = [kind |-> "Login", user |-> user,
                                    at |-> "Load", status |-> None, token |-> None]]
    /\ UNCHANGED <<data, issued, logout>>

\* find_login_user: the status is read here, before the slow hash.
FindLoginUser(r) ==
    /\ At(r, "Login", "Load")
    /\ task' = [task EXCEPT ![r].at = "Verify", ![r].status = status[task[r].user]]
    /\ UNCHANGED <<data, issued, logout>>

\* verify_password says whether the password is that of the user, then the
\* status is checked, and a token generated with its expiry.
RefuseLogin(r) ==
    /\ At(r, "Login", "Verify")
    /\ Answer(r, 401) \/ (task[r].status # "Active" /\ Answer(r, 403))
    /\ UNCHANGED <<data, issued, logout>>

GenerateToken(r, token) ==
    /\ At(r, "Login", "Verify")
    /\ task[r].status = "Active"
    /\ issued[token] = None
    /\ issued' = [issued EXCEPT ![token] = [user |-> task[r].user, at |-> clock]]
    /\ task' = [task EXCEPT ![r].at = "Insert", ![r].token = token]
    /\ UNCHANGED <<data, logout>>

\* A bug: the lifetime is counted from the insert.
ExpiryOf_Insert(token) == clock + Lifetime

ExpiryOf(token) == issued[token].at + Lifetime

\* The table refuses a session that has already expired.  That the answer may
\* be lost makes no difference here: a token nobody presents.
InsertSession(r) ==
    /\ At(r, "Login", "Insert")
    /\ LET expires_at == ExpiryOf(task[r].token)
       IN  IF expires_at > clock
             THEN /\ sessions' = [sessions EXCEPT ![task[r].token] =
                        [user |-> task[r].user, expires_at |-> expires_at,
                         revoked_at |-> None]]
                  /\ Answer(r, 200)
             ELSE /\ Answer(r, 500)
                  /\ UNCHANGED sessions
    /\ UNCHANGED <<clock, status, accounts, issued, logout>>

-----------------------------------------------------------------------------
(* POST /auth/logout.                                                      *)

ReceiveLogout(r, token) ==
    /\ task[r] = None
    /\ task' = [task EXCEPT ![r] = [kind |-> "Logout", token |-> token]]
    /\ logout' = [k \in Tokens |->
                    IF k = token /\ logout[k] = "No" THEN "Asked" ELSE logout[k]]
    /\ UNCHANGED <<data, issued>>

\* A bug: a second logout moves the time of revocation.
Revoked_Again(row) == IF row = None THEN None ELSE [row EXCEPT !.revoked_at = clock]

\* UPDATE ... SET revoked_at = now() WHERE revoked_at IS NULL
Revoked(row) ==
    IF row = None \/ row.revoked_at # None THEN row
    ELSE [row EXCEPT !.revoked_at = clock]

\* A bug: every session of the user is revoked.
RevokedIn_ByUser(table, token) ==
    [k \in Tokens |->
        IF table[token] # None /\ table[k] # None /\ table[k].user = table[token].user
          THEN Revoked(table[k]) ELSE table[k]]

RevokedIn(table, token) == [table EXCEPT ![token] = Revoked(@)]

\* Valid, revoked and unknown tokens are answered alike.  The answer may be
\* lost when the update is done: the caller then knows nothing.
RevokeSession(r) ==
    /\ Is(r, "Logout")
    /\ IF task[r].token = None
         THEN UNCHANGED <<sessions, logout>>
         ELSE /\ sessions' = RevokedIn(sessions, task[r].token)
              /\ logout' \in {[logout EXCEPT ![task[r].token] = "Answered"], logout}
    /\ Answer(r, 204)
    /\ UNCHANGED <<clock, status, accounts, issued>>

-----------------------------------------------------------------------------
(* Calls of protected routes.                                              *)

ReceiveCall(r, token, route) ==
    /\ task[r] = None
    /\ task' = [task EXCEPT ![r] = [kind |-> "Call", token |-> token, route |-> route,
                                    at |-> "Check", user |-> None]]
    /\ UNCHANGED <<data, issued, logout>>

\* A bug: the expiry is not looked at.
ValidSession_Unexpiring(row) == row # None /\ row.revoked_at = None

\* find_valid_session, the WHERE clause.
ValidSession(row) ==
    row # None /\ row.revoked_at = None /\ row.expires_at > clock

\* A bug: the status of the user is not looked at.
MayUse_AnyStatus(user, route) == route = "Admin" => user \in Admins

\* require_authenticated on the status, require_admin on the role, both of
\* which were read with the session.
MayUse(user, route) ==
    /\ status[user] = "Active"
    /\ route = "Admin" => user \in Admins

RefuseCall(r) ==
    /\ At(r, "Call", "Check")
    /\ LET row == Row(r)
       IN  IF ~ ValidSession(row) THEN Answer(r, 401)
           ELSE ~ MayUse(row.user, task[r].route) /\ Answer(r, 403)
    /\ UNCHANGED <<data, issued, logout>>

\* The identity is attached to the request; the handler runs later.
AcceptCall(r) ==
    /\ At(r, "Call", "Check")
    /\ LET row == Row(r)
       IN  /\ ValidSession(row)
           /\ MayUse(row.user, task[r].route)
           /\ task' = [task EXCEPT ![r].at = "Handle", ![r].user = row.user]
    /\ UNCHANGED <<data, issued, logout>>

\* create_account, under UNIQUE (user_id, name); the owner is the identity.
CreateAccount(r, name) ==
    /\ At(r, "Call", "Handle") /\ task[r].route = "User"
    /\ IF name \in accounts[task[r].user]
         THEN Answer(r, 409) /\ UNCHANGED accounts
         ELSE /\ accounts' = [accounts EXCEPT ![task[r].user] = @ \cup {name}]
              /\ Answer(r, 201)
    /\ UNCHANGED <<clock, status, sessions, issued, logout>>

\* list_accounts, current_user, the instrument routes and the admin routes:
\* nothing of the state kept here changes.
Serve(r) ==
    /\ At(r, "Call", "Handle")
    /\ Answer(r, 200)
    /\ UNCHANGED <<data, issued, logout>>

\* A statement fails, or the client hangs up and the handler is dropped.
Fail(r) ==
    /\ task[r] # None
    /\ Answer(r, 500)
    /\ UNCHANGED <<data, issued, logout>>

Step ==
    \/ Tick
    \/ \E user \in Users, new \in Statuses : SetStatus(user, new)
    \/ \E r \in Tasks :
        \/ \E user \in Users : ReceiveLogin(r, user)
        \/ FindLoginUser(r) \/ RefuseLogin(r) \/ InsertSession(r)
        \/ \E token \in Tokens : GenerateToken(r, token)
        \/ \E token \in Presented : ReceiveLogout(r, token)
        \/ RevokeSession(r)
        \/ \E token \in Presented, route \in Routes : ReceiveCall(r, token, route)
        \/ RefuseCall(r) \/ AcceptCall(r)
        \/ \E name \in Names : CreateAccount(r, name)
        \/ Serve(r)
        \/ Fail(r)

Next == Step /\ Witness

Spec == Init /\ [][Next]_vars

-----------------------------------------------------------------------------
\* The type invariant; a session row agrees with the login it comes from.
TypeOK ==
    /\ clock \in 0 .. MaxClock
    /\ status \in [Users -> Statuses]
    /\ sessions \in [Tokens -> Session \cup {None}]
    /\ \A k \in Tokens : sessions[k] # None =>
          /\ sessions[k].user = issued[k].user
          /\ sessions[k].expires_at = issued[k].at + Lifetime
    /\ accounts \in [Users -> SUBSET Names]
    /\ task \in [Tasks -> Login \cup Logout \cup ApiCall \cup {None}]
    /\ issued \in [Tokens -> Issue \cup {None}]
    /\ logout \in [Tokens -> {"No", "Asked", "Answered"}]
    /\ could \in [Tasks -> BOOLEAN] /\ could_not \in [Tasks -> BOOLEAN]

\* A handler runs for a call only if its caller was entitled to it at some
\* moment since the call came: after a logout has been answered, once the
\* session is older than its lifetime, or while the user is suspended, a new
\* call gets nowhere, whatever else is in progress.
HandledOnlyIfEntitled == \A r \in Tasks : At(r, "Call", "Handle") => could[r]

\* And nobody is turned away without a reason: a call answered 401 or 403 met
\* a moment when its user was inactive or not an administrator, its session
\* was over, or somebody had asked to end that very session.
RefusedOnlyIfNotEntitled ==
    [][ \A r \in Tasks : RefuseCall(r) => could_not[r] ]_vars

\* "This keeps a useful audit trail": a session row is never removed, its user
\* and expiry never change, and the first revocation is the one on record, with
\* any number of concurrent logouts.
SessionsOnlyEnd ==
    [][ \A k \in Tokens : sessions[k] # None =>
          /\ sessions'[k] # None
          /\ sessions'[k].user = sessions[k].user
          /\ sessions'[k].expires_at = sessions[k].expires_at
          /\ sessions[k].revoked_at # None
                => sessions'[k].revoked_at = sessions[k].revoked_at
      ]_vars

\* A user gets an account only from a call with a token that was issued to that
\* very user, and that was entitled while the call was in progress.
AccountsOfCallers ==
    [][ \A u \in Users : accounts'[u] # accounts[u] =>
          \E r \in Tasks :
             /\ Is(r, "Call") /\ could[r]
             /\ issued[task[r].token].user = u
      ]_vars
=============================================================================
