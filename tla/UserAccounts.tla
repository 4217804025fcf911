---------------------------- MODULE UserAccounts ----------------------------
(***************************************************************************)
(* The three ways to create a user, which run concurrently against one     *)
(* users table: POST /auth/signup and POST /admin/users of the server, and *)
(* the program bootstrap_admin.  Each attempt is a task; each step is one  *)
(* database statement.                                                     *)
(*                                                                         *)
(* Of PostgreSQL the model has the waits: an insert waits for an open      *)
(* transaction that inserted the same email, and for a table lock; LOCK    *)
(* TABLE users IN EXCLUSIVE MODE waits for every transaction that has      *)
(* written to the table.  What is dropped without commit is rolled back    *)
(* some time later.                                                        *)
(***************************************************************************)
EXTENDS Integers

CONSTANTS
    Emails,    \* normalised emails
    Attempts,  \* the attempts to create a user
    None       \* NULL

VARIABLES
    users,        \* committed rows: [id, email, role]; the id is the attempt's
    credentials,  \* ids that have a committed password hash
    task,         \* attempt -> where it is
    open,         \* attempts with an uncommitted row in users
    locked        \* attempts that hold the EXCLUSIVE table lock

vars == <<users, credentials, task, open, locked>>

Roles == {"admin", "trader", "system"}
Kinds == {"Signup", "CreateUser", "Bootstrap"}
Steps == {"Lock", "Check", "User", "Credentials", "Commit", "Rollback", "Done"}
Codes == {None, 201, 409, 500}
Task == [kind: Kinds, email: Emails \cup {None}, role: Roles, at: Steps, code: Codes]

ASSUME NoneAssumption == None \notin Task \cup {201, 409, 500}

At(r, step) == task[r] # None /\ task[r].at = step
Goes(r, step) == task' = [task EXCEPT ![r].at = step]
Ends(r, step, code) ==
    task' = [task EXCEPT ![r] = [@ EXCEPT !.at = step, !.code = code]]

Row(r) == [id |-> r, email |-> task[r].email, role |-> task[r].role]
Admins == {u \in users : u.role = "admin"}

\* The users table may be written by r: nobody else has locked it.
Writable(r) == locked \subseteq {r}

-----------------------------------------------------------------------------
Init ==
    /\ users = {}
    /\ credentials = {}
    /\ task = [r \in Attempts |-> None]
    /\ open = {}
    /\ locked = {}

Start(r, kind, email, role, step) ==
    /\ task[r] = None
    /\ task' = [task EXCEPT ![r] = [kind |-> kind, email |-> email, role |-> role,
                                    at |-> step, code |-> None]]
    /\ UNCHANGED <<users, credentials, open, locked>>

\* validate_signup and hash_password have succeeded; the role is hard-coded.
Signup(r, email) == Start(r, "Signup", email, "trader", "User")

\* Behind require_admin: some administrator has logged in, with a password.
CreateUser(r, email, role) ==
    /\ \E u \in Admins : u.id \in credentials
    /\ Start(r, "CreateUser", email, role, "User")

\* Arguments, prompts and the hash are done before the transaction begins.
Bootstrap(r, email) == Start(r, "Bootstrap", email, "admin", "Lock")

\* A bug: the table is not locked.
LockTable_Not(r) ==
    /\ At(r, "Lock")
    /\ Goes(r, "Check")
    /\ UNCHANGED <<users, credentials, open, locked>>

LockTable(r) ==
    /\ At(r, "Lock")
    /\ Writable(r) /\ open = {}
    /\ locked' = locked \cup {r}
    /\ Goes(r, "Check")
    /\ UNCHANGED <<users, credentials, open>>

\* SELECT EXISTS(... role = 'admin'): with one, the program ends with an error.
AdminExists(r) ==
    /\ At(r, "Check")
    /\ IF Admins = {} THEN Goes(r, "User") ELSE Ends(r, "Rollback", 500)
    /\ UNCHANGED <<users, credentials, open, locked>>

\* Another open transaction has inserted the email: an insert waits.
Blocked(r) == task[r].email # None /\ \E q \in open : task[q].email = task[r].email

\* The email is a committed user's (UNIQUE; NULLs do not collide).
Taken(r) == task[r].email # None /\ \E u \in users : u.email = task[r].email

\* 23505: the server answers 409, the program ends with an error.
InsertConflict(r) ==
    /\ At(r, "User")
    /\ Writable(r)
    /\ Taken(r)
    /\ Ends(r, "Rollback", IF task[r].kind = "Bootstrap" THEN 500 ELSE 409)
    /\ UNCHANGED <<users, credentials, open, locked>>

\* A bug: the user is inserted outside the transaction.
InsertUser_Autocommit(r) ==
    /\ At(r, "User")
    /\ Writable(r) /\ ~ Taken(r) /\ ~ Blocked(r)
    /\ users' = users \cup {Row(r)}
    /\ Goes(r, IF task[r].kind = "CreateUser" THEN "Commit" ELSE "Credentials")
    /\ UNCHANGED <<credentials, open, locked>>

\* create_user has nothing more to insert; its statement commits by itself.
InsertUser(r) ==
    /\ At(r, "User")
    /\ Writable(r) /\ ~ Taken(r) /\ ~ Blocked(r)
    /\ open' = open \cup {r}
    /\ Goes(r, IF task[r].kind = "CreateUser" THEN "Commit" ELSE "Credentials")
    /\ UNCHANGED <<users, credentials, locked>>

InsertCredentials(r) ==
    /\ At(r, "Credentials")
    /\ Writable(r)
    /\ Goes(r, "Commit")
    /\ UNCHANGED <<users, credentials, open, locked>>

\* Both rows become visible together and the locks go.  The acknowledgement
\* may be lost; then the caller is told of a failure.
Commit(r) ==
    /\ At(r, "Commit")
    /\ users' = users \cup {Row(r)}
    /\ credentials' = IF task[r].kind = "CreateUser" THEN credentials
                      ELSE credentials \cup {r}
    /\ open' = open \ {r}
    /\ locked' = locked \ {r}
    /\ Ends(r, "Done", 201) \/ Ends(r, "Done", 500)

\* A bug: a failure to insert the credentials is noticed too late to be rolled
\* back with the user.
Fail_KeepsUser(r) ==
    /\ task[r] # None /\ task[r].at \notin {"Rollback", "Done"}
    /\ Ends(r, "Rollback", 500)
    /\ users' = IF At(r, "Credentials") THEN users \cup {Row(r)} ELSE users
    /\ UNCHANGED <<credentials, open, locked>>

\* A statement fails, the client hangs up, or the program is killed.
Fail(r) ==
    /\ task[r] # None /\ task[r].at \notin {"Rollback", "Done"}
    /\ Ends(r, "Rollback", 500)
    /\ UNCHANGED <<users, credentials, open, locked>>

\* A bug: a dropped transaction keeps its locks.
Unlocked_Not(r) == locked

Unlocked(r) == locked \ {r}

Rollback(r) ==
    /\ At(r, "Rollback")
    /\ open' = open \ {r}
    /\ locked' = Unlocked(r)
    /\ Goes(r, "Done")
    /\ UNCHANGED <<users, credentials>>

Proceed(r) ==
    \/ LockTable(r) \/ AdminExists(r)
    \/ InsertConflict(r) \/ InsertUser(r) \/ InsertCredentials(r) \/ Commit(r)
    \/ Rollback(r)

Next ==
    \E r \in Attempts :
        \/ \E email \in Emails : Signup(r, email) \/ Bootstrap(r, email)
        \/ \E email \in Emails \cup {None}, role \in Roles : CreateUser(r, email, role)
        \/ Proceed(r)
        \/ Fail(r)

Spec == Init /\ [][Next]_vars

\* What can run is run; the attempts of a behaviour are finitely many, so that
\* weak fairness serves every waiter in the end.
FairSpec == Spec /\ \A r \in Attempts : WF_vars(Proceed(r))

-----------------------------------------------------------------------------
\* The type invariant; the lock is exclusive.
TypeOK ==
    /\ users \subseteq [id: Attempts, email: Emails \cup {None}, role: Roles]
    /\ credentials \subseteq Attempts
    /\ task \in [Attempts -> Task \cup {None}]
    /\ open \subseteq Attempts
    /\ locked \subseteq Attempts /\ \A r, q \in locked : r = q

\* "Two simultaneous commands cannot both observe that no administrator
\* exists": bootstrap_admin adds a user only to a table without administrator,
\* and so at most once, whatever signups and other attempts are under way.
BootstrapIsFirst ==
    [][ \A r \in Attempts :
          task[r] # None /\ task[r].kind = "Bootstrap"
             /\ Row(r) \in users' \ users => Admins = {}
      ]_vars

\* "Either both records are committed or neither record is stored": at no time
\* has a user who signed up, or the first administrator, no credentials, and no
\* credentials belong to nobody.
UsersHaveCredentials ==
    /\ \A u \in users : task[u.id].kind # "CreateUser" => u.id \in credentials
    /\ credentials \subseteq {u.id : u \in users}

Stored(r) == \E u \in users : u.id = r
Failed(r) == task[r] # None /\ task[r].code \in {409, 500}

\* "If it fails, dropping the transaction rolls back the previously inserted
\* user".  Until an attempt fails nothing of it is in the tables; the failure
\* adds nothing, unless it is the loss of the acknowledgement of a commit, which
\* adds all that was promised; and nothing is added after it.  A conflict (409)
\* is with a user that another attempt has committed: the email of an attempt
\* that failed is free for the next one.
FailuresLeaveNothing ==
    [][ \A r \in Attempts : Failed(r)' =>
          \/ ~ Stored(r)' /\ r \notin credentials'
               /\ (~ Failed(r) /\ task'[r].code = 409 =>
                      \E u \in users : u.email = task[r].email)
          \/ Failed(r) /\ (Stored(r) <=> Stored(r)')
               /\ (r \in credentials <=> r \in credentials')
          \/ /\ At(r, "Commit") /\ task'[r].code = 500
             /\ ~ Stored(r) /\ r \notin credentials
             /\ Row(r) \in users'
             /\ r \in credentials' <=> task[r].kind # "CreateUser"
      ]_vars

\* Every attempt ends and holds nothing: signups and bootstraps never block one
\* another for ever.
AttemptsEnd ==
    \A r \in Attempts :
        task[r] # None ~> At(r, "Done") /\ r \notin open \cup locked
=============================================================================
