------------------------- MODULE UserAccountsProofs -------------------------
(***************************************************************************)
(* The safety of user creation, for any number of attempts and emails: the *)
(* users table is never written by two sides of bootstrap_admin's lock.    *)
(***************************************************************************)
EXTENDS UserAccounts, TLAPS

Is(r, kind) == task[r] # None /\ task[r].kind = kind
Ended(r) == At(r, "Rollback") \/ At(r, "Done")

\* Whose row is in the table has ended with a commit, and has the credentials
\* that its way of creation promises.
RowsOK ==
    /\ \A u \in users : At(u.id, "Done") /\ task[u.id].code # 409
    /\ \A u \in users : ~ Is(u.id, "CreateUser") => u.id \in credentials
    /\ credentials \subseteq {u.id : u \in users}

\* Who has come past the insert has an uncommitted row, and the holder of the
\* table lock is the only one who may have such a row.
LockOK ==
    /\ \A r \in Attempts : At(r, "Credentials") \/ At(r, "Commit") => r \in open
    /\ \A r \in locked : open \subseteq {r}
    /\ \A r \in Attempts :
          Is(r, "Bootstrap") /\ ~ At(r, "Lock") /\ ~ Ended(r) => r \in locked

\* A bootstrap that has looked for administrators is right about what it saw.
SeenOK ==
    \A r \in Attempts :
        Is(r, "Bootstrap") /\ (At(r, "User") \/ At(r, "Credentials") \/ At(r, "Commit"))
            => Admins = {}

\* Only an attempt that has ended has been answered; a conflict is a conflict.
CodesOK ==
    \A r \in Attempts : task[r] # None /\ task[r].code # None =>
        /\ Ended(r)
        /\ task[r].code = 409 => \E u \in users : u.email = task[r].email

Inductive == TypeOK /\ RowsOK /\ LockOK /\ SeenOK /\ CodesOK

-----------------------------------------------------------------------------
(* The two ways a task moves on.                                           *)

LEMMA Moved ==
    ASSUME TypeOK, NEW r \in Attempts, task[r] # None, NEW step \in Steps,
           NEW code \in Codes, Ends(r, step, code)
    PROVE  /\ task' \in [Attempts -> Task \cup {None}]
           /\ \A q \in Attempts \ {r} : task'[q] = task[q]
           /\ task'[r] # None /\ task'[r].at = step /\ task'[r].code = code
           /\ task'[r].kind = task[r].kind /\ task'[r].email = task[r].email
           /\ task'[r].role = task[r].role
<1>1. task \in [Attempts -> Task \cup {None}] /\ task[r] \in Task
  BY DEF TypeOK
<1> DEFINE moved == [task[r] EXCEPT !.at = step, !.code = code]
<1>2. moved \in Task
  BY <1>1 DEF Task
<1>3. task' = [task EXCEPT ![r] = moved]
  BY <1>1 DEF Ends
<1>4. moved # None
  BY <1>2, NoneAssumption
<1>5. /\ moved.at = step /\ moved.code = code /\ moved.kind = task[r].kind
      /\ moved.email = task[r].email /\ moved.role = task[r].role
  BY <1>1 DEF Task
<1> HIDE DEF moved
<1>6. task'[r] = moved /\ \A q \in Attempts \ {r} : task'[q] = task[q]
  BY <1>1, <1>3
<1>7. task' \in [Attempts -> Task \cup {None}]
  BY <1>1, <1>2, <1>3
<1> QED
  BY <1>4, <1>5, <1>6, <1>7

LEMMA GoesEnds ==
    ASSUME TypeOK, NEW r \in Attempts, task[r] # None, NEW step, Goes(r, step)
    PROVE  Ends(r, step, task[r].code) /\ task[r].code \in Codes
<1>1. task \in [Attempts -> Task \cup {None}] /\ task[r] \in Task
  BY DEF TypeOK
<1>2. [task[r] EXCEPT !.at = step] = [task[r] EXCEPT !.at = step, !.code = task[r].code]
  BY <1>1 DEF Task
<1>3. task' = [task EXCEPT ![r] = [@ EXCEPT !.at = step]]
  BY DEF Goes
<1> QED
  BY <1>1, <1>2, <1>3 DEF Ends, Task

\* An attempt that moves on without touching the tables keeps what depends on
\* the tables.
LEMMA RowsKept ==
    ASSUME Inductive, UNCHANGED <<users, credentials>>, NEW r \in Attempts,
           ~ At(r, "Done"), \A q \in Attempts \ {r} : task'[q] = task[q]
    PROVE  RowsOK'
<1>1. \A u \in users : u.id \in Attempts \ {r}
  BY DEF Inductive, RowsOK, TypeOK
<1> QED
  BY <1>1 DEF Inductive, RowsOK, At, Is

-----------------------------------------------------------------------------
(* The steps.                                                              *)

LEMMA StartStep ==
    ASSUME Inductive, NEW r \in Attempts, NEW kind \in Kinds,
           NEW email \in Emails \cup {None}, NEW role \in Roles, NEW step \in {"User", "Lock"},
           kind = "Bootstrap" => step = "Lock",
           Start(r, kind, email, role, step)
    PROVE  Inductive'
<1> DEFINE new == [kind |-> kind, email |-> email, role |-> role, at |-> step, code |-> None]
<1>1. new \in Task
  BY DEF Task, Steps, Codes
<1>2. /\ new.kind = kind /\ new.at = step /\ new.code = None /\ new # None
  BY <1>1, NoneAssumption
<1>3. task' = [task EXCEPT ![r] = new] /\ task[r] = None
      /\ UNCHANGED <<users, credentials, open, locked>>
  BY DEF Start
<1> HIDE DEF new
<1>4. /\ task' \in [Attempts -> Task \cup {None}]
      /\ task'[r] = new /\ \A q \in Attempts \ {r} : task'[q] = task[q]
  BY <1>1, <1>3 DEF Inductive, TypeOK
<1>5. TypeOK'
  BY <1>3, <1>4 DEF Inductive, TypeOK
<1>6. RowsOK'
  BY <1>3, <1>4, RowsKept DEF At
<1>7. LockOK'
  BY <1>2, <1>3, <1>4 DEF Inductive, LockOK, At, Is, Ended
<1>8. SeenOK'
  BY <1>2, <1>3, <1>4 DEF Inductive, SeenOK, At, Is, Admins
<1>9. CodesOK'
  BY <1>2, <1>3, <1>4 DEF Inductive, CodesOK, Ended, At
<1> QED
  BY <1>5, <1>6, <1>7, <1>8, <1>9 DEF Inductive

LEMMA LockTableStep ==
    ASSUME Inductive, NEW r \in Attempts, LockTable(r)
    PROVE  Inductive'
<1>1. /\ task[r] # None /\ task[r].at = "Lock" /\ Goes(r, "Check")
      /\ locked \subseteq {r} /\ open = {} /\ locked' = locked \cup {r}
      /\ UNCHANGED <<users, credentials, open>>
  BY DEF LockTable, At, Writable
<1>2. /\ task' \in [Attempts -> Task \cup {None}]
      /\ \A q \in Attempts \ {r} : task'[q] = task[q]
      /\ task'[r] # None /\ task'[r].at = "Check"
      /\ task'[r].kind = task[r].kind /\ task'[r].code = task[r].code
  BY <1>1, Moved, GoesEnds DEF Inductive, Steps, Codes
<1>3. TypeOK'
  BY <1>1, <1>2 DEF Inductive, TypeOK
<1>4. RowsOK'
  BY <1>1, <1>2, RowsKept DEF At
<1>5. LockOK'
  BY <1>1, <1>2 DEF Inductive, LockOK, At, Is, Ended
<1>6. SeenOK'
  BY <1>1, <1>2 DEF Inductive, SeenOK, At, Is, Admins
<1>7. CodesOK'
  BY <1>1, <1>2 DEF Inductive, CodesOK, Ended, At
<1> QED
  BY <1>3, <1>4, <1>5, <1>6, <1>7 DEF Inductive

LEMMA AdminExistsStep ==
    ASSUME Inductive, NEW r \in Attempts, AdminExists(r)
    PROVE  Inductive'
<1>1. /\ task[r] # None /\ task[r].at = "Check"
      /\ IF Admins = {} THEN Goes(r, "User") ELSE Ends(r, "Rollback", 500)
      /\ UNCHANGED <<users, credentials, open, locked>>
  BY DEF AdminExists, At
<1>2. /\ task' \in [Attempts -> Task \cup {None}]
      /\ \A q \in Attempts \ {r} : task'[q] = task[q]
      /\ task'[r] # None /\ task'[r].kind = task[r].kind
      /\ \/ Admins = {} /\ task'[r].at = "User" /\ task'[r].code = task[r].code
         \/ task'[r].at = "Rollback" /\ task'[r].code = 500
  <2>1. CASE Admins = {}
    BY <1>1, <2>1, Moved, GoesEnds DEF Inductive, Steps, Codes
  <2>2. CASE Admins # {}
    BY <1>1, <2>2, Moved DEF Inductive, Steps, Codes
  <2> QED
    BY <2>1, <2>2
<1>3. TypeOK'
  BY <1>1, <1>2 DEF Inductive, TypeOK
<1>4. RowsOK'
  BY <1>1, <1>2, RowsKept DEF At
<1>5. LockOK'
  BY <1>1, <1>2 DEF Inductive, LockOK, At, Is, Ended
<1>6. SeenOK'
  BY <1>1, <1>2 DEF Inductive, SeenOK, At, Is, Admins
<1>7. CodesOK'
  BY <1>1, <1>2 DEF Inductive, CodesOK, Ended, At
<1> QED
  BY <1>3, <1>4, <1>5, <1>6, <1>7 DEF Inductive

LEMMA InsertConflictStep ==
    ASSUME Inductive, NEW r \in Attempts, InsertConflict(r)
    PROVE  Inductive'
<1> DEFINE code == IF task[r].kind = "Bootstrap" THEN 500 ELSE 409
<1>1. /\ task[r] # None /\ task[r].at = "User" /\ Ends(r, "Rollback", code)
      /\ \E u \in users : u.email = task[r].email
      /\ UNCHANGED <<users, credentials, open, locked>>
  BY DEF InsertConflict, At, Taken
<1>2. code \in {409, 500}
  OBVIOUS
<1> HIDE DEF code
<1>3. /\ task' \in [Attempts -> Task \cup {None}]
      /\ \A q \in Attempts \ {r} : task'[q] = task[q]
      /\ task'[r] # None /\ task'[r].at = "Rollback" /\ task'[r].code = code
      /\ task'[r].kind = task[r].kind /\ task'[r].email = task[r].email
  BY <1>1, <1>2, Moved DEF Inductive, Steps, Codes
<1>4. TypeOK'
  BY <1>1, <1>3 DEF Inductive, TypeOK
<1>5. RowsOK'
  BY <1>1, <1>3, RowsKept DEF At
<1>6. LockOK'
  BY <1>1, <1>3 DEF Inductive, LockOK, At, Is, Ended
<1>7. SeenOK'
  BY <1>1, <1>3 DEF Inductive, SeenOK, At, Is, Admins
<1>8. CodesOK'
  BY <1>1, <1>3 DEF Inductive, CodesOK, Ended, At
<1> QED
  BY <1>4, <1>5, <1>6, <1>7, <1>8 DEF Inductive

LEMMA InsertUserStep ==
    ASSUME Inductive, NEW r \in Attempts, InsertUser(r)
    PROVE  Inductive'
<1> DEFINE step == IF task[r].kind = "CreateUser" THEN "Commit" ELSE "Credentials"
<1>1. /\ task[r] # None /\ task[r].at = "User" /\ Goes(r, step)
      /\ locked \subseteq {r} /\ open' = open \cup {r}
      /\ UNCHANGED <<users, credentials, locked>>
  BY DEF InsertUser, At, Writable
<1>2. step \in {"Credentials", "Commit"}
  OBVIOUS
<1> HIDE DEF step
<1>3. /\ task' \in [Attempts -> Task \cup {None}]
      /\ \A q \in Attempts \ {r} : task'[q] = task[q]
      /\ task'[r] # None /\ task'[r].at = step /\ task'[r].code = task[r].code
      /\ task'[r].kind = task[r].kind
  BY <1>1, <1>2, Moved, GoesEnds DEF Inductive, Steps
<1>4. TypeOK'
  BY <1>1, <1>3 DEF Inductive, TypeOK
<1>5. RowsOK'
  BY <1>1, <1>3, RowsKept DEF At
<1>6. LockOK'
  BY <1>1, <1>2, <1>3 DEF Inductive, LockOK, At, Is, Ended
<1>7. SeenOK'
  BY <1>1, <1>2, <1>3 DEF Inductive, SeenOK, At, Is, Admins
<1>8. CodesOK'
  BY <1>1, <1>2, <1>3 DEF Inductive, CodesOK, Ended, At
<1> QED
  BY <1>4, <1>5, <1>6, <1>7, <1>8 DEF Inductive

LEMMA InsertCredentialsStep ==
    ASSUME Inductive, NEW r \in Attempts, InsertCredentials(r)
    PROVE  Inductive'
<1>1. /\ task[r] # None /\ task[r].at = "Credentials" /\ Goes(r, "Commit")
      /\ UNCHANGED <<users, credentials, open, locked>>
  BY DEF InsertCredentials, At
<1>2. /\ task' \in [Attempts -> Task \cup {None}]
      /\ \A q \in Attempts \ {r} : task'[q] = task[q]
      /\ task'[r] # None /\ task'[r].at = "Commit" /\ task'[r].code = task[r].code
      /\ task'[r].kind = task[r].kind
  BY <1>1, Moved, GoesEnds DEF Inductive, Steps
<1>3. TypeOK'
  BY <1>1, <1>2 DEF Inductive, TypeOK
<1>4. RowsOK'
  BY <1>1, <1>2, RowsKept DEF At
<1>5. LockOK'
  BY <1>1, <1>2 DEF Inductive, LockOK, At, Is, Ended
<1>6. SeenOK'
  BY <1>1, <1>2 DEF Inductive, SeenOK, At, Is, Admins
<1>7. CodesOK'
  BY <1>1, <1>2 DEF Inductive, CodesOK, Ended, At
<1> QED
  BY <1>3, <1>4, <1>5, <1>6, <1>7 DEF Inductive

\* The one step that writes the tables: nobody who has looked for an
\* administrator is still on the way.
LEMMA CommitStep ==
    ASSUME Inductive, NEW r \in Attempts, Commit(r)
    PROVE  Inductive'
<1>1. /\ task[r] # None /\ task[r].at = "Commit"
      /\ users' = users \cup {Row(r)}
      /\ credentials' = IF task[r].kind = "CreateUser" THEN credentials
                        ELSE credentials \cup {r}
      /\ open' = open \ {r} /\ locked' = locked \ {r}
  BY DEF Commit, At
<1>2. /\ task' \in [Attempts -> Task \cup {None}]
      /\ \A q \in Attempts \ {r} : task'[q] = task[q]
      /\ task'[r] # None /\ task'[r].at = "Done" /\ task'[r].code \in {201, 500}
      /\ task'[r].kind = task[r].kind
  <2>1. PICK code \in {201, 500} : Ends(r, "Done", code)
    BY DEF Commit
  <2> QED
    BY <1>1, <2>1, Moved DEF Inductive, Steps, Codes
<1>3. /\ Row(r).id = r
      /\ Row(r) \in [id: Attempts, email: Emails \cup {None}, role: Roles]
  BY <1>1 DEF Row, Inductive, TypeOK, Task
<1>4. \A u \in users : u.id \in Attempts \ {r}
  BY <1>1 DEF Inductive, RowsOK, TypeOK, At
<1>5. TypeOK'
  BY <1>1, <1>2, <1>3 DEF Inductive, TypeOK
<1>6. RowsOK'
  <2>1. \A u \in users' : At(u.id, "Done")' /\ task'[u.id].code # 409
    BY <1>1, <1>2, <1>3, <1>4 DEF Inductive, RowsOK, At
  <2>2. \A u \in users' : ~ Is(u.id, "CreateUser")' => u.id \in credentials'
    BY <1>1, <1>2, <1>3, <1>4 DEF Inductive, RowsOK, Is
  <2>3. credentials' \subseteq {u.id : u \in users'}
    BY <1>1, <1>3 DEF Inductive, RowsOK
  <2> QED
    BY <2>1, <2>2, <2>3 DEF RowsOK
<1>7. LockOK'
  BY <1>1, <1>2 DEF Inductive, LockOK, At, Is, Ended
<1>8. SeenOK'
  <2>1. r \in open
    BY <1>1 DEF Inductive, LockOK, At
  <2>2. ASSUME NEW q \in Attempts, Is(q, "Bootstrap")',
               (At(q, "User") \/ At(q, "Credentials") \/ At(q, "Commit"))'
        PROVE  FALSE
    <3>1. q # r
      BY <1>2, <2>2 DEF At
    <3>2. q \in locked
      BY <1>2, <2>2, <3>1 DEF Inductive, LockOK, At, Is, Ended
    <3> QED
      BY <2>1, <3>1, <3>2 DEF Inductive, LockOK
  <2> QED
    BY <2>2 DEF SeenOK
<1>9. CodesOK'
  BY <1>1, <1>2 DEF Inductive, CodesOK, Ended, At
<1> QED
  BY <1>5, <1>6, <1>7, <1>8, <1>9 DEF Inductive

LEMMA FailStep ==
    ASSUME Inductive, NEW r \in Attempts, Fail(r)
    PROVE  Inductive'
<1>1. /\ task[r] # None /\ task[r].at # "Done" /\ Ends(r, "Rollback", 500)
      /\ UNCHANGED <<users, credentials, open, locked>>
  BY DEF Fail
<1>2. /\ task' \in [Attempts -> Task \cup {None}]
      /\ \A q \in Attempts \ {r} : task'[q] = task[q]
      /\ task'[r] # None /\ task'[r].at = "Rollback" /\ task'[r].code = 500
      /\ task'[r].kind = task[r].kind
  BY <1>1, Moved DEF Inductive, Steps, Codes
<1>3. TypeOK'
  BY <1>1, <1>2 DEF Inductive, TypeOK
<1>4. RowsOK'
  BY <1>1, <1>2, RowsKept DEF At
<1>5. LockOK'
  BY <1>1, <1>2 DEF Inductive, LockOK, At, Is, Ended
<1>6. SeenOK'
  BY <1>1, <1>2 DEF Inductive, SeenOK, At, Is, Admins
<1>7. CodesOK'
  BY <1>1, <1>2 DEF Inductive, CodesOK, Ended, At
<1> QED
  BY <1>3, <1>4, <1>5, <1>6, <1>7 DEF Inductive

LEMMA RollbackStep ==
    ASSUME Inductive, NEW r \in Attempts, Rollback(r)
    PROVE  Inductive'
<1>1. /\ task[r] # None /\ task[r].at = "Rollback" /\ Goes(r, "Done")
      /\ open' = open \ {r} /\ locked' = locked \ {r}
      /\ UNCHANGED <<users, credentials>>
  BY DEF Rollback, At, Unlocked
<1>2. /\ task' \in [Attempts -> Task \cup {None}]
      /\ \A q \in Attempts \ {r} : task'[q] = task[q]
      /\ task'[r] # None /\ task'[r].at = "Done" /\ task'[r].code = task[r].code
      /\ task'[r].kind = task[r].kind /\ task'[r].email = task[r].email
  BY <1>1, Moved, GoesEnds DEF Inductive, Steps
<1>3. TypeOK'
  BY <1>1, <1>2 DEF Inductive, TypeOK
<1>4. RowsOK'
  BY <1>1, <1>2, RowsKept DEF At
<1>5. LockOK'
  BY <1>1, <1>2 DEF Inductive, LockOK, At, Is, Ended
<1>6. SeenOK'
  BY <1>1, <1>2 DEF Inductive, SeenOK, At, Is, Admins
<1>7. CodesOK'
  BY <1>1, <1>2 DEF Inductive, CodesOK, Ended, At
<1> QED
  BY <1>3, <1>4, <1>5, <1>6, <1>7 DEF Inductive

\* The invariant is inductive.
THEOREM StepInductive == Inductive /\ [Next]_vars => Inductive'
<1> SUFFICES ASSUME Inductive, [Next]_vars PROVE Inductive'
  OBVIOUS
<1>1. ASSUME NEW r \in Attempts, NEW email \in Emails, Signup(r, email) PROVE Inductive'
  BY <1>1, StartStep DEF Signup, Kinds, Roles
<1>2. ASSUME NEW r \in Attempts, NEW email \in Emails, Bootstrap(r, email) PROVE Inductive'
  BY <1>2, StartStep DEF Bootstrap, Kinds, Roles
<1>3. ASSUME NEW r \in Attempts, NEW email \in Emails \cup {None}, NEW role \in Roles,
             CreateUser(r, email, role)
      PROVE  Inductive'
  BY <1>3, StartStep DEF CreateUser, Kinds
<1>4. ASSUME NEW r \in Attempts, Proceed(r) PROVE Inductive'
  BY <1>4, LockTableStep, AdminExistsStep, InsertConflictStep, InsertUserStep,
     InsertCredentialsStep, CommitStep, RollbackStep DEF Proceed
<1>5. ASSUME NEW r \in Attempts, Fail(r) PROVE Inductive'
  BY <1>5, FailStep
<1>6. CASE UNCHANGED vars
  BY <1>6 DEF vars, Inductive, TypeOK, RowsOK, LockOK, SeenOK, CodesOK, At, Is, Ended, Admins
<1> QED
  BY <1>1, <1>2, <1>3, <1>4, <1>5, <1>6 DEF Next

THEOREM AlwaysInductive == Spec => []Inductive
<1>1. Init => Inductive
  BY DEF Init, Inductive, TypeOK, RowsOK, LockOK, SeenOK, CodesOK, At, Is
<1> QED
  BY <1>1, StepInductive, PTL DEF Spec

-----------------------------------------------------------------------------
(* What the invariant gives.                                               *)

\* Every variable keeps its type, and the table lock is exclusive.
THEOREM TypeCorrect == Spec => []TypeOK
<1>1. Inductive => TypeOK
  BY DEF Inductive
<1> QED
  BY <1>1, AlwaysInductive, PTL

\* Nobody who signed up, and no first administrator, is without credentials.
THEOREM CredentialsAlwaysStored == Spec => []UsersHaveCredentials
<1>1. Inductive => UsersHaveCredentials
  BY DEF Inductive, RowsOK, UsersHaveCredentials, Is
<1> QED
  BY <1>1, AlwaysInductive, PTL

\* What an attempt that does not commit in this step leaves in the tables.
LEMMA FailsClean ==
    ASSUME Inductive, Inductive', UNCHANGED <<users, credentials>>,
           NEW q \in Attempts, ~ At(q, "Done"),
           \A r \in Attempts \ {q} : task'[r] = task[r],
           task[q] # None => task'[q] # None /\ task'[q].email = task[q].email,
           task[q] = None => task'[q] = None \/ task'[q].code = None,
           NEW r \in Attempts, Failed(r)'
    PROVE  \/ ~ Stored(r)' /\ r \notin credentials'
                /\ (~ Failed(r) /\ task'[r].code = 409 =>
                       \E u \in users : u.email = task[r].email)
           \/ Failed(r) /\ (Stored(r) <=> Stored(r)')
                /\ (r \in credentials <=> r \in credentials')
<1>1. CASE r # q
  BY <1>1 DEF Failed, Stored
<1>2. CASE r = q
  <2>1. task[q] # None
    BY <1>2, NoneAssumption DEF Failed
  <2>2. ~ Stored(q)' /\ q \notin credentials'
    BY DEF Stored, Inductive, RowsOK
  <2>3. task'[q].code = 409 => \E u \in users : u.email = task[q].email
    BY <2>1, NoneAssumption DEF Inductive, CodesOK
  <2> QED
    BY <1>2, <2>2, <2>3
<1> QED
  BY <1>1, <1>2

\* Whatever fails stores nothing, but for a commit whose acknowledgement is lost.
THEOREM FailuresAlwaysLeaveNothing == Spec => FailuresLeaveNothing
<1> DEFINE Clean(r) ==
          \/ ~ Stored(r)' /\ r \notin credentials'
               /\ (~ Failed(r) /\ task'[r].code = 409 =>
                      \E u \in users : u.email = task[r].email)
          \/ Failed(r) /\ (Stored(r) <=> Stored(r)')
               /\ (r \in credentials <=> r \in credentials')
          \/ /\ At(r, "Commit") /\ task'[r].code = 500
             /\ ~ Stored(r) /\ r \notin credentials
             /\ Row(r) \in users'
             /\ r \in credentials' <=> task[r].kind # "CreateUser"
<1>1. ASSUME Inductive, Inductive', NEW q \in Attempts, Commit(q), NEW r \in Attempts, Failed(r)'
      PROVE  Clean(r)
  <2>1. /\ task[q] # None /\ task[q].at = "Commit"
        /\ users' = users \cup {Row(q)}
        /\ credentials' = IF task[q].kind = "CreateUser" THEN credentials
                          ELSE credentials \cup {q}
    BY <1>1 DEF Commit, At
  <2>2. PICK code \in {201, 500} : Ends(q, "Done", code)
    BY <1>1 DEF Commit
  <2>3. task'[q].code = code /\ \A p \in Attempts \ {q} : task'[p] = task[p]
    BY <1>1, <2>1, <2>2, Moved DEF Inductive, Steps, Codes
  <2>4. Row(q).id = q /\ ~ Stored(q) /\ q \notin credentials
    BY <1>1, <2>1 DEF Row, Stored, Inductive, RowsOK, At
  <2>5. CASE r # q
    BY <1>1, <2>1, <2>3, <2>4, <2>5 DEF Failed, Stored
  <2>6. CASE r = q
    BY <1>1, <2>1, <2>3, <2>4, <2>6 DEF Failed, At
  <2> QED
    BY <2>5, <2>6
<1>2. ASSUME Inductive, Inductive', NEW q \in Attempts, NEW step \in Steps,
             NEW code \in Codes, task[q] # None, ~ At(q, "Done"), Ends(q, step, code),
             UNCHANGED <<users, credentials>>, NEW r \in Attempts, Failed(r)'
      PROVE  Clean(r)
  <2>1. /\ \A p \in Attempts \ {q} : task'[p] = task[p]
        /\ task'[q] # None /\ task'[q].email = task[q].email
    BY <1>2, Moved DEF Inductive
  <2> QED
    BY <1>2, <2>1, FailsClean
<1>3. ASSUME Inductive, Inductive', NEW q \in Attempts, NEW kind, NEW email, NEW role, NEW step,
             Start(q, kind, email, role, step), NEW r \in Attempts, Failed(r)'
      PROVE  Clean(r)
  <2> DEFINE new == [kind |-> kind, email |-> email, role |-> role, at |-> step, code |-> None]
  <2>1. task' = [task EXCEPT ![q] = new] /\ task[q] = None /\ UNCHANGED <<users, credentials>>
    BY <1>3 DEF Start
  <2>2. new.code = None
    OBVIOUS
  <2> HIDE DEF new
  <2>3. task'[q] = new /\ \A p \in Attempts \ {q} : task'[p] = task[p]
    BY <1>3, <2>1 DEF Inductive, TypeOK
  <2> QED
    BY <1>3, <2>1, <2>2, <2>3, FailsClean DEF At
<1>4. ASSUME Inductive, Inductive', NEW q \in Attempts,
             Proceed(q) \/ Fail(q), ~ Commit(q), NEW r \in Attempts, Failed(r)'
      PROVE  Clean(r)
  <2>1. UNCHANGED <<users, credentials>> /\ task[q] # None /\ ~ At(q, "Done")
    BY <1>4 DEF Proceed, LockTable, AdminExists, InsertConflict, InsertUser, InsertCredentials,
                Rollback, Fail, At
  <2>2. \E step \in Steps : Goes(q, step) \/ \E code \in Codes : Ends(q, step, code)
    BY <1>4 DEF Proceed, LockTable, AdminExists, InsertConflict, InsertUser, InsertCredentials,
                Rollback, Fail, Steps, Codes
  <2>3. \E step \in Steps, code \in Codes : Ends(q, step, code)
    BY <1>4, <2>1, <2>2, GoesEnds DEF Inductive
  <2> QED
    BY <1>2, <1>4, <2>1, <2>3
<1>5. ASSUME Inductive, Inductive', Next, NEW r \in Attempts, Failed(r)' PROVE Clean(r)
  BY <1>1, <1>3, <1>4, <1>5 DEF Next, Signup, Bootstrap, CreateUser
<1>6. Inductive /\ Inductive' /\ [Next]_vars => [\A r \in Attempts : Failed(r)' => Clean(r)]_vars
  BY <1>5
<1> QED
  BY <1>6, AlwaysInductive, PTL DEF Spec, FailuresLeaveNothing

\* bootstrap_admin never adds a second administrator, for any number of rivals.
THEOREM BootstrapAlwaysFirst == Spec => BootstrapIsFirst
<1> DEFINE First ==
        \A r \in Attempts :
          task[r] # None /\ task[r].kind = "Bootstrap"
             /\ Row(r) \in users' \ users => Admins = {}
<1>1. ASSUME Inductive, Next, NEW r \in Attempts, task[r] # None,
             task[r].kind = "Bootstrap", Row(r) \in users' \ users
      PROVE  Admins = {}
  <2>1. PICK q \in Attempts : Commit(q)
    BY <1>1 DEF Next, Signup, Bootstrap, CreateUser, Start, Proceed, LockTable, AdminExists,
                InsertConflict, InsertUser, InsertCredentials, Rollback, Fail
  <2>2. Row(r) = Row(q)
    BY <1>1, <2>1 DEF Commit
  <2>3. q = r
    BY <2>2 DEF Row
  <2> QED
    BY <1>1, <2>1, <2>3 DEF Commit, Inductive, SeenOK, Is
<1>2. Inductive /\ [Next]_vars => [First]_vars
  BY <1>1
<1> QED
  BY <1>2, AlwaysInductive, PTL DEF Spec, BootstrapIsFirst
=============================================================================
