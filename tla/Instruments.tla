---------------------------- MODULE Instruments ----------------------------
(***************************************************************************)
(* src/api/admin/instruments.rs: administrators create instruments in      *)
(* batches and change their status.  Every request is a task that runs one *)
(* PostgreSQL transaction; requests interleave at each statement.          *)
(*                                                                         *)
(* Of PostgreSQL (READ COMMITTED) the model has what the handlers rely on: *)
(*   - an insert of a symbol that another open transaction inserted waits  *)
(*     for the end of that transaction, then stores or fails with 23505;   *)
(*   - FOR UPDATE and UPDATE wait for a row lock and keep it to the end;   *)
(*   - a cycle of waits is broken by an error in one of its transactions.  *)
(* A transaction that is dropped without commit (an error, an early return *)
(* or a client that hangs up) is rolled back by the pool some time after   *)
(* the response has been sent.                                             *)
(*                                                                         *)
(* Instruments are identified by their symbols, which are UNIQUE.          *)
(***************************************************************************)
EXTENDS Integers, Sequences, FiniteSets, SequencesExt

CONSTANTS
    Symbols,   \* symbols in canonical form
    Malformed, \* an element that validate_instrument refuses
    Requests,  \* the requests handled in a behaviour
    MaxBatch,  \* MAX_INSTRUMENTS_PER_REQUEST
    None

ASSUME InstrumentAssumption ==
    MaxBatch \in Nat /\ Malformed \notin Symbols /\ IsFiniteSet(Requests)

MarketStatus == {"Active", "Paused", "Delisted"}

VARIABLES
    rows,    \* committed rows: symbol -> status, or None
    holder,  \* symbol -> the request whose open transaction inserted or locked it
    task,    \* request -> where its handler is
    answer,  \* request -> the HTTP status it was answered with, or None
    creator  \* history: symbol -> the request that committed it

vars == <<rows, holder, task, answer, creator>>

\* A batch at its next-th insert, and a status change of a symbol.
Batches == SeqOf(Symbols \cup {Malformed}, MaxBatch + 1)
Creating == [kind: {"Create"}, batch: Batches, next: 1 .. MaxBatch + 2]
Updating == [kind: {"Update"}, symbol: Symbols, status: MarketStatus,
             at: {"Select", "Update", "Commit"}]

\* A request is idle (None), handled, rolled back in the background, or over.
Task == Creating \cup Updating
            \cup [kind: {"Rollback", "Done"}, batch: Batches \cup {<< >>}]

Answers == {200, 201, 400, 404, 409, 500}

ASSUME NoneAssumption == None \notin Task \cup Requests \cup MarketStatus \cup Answers

Handles(r, kind) == task[r] # None /\ task[r].kind = kind
BatchOf(r) == IF task[r] = None \/ task[r].kind = "Update" THEN << >> ELSE task[r].batch

ValidBatch(batch) ==
    /\ batch # << >>
    /\ Len(batch) <= MaxBatch
    /\ \A i \in DOMAIN batch : batch[i] # Malformed

ValidTransition(current, requested) == current = "Delisted" => requested = "Delisted"

-----------------------------------------------------------------------------
Init ==
    /\ rows = [s \in Symbols |-> None]
    /\ holder = [s \in Symbols |-> None]
    /\ task = [r \in Requests |-> None]
    /\ answer = [r \in Requests |-> None]
    /\ creator = [s \in Symbols |-> None]

Respond(r, status) == answer' = [answer EXCEPT ![r] = status]
Leave(r, kind) == task' = [task EXCEPT ![r] = [kind |-> kind, batch |-> BatchOf(r)]]

\* A bug: the rows of a dropped transaction stay locked.
Released_Not(r) == holder

\* The end of r's transaction, by commit or by rollback.
Released(r) == [s \in Symbols |-> IF holder[s] = r THEN None ELSE holder[s]]

\* An early return: the answer is sent, the transaction is left to the pool.
Refuse(r, status) ==
    /\ Respond(r, status)
    /\ Leave(r, "Rollback")
    /\ UNCHANGED <<rows, holder, creator>>

Rollback(r) ==
    /\ Handles(r, "Rollback")
    /\ holder' = Released(r)
    /\ Leave(r, "Done")
    /\ UNCHANGED <<rows, answer, creator>>

\* create_instruments up to begin(): the whole batch is validated first.
ReceiveBatch(r, batch) ==
    /\ task[r] = None
    /\ IF ValidBatch(batch)
         THEN /\ task' = [task EXCEPT
                            ![r] = [kind |-> "Create", batch |-> batch, next |-> 1]]
              /\ UNCHANGED answer
         ELSE /\ task' = [task EXCEPT ![r] = [kind |-> "Done", batch |-> << >>]]
              /\ Respond(r, 400)
    /\ UNCHANGED <<rows, holder, creator>>

Inserting(r) == Handles(r, "Create") /\ task[r].next <= Len(task[r].batch)
NextSymbol(r) == task[r].batch[task[r].next]

\* A bug: a symbol counts as taken while its transaction is still open.
Taken_Early(r, s) == rows[s] # None \/ holder[s] # None

\* The UNIQUE constraint fails at once: the symbol is committed, or was
\* inserted by this transaction.
Taken(r, s) == rows[s] # None \/ holder[s] = r

InsertConflict(r) ==
    /\ Inserting(r)
    /\ Taken(r, NextSymbol(r))
    /\ Refuse(r, 409)

\* A bug: the insert runs outside the transaction.
InsertRow_Autocommit(r) ==
    /\ Inserting(r)
    /\ rows[NextSymbol(r)] = None /\ holder[NextSymbol(r)] = None
    /\ rows' = [rows EXCEPT ![NextSymbol(r)] = "Active"]
    /\ creator' = [creator EXCEPT ![NextSymbol(r)] = r]
    /\ task' = [task EXCEPT ![r].next = @ + 1]
    /\ UNCHANGED <<holder, answer>>

InsertRow(r) ==
    /\ Inserting(r)
    /\ rows[NextSymbol(r)] = None /\ holder[NextSymbol(r)] = None
    /\ holder' = [holder EXCEPT ![NextSymbol(r)] = r]
    /\ task' = [task EXCEPT ![r].next = @ + 1]
    /\ UNCHANGED <<rows, answer, creator>>

\* The batch is stored; no answer yet.
StoreBatch(r) ==
    /\ Handles(r, "Create") /\ task[r].next > Len(task[r].batch)
    /\ LET stored == Range(task[r].batch)
       IN  /\ rows' = [s \in Symbols |-> IF s \in stored THEN "Active" ELSE rows[s]]
           /\ creator' = [s \in Symbols |-> IF s \in stored THEN r ELSE creator[s]]
    /\ holder' = Released(r)
    /\ Leave(r, "Done")

CommitBatch(r) == StoreBatch(r) /\ Respond(r, 201)

-----------------------------------------------------------------------------
ReceiveUpdate(r, symbol, status) ==
    /\ task[r] = None
    /\ task' = [task EXCEPT ![r] = [kind |-> "Update", symbol |-> symbol,
                                    status |-> status, at |-> "Select"]]
    /\ UNCHANGED <<rows, holder, answer, creator>>

UpdateAt(r, step) == Handles(r, "Update") /\ task[r].at = step

\* A bug: the status is read without FOR UPDATE.
LockRow_Not(r) == holder

LockRow(r) == [holder EXCEPT ![task[r].symbol] = r]

\* SELECT ... FOR UPDATE and the check of the transition that follows it.
SelectMissing(r) ==
    /\ UpdateAt(r, "Select")
    /\ rows[task[r].symbol] = None
    /\ Refuse(r, 404)

SelectForUpdate(r) ==
    /\ UpdateAt(r, "Select")
    /\ rows[task[r].symbol] # None /\ holder[task[r].symbol] = None
    /\ holder' = LockRow(r)
    /\ IF ValidTransition(rows[task[r].symbol], task[r].status)
         THEN /\ task' = [task EXCEPT ![r].at = "Update"]
              /\ UNCHANGED answer
         ELSE /\ Respond(r, 409)
              /\ Leave(r, "Rollback")
    /\ UNCHANGED <<rows, creator>>

\* UPDATE takes the row lock itself when the transaction does not have it.
UpdateRow(r) ==
    /\ UpdateAt(r, "Update")
    /\ holder[task[r].symbol] \in {None, r}
    /\ holder' = [holder EXCEPT ![task[r].symbol] = r]
    /\ task' = [task EXCEPT ![r].at = "Commit"]
    /\ UNCHANGED <<rows, answer, creator>>

StoreUpdate(r) ==
    /\ UpdateAt(r, "Commit")
    /\ rows' = [rows EXCEPT ![task[r].symbol] = task[r].status]
    /\ holder' = Released(r)
    /\ Leave(r, "Done")
    /\ UNCHANGED creator

CommitUpdate(r) == StoreUpdate(r) /\ Respond(r, 200)

-----------------------------------------------------------------------------
(* Failures.                                                               *)

\* The request whose transaction r waits for, or None.
WaitsFor(r) ==
    IF Inserting(r) /\ ~ Taken(r, NextSymbol(r)) THEN holder[NextSymbol(r)]
    ELSE IF UpdateAt(r, "Select") /\ rows[task[r].symbol] # None
      THEN holder[task[r].symbol]
    ELSE None

InCycle(r) ==
    LET ahead[i \in 1 .. Cardinality(Requests)] ==
          IF i = 1 THEN WaitsFor(r)
          ELSE IF ahead[i - 1] = None THEN None ELSE WaitsFor(ahead[i - 1])
    IN  \E i \in 1 .. Cardinality(Requests) : ahead[i] = r

\* PostgreSQL picks a victim; the statement that waits fails with 40P01.
DeadlockVictim(r) ==
    /\ WaitsFor(r) # None
    /\ InCycle(r)
    /\ Refuse(r, 500)

\* Any statement, begin() included, may fail; or the client hangs up, and the
\* handler is dropped where it awaits.
Fail(r) ==
    /\ Handles(r, "Create") \/ Handles(r, "Update")
    /\ Refuse(r, 500)

\* The acknowledgement of a commit may be lost: the work is done all the same.
FailAfterCommit(r) ==
    /\ StoreBatch(r) \/ StoreUpdate(r)
    /\ Respond(r, 500)

Proceed(r) ==
    \/ InsertConflict(r) \/ InsertRow(r) \/ CommitBatch(r)
    \/ SelectMissing(r) \/ SelectForUpdate(r) \/ UpdateRow(r) \/ CommitUpdate(r)

Next ==
    \E r \in Requests :
        \/ \E batch \in Batches : ReceiveBatch(r, batch)
        \/ \E symbol \in Symbols, status \in MarketStatus :
              ReceiveUpdate(r, symbol, status)
        \/ Proceed(r)
        \/ Rollback(r)
        \/ DeadlockVictim(r)
        \/ Fail(r)
        \/ FailAfterCommit(r)

Spec == Init /\ [][Next]_vars

\* A handler whose statement can complete is polled again, the pool rolls back
\* what was dropped, and PostgreSQL looks for deadlocks.  Nothing has to fail.
Fairness ==
    \A r \in Requests :
        /\ WF_vars(Proceed(r))
        /\ WF_vars(Rollback(r))
        /\ WF_vars(DeadlockVictim(r))

FairSpec == Spec /\ Fairness

-----------------------------------------------------------------------------
\* The type invariant; an open transaction holds what it inserted or locked.
TypeOK ==
    /\ rows \in [Symbols -> MarketStatus \cup {None}]
    /\ holder \in [Symbols -> Requests \cup {None}]
    /\ task \in [Requests -> Task \cup {None}]
    /\ answer \in [Requests -> Answers \cup {None}]
    /\ creator \in [Symbols -> Requests \cup {None}]
    /\ \A s \in Symbols : holder[s] # None => ~ Handles(holder[s], "Done")

Created(r) == {s \in Symbols : creator[s] = r}

\* "One transaction makes the batch all-or-nothing": whatever interleaves and
\* whatever fails, a request stores its whole batch or none of it; all of it
\* when it is told 201, none when it is told 400 or 409.
BatchesAreAtomic ==
    \A r \in Requests :
        /\ Created(r) \in {{}, Range(BatchOf(r))}
        /\ answer[r] = 201 => Created(r) # {}
        /\ answer[r] \in {400, 409} => Created(r) = {}

\* "One or more instruments already exist": a batch is refused for a conflict
\* only if another request has committed one of its symbols or the batch names
\* a symbol twice, never because of a transaction that ends up rolled back.
ConflictsAreReal ==
    \A r \in Requests :
        answer[r] = 409 /\ BatchOf(r) # << >> =>
            \/ \E s \in Range(BatchOf(r)) : rows[s] # None
            \/ ~ IsInjective(BatchOf(r))

\* A delisted instrument stays delisted and no instrument disappears, however
\* many status changes of it are under way.
DelistedIsFinal ==
    [][ \A s \in Symbols :
          /\ rows[s] # None => rows'[s] # None
          /\ rows[s] = "Delisted" => rows'[s] = "Delisted"
      ]_vars

\* In the end every request that was received is answered and its locks are
\* gone: no two batches block each other for ever, in whatever order they name
\* symbols.  (Requests are finitely many and none is received again.)
RequestsEnd ==
    <>[] \A r \in Requests :
            task[r] # None => Handles(r, "Done") /\ answer[r] # None
=============================================================================
