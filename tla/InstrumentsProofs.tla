------------------------- MODULE InstrumentsProofs -------------------------
(***************************************************************************)
(* The safety of instrument administration, for any number of requests,    *)
(* symbols and elements of a batch: what a transaction has inserted or     *)
(* locked nobody else changes before it ends.                              *)
(***************************************************************************)
EXTENDS Instruments, TLAPS

Ended(r) == Handles(r, "Rollback") \/ Handles(r, "Done")
Inserted(r) == 1 .. task[r].next - 1

\* Locks belong to transactions that are open.
HoldersOK == \A s \in Symbols : holder[s] # None => task[holder[s]] # None

\* A batch that is under way was found valid; it holds exactly the symbols it
\* has inserted so far, none of which is a committed row.
InsertsOK ==
    \A r \in Requests : Handles(r, "Create") =>
        /\ ValidBatch(task[r].batch)
        /\ task[r].next <= Len(task[r].batch) + 1
        /\ \A i \in Inserted(r) :
              holder[task[r].batch[i]] = r /\ rows[task[r].batch[i]] = None
        /\ \A s \in Symbols : holder[s] = r => \E i \in Inserted(r) : task[r].batch[i] = s

\* A status change that was found legal still is when it is stored.
UpdatesOK ==
    \A r \in Requests : UpdateAt(r, "Update") \/ UpdateAt(r, "Commit") =>
        /\ holder[task[r].symbol] = r
        /\ rows[task[r].symbol] # None
        /\ ValidTransition(rows[task[r].symbol], task[r].status)

\* Rows have creators, which have committed, and whole batches.
CreatorsOK ==
    /\ \A s \in Symbols : rows[s] = None <=> creator[s] = None
    /\ \A s \in Symbols : creator[s] # None => Handles(creator[s], "Done")
    /\ \A r \in Requests : Created(r) \in {{}, Range(BatchOf(r))}

\* Only a request that has ended was answered, and told the truth.
AnswersOK ==
    \A r \in Requests : answer[r] # None =>
        /\ Ended(r)
        /\ answer[r] = 201 => Created(r) # {}
        /\ answer[r] \in {400, 409} => Created(r) = {}
        /\ answer[r] = 409 /\ BatchOf(r) # << >> =>
              \/ \E s \in Symbols \cap Range(BatchOf(r)) : rows[s] # None
              \/ ~ IsInjective(BatchOf(r))

Inductive == TypeOK /\ HoldersOK /\ InsertsOK /\ UpdatesOK /\ CreatorsOK /\ AnswersOK

-----------------------------------------------------------------------------
(* The ways a task moves on.                                               *)

LEMMA EmptyBatch == << >> \in Batches
<1>1. 0 \in 0 .. MaxBatch + 1 /\ << >> \in [1 .. 0 -> Symbols \cup {Malformed}]
  BY InstrumentAssumption
<1> QED
  BY <1>1 DEF Batches, SeqOf

LEMMA BatchType ==
    ASSUME TypeOK, NEW r \in Requests
    PROVE  BatchOf(r) \in Batches
  BY EmptyBatch DEF TypeOK, BatchOf, Task, Creating, Updating

\* The elements of a valid batch are symbols.
LEMMA ValidElements ==
    ASSUME NEW batch \in Batches, ValidBatch(batch)
    PROVE  /\ Len(batch) \in 1 .. MaxBatch /\ DOMAIN batch = 1 .. Len(batch)
           /\ \A i \in 1 .. Len(batch) : batch[i] \in Symbols
<1>1. PICK m \in 0 .. MaxBatch + 1 : batch \in [1 .. m -> Symbols \cup {Malformed}]
  BY DEF Batches, SeqOf
<1>2. Len(batch) = m /\ DOMAIN batch = 1 .. m
  BY <1>1
<1>3. m # 0
  BY <1>1, <1>2 DEF ValidBatch
<1> QED
  BY <1>1, <1>2, <1>3, InstrumentAssumption DEF ValidBatch

LEMMA Left ==
    ASSUME TypeOK, NEW r \in Requests, NEW kind \in {"Rollback", "Done"}, Leave(r, kind)
    PROVE  /\ task' \in [Requests -> Task \cup {None}]
           /\ task'[r] # None /\ task'[r].kind = kind
           /\ BatchOf(r)' = BatchOf(r)
           /\ \A q \in Requests \ {r} : task'[q] = task[q]
<1> DEFINE left == [kind |-> kind, batch |-> BatchOf(r)]
<1>1. left \in Task /\ left # None
  BY BatchType, NoneAssumption DEF Task
<1>2. task' = [task EXCEPT ![r] = left] /\ task \in [Requests -> Task \cup {None}]
  BY DEF Leave, TypeOK
<1>3. left.kind = kind /\ left.batch = BatchOf(r)
  OBVIOUS
<1> HIDE DEF left
<1>4. task'[r] = left
  BY <1>2
<1> QED
  BY <1>1, <1>2, <1>3, <1>4 DEF BatchOf

LEMMA Responded ==
    ASSUME TypeOK, NEW r \in Requests, NEW status \in Answers, Respond(r, status)
    PROVE  /\ answer' \in [Requests -> Answers \cup {None}]
           /\ answer'[r] = status
           /\ \A q \in Requests \ {r} : answer'[q] = answer[q]
  BY DEF TypeOK, Respond

LEMMA ReleasedLocks ==
    ASSUME TypeOK, NEW r \in Requests
    PROVE  /\ Released(r) \in [Symbols -> Requests \cup {None}]
           /\ \A s \in Symbols : Released(r)[s] # r
           /\ \A s \in Symbols : Released(r)[s] # None => Released(r)[s] = holder[s]
           /\ \A s \in Symbols : holder[s] # r => Released(r)[s] = holder[s]
  BY NoneAssumption DEF TypeOK, Released

-----------------------------------------------------------------------------
(* One lemma per action.                                                   *)

LEMMA RefuseStep ==
    ASSUME Inductive, NEW r \in Requests, NEW status \in {404, 409, 500},
           Refuse(r, status), Handles(r, "Create") \/ Handles(r, "Update"),
           status = 409 /\ BatchOf(r) # << >> =>
              \/ \E s \in Symbols \cap Range(BatchOf(r)) : rows[s] # None
              \/ ~ IsInjective(BatchOf(r))
    PROVE  Inductive'
<1> USE DEF Inductive
<1>1. /\ task' \in [Requests -> Task \cup {None}]
      /\ task'[r] # None /\ task'[r].kind = "Rollback"
      /\ BatchOf(r)' = BatchOf(r)
      /\ \A q \in Requests \ {r} : task'[q] = task[q]
  BY Left DEF Refuse
<1>2. /\ answer' \in [Requests -> Answers \cup {None}]
      /\ answer'[r] = status
      /\ \A q \in Requests \ {r} : answer'[q] = answer[q]
  BY Responded DEF Refuse, Answers
<1>3. rows' = rows /\ holder' = holder /\ creator' = creator
  BY DEF Refuse
<1>4. \A q \in Requests : BatchOf(q)' = BatchOf(q) /\ Created(q)' = Created(q)
  BY <1>1, <1>3 DEF BatchOf, Created
<1>5. TypeOK'
  BY <1>1, <1>2, <1>3 DEF TypeOK, Handles
<1>6. HoldersOK'
  BY <1>1, <1>3 DEF TypeOK, HoldersOK
<1>7. InsertsOK'
  BY <1>1, <1>3 DEF InsertsOK, Handles, Inserted
<1>8. UpdatesOK'
  BY <1>1, <1>3 DEF UpdatesOK, UpdateAt, Handles
<1>9. ~ Handles(r, "Done")
  BY DEF Handles
<1>10. CreatorsOK'
  BY <1>1, <1>3, <1>4, <1>9 DEF CreatorsOK, TypeOK, Handles
<1>11. Created(r) = {}
  BY <1>9, NoneAssumption DEF CreatorsOK, Created
<1>12. AnswersOK'
  <2> SUFFICES ASSUME NEW q \in Requests, answer'[q] # None
               PROVE  /\ Ended(q)'
                      /\ answer'[q] = 201 => Created(q)' # {}
                      /\ answer'[q] \in {400, 409} => Created(q)' = {}
                      /\ answer'[q] = 409 /\ BatchOf(q)' # << >> =>
                            \/ \E s \in Symbols \cap Range(BatchOf(q))' : rows'[s] # None
                            \/ ~ IsInjective(BatchOf(q))'
    BY DEF AnswersOK
  <2>1. CASE q = r
    BY <2>1, <1>1, <1>2, <1>3, <1>4, <1>11 DEF Ended, Handles
  <2>2. CASE q # r
    BY <2>2, <1>1, <1>2, <1>3, <1>4 DEF AnswersOK, Ended, Handles
  <2> QED
    BY <2>1, <2>2
<1> QED
  BY <1>5, <1>6, <1>7, <1>8, <1>10, <1>12

LEMMA RollbackStep ==
    ASSUME Inductive, NEW r \in Requests, Rollback(r)
    PROVE  Inductive'
<1> USE DEF Inductive
<1>1. /\ task' \in [Requests -> Task \cup {None}]
      /\ task'[r] # None /\ task'[r].kind = "Done"
      /\ BatchOf(r)' = BatchOf(r)
      /\ \A q \in Requests \ {r} : task'[q] = task[q]
  BY Left DEF Rollback
<1>2. /\ rows' = rows /\ answer' = answer /\ creator' = creator
      /\ holder' = Released(r) /\ Handles(r, "Rollback")
  BY DEF Rollback
<1>3. \A q \in Requests : BatchOf(q)' = BatchOf(q) /\ Created(q)' = Created(q)
  BY <1>1, <1>2 DEF BatchOf, Created
<1>4. /\ holder' \in [Symbols -> Requests \cup {None}]
      /\ \A s \in Symbols : holder'[s] # r
      /\ \A s \in Symbols : holder'[s] # None => holder'[s] = holder[s]
      /\ \A s \in Symbols : holder[s] # r => holder'[s] = holder[s]
  BY <1>2, ReleasedLocks
<1>5. TypeOK'
  <2>1. ASSUME NEW s \in Symbols, holder'[s] # None
        PROVE  ~ Handles(holder[s], "Done")'
    <3>1. holder'[s] = holder[s] /\ holder[s] \in Requests \ {r}
      BY <1>4, <2>1 DEF TypeOK
    <3>2. task'[holder[s]] = task[holder[s]] /\ ~ Handles(holder[s], "Done")
      BY <1>1, <2>1, <3>1 DEF TypeOK
    <3> QED
      BY <3>1, <3>2 DEF Handles
  <2> QED
    BY <1>1, <1>2, <1>4, <2>1 DEF TypeOK
<1>6. HoldersOK'
  BY <1>1, <1>4 DEF TypeOK, HoldersOK
<1>7. InsertsOK'
  <2> SUFFICES ASSUME NEW q \in Requests, Handles(q, "Create")'
               PROVE  /\ ValidBatch(task[q].batch)
                      /\ task[q].next <= Len(task[q].batch) + 1
                      /\ \A i \in Inserted(q) :
                            holder'[task[q].batch[i]] = q /\ rows[task[q].batch[i]] = None
                      /\ \A s \in Symbols : holder'[s] = q =>
                            \E i \in Inserted(q) : task[q].batch[i] = s
    BY <1>1, <1>2 DEF InsertsOK, Handles, Inserted
  <2>1. q # r /\ Handles(q, "Create") /\ task[q] \in Creating
    BY <1>1 DEF Handles, TypeOK, Task, Updating
  <2>2. \A i \in Inserted(q) : task[q].batch[i] \in Symbols
    BY <2>1, ValidElements DEF InsertsOK, Inserted, Creating
  <2> QED
    BY <1>4, <2>1, <2>2, NoneAssumption DEF InsertsOK
<1>8. UpdatesOK'
  BY <1>1, <1>2, <1>4 DEF UpdatesOK, UpdateAt, Handles, TypeOK, Task, Creating, Updating
<1>9. CreatorsOK'
  BY <1>1, <1>2, <1>3 DEF CreatorsOK, TypeOK, Handles
<1>10. AnswersOK'
  BY <1>1, <1>2, <1>3 DEF AnswersOK, Ended, Handles
<1> QED
  BY <1>5, <1>6, <1>7, <1>8, <1>9, <1>10

\* A task that begins: nothing was inserted, locked, answered or created by it.
LEMMA Untouched ==
    ASSUME Inductive, NEW r \in Requests, task[r] = None
    PROVE  /\ answer[r] = None /\ Created(r) = {} /\ BatchOf(r) = << >>
           /\ \A s \in Symbols : holder[s] # r
  BY NoneAssumption DEF Inductive, AnswersOK, CreatorsOK, HoldersOK, Ended, Handles, Created,
                        TypeOK, BatchOf

LEMMA ReceiveBatchStep ==
    ASSUME Inductive, NEW r \in Requests, NEW batch \in Batches, ReceiveBatch(r, batch)
    PROVE  Inductive'
<1> USE DEF Inductive
<1>1. /\ task[r] = None /\ answer[r] = None /\ Created(r) = {} /\ BatchOf(r) = << >>
      /\ \A s \in Symbols : holder[s] # r
  BY Untouched DEF ReceiveBatch
<1>2. rows' = rows /\ holder' = holder /\ creator' = creator
  BY DEF ReceiveBatch
<1>3. \A q \in Requests : Created(q)' = Created(q)
  BY <1>2 DEF Created
<1> DEFINE new == IF ValidBatch(batch)
                    THEN [kind |-> "Create", batch |-> batch, next |-> 1]
                    ELSE [kind |-> "Done", batch |-> << >>]
<1>4. new \in Task /\ new # None
  BY NoneAssumption, InstrumentAssumption DEF Task, Creating
<1>5. task' = [task EXCEPT ![r] = new] /\ task \in [Requests -> Task \cup {None}]
  BY DEF ReceiveBatch, TypeOK
<1>6. /\ new.kind = "Create" => ValidBatch(batch) /\ new.batch = batch /\ new.next = 1
      /\ new.kind \in {"Create", "Done"}
      /\ new.kind = "Done" => ~ ValidBatch(batch) /\ new.batch = << >>
  OBVIOUS
<1>7. /\ answer' \in [Requests -> Answers \cup {None}]
      /\ new.kind = "Done" => answer'[r] = 400
      /\ new.kind = "Create" => answer'[r] = None
      /\ \A q \in Requests \ {r} : answer'[q] = answer[q]
  BY <1>1, Responded DEF ReceiveBatch, TypeOK, Answers
<1> HIDE DEF new
<1>8. /\ task' \in [Requests -> Task \cup {None}] /\ task'[r] = new
      /\ \A q \in Requests \ {r} : task'[q] = task[q]
  BY <1>4, <1>5
<1>9. TypeOK'
  BY <1>1, <1>2, <1>7, <1>8 DEF TypeOK, Handles
<1>10. HoldersOK'
  BY <1>1, <1>2, <1>8 DEF TypeOK, HoldersOK
<1>11. InsertsOK'
  <2> SUFFICES ASSUME NEW q \in Requests, Handles(q, "Create")'
               PROVE  /\ ValidBatch(task'[q].batch)
                      /\ task'[q].next <= Len(task'[q].batch) + 1
                      /\ \A i \in Inserted(q)' :
                            holder[task'[q].batch[i]] = q /\ rows[task'[q].batch[i]] = None
                      /\ \A s \in Symbols : holder[s] = q =>
                            \E i \in Inserted(q)' : task'[q].batch[i] = s
    BY <1>2 DEF InsertsOK
  <2>1. CASE q = r
    <3>1. task'[q].next = 1 /\ task'[q].batch = batch /\ ValidBatch(batch)
      BY <2>1, <1>6, <1>8 DEF Handles
    <3>2. Len(batch) \in Nat /\ Inserted(q)' = {}
      BY <3>1, ValidElements, InstrumentAssumption DEF Inserted
    <3> QED
      BY <2>1, <3>1, <3>2, <1>1
  <2>2. CASE q # r
    BY <2>2, <1>8 DEF InsertsOK, Handles, Inserted
  <2> QED
    BY <2>1, <2>2
<1>12. UpdatesOK'
  BY <1>2, <1>6, <1>8 DEF UpdatesOK, UpdateAt, Handles
<1>13. \A q \in Requests \ {r} : BatchOf(q)' = BatchOf(q)
  BY <1>8 DEF BatchOf
<1>14. CreatorsOK'
  BY <1>1, <1>2, <1>3, <1>8, <1>13 DEF CreatorsOK, TypeOK, Handles
<1>15. AnswersOK'
  <2> SUFFICES ASSUME NEW q \in Requests, answer'[q] # None
               PROVE  /\ Ended(q)'
                      /\ answer'[q] = 201 => Created(q) # {}
                      /\ answer'[q] \in {400, 409} => Created(q) = {}
                      /\ answer'[q] = 409 /\ BatchOf(q)' # << >> =>
                            \/ \E s \in Symbols \cap Range(BatchOf(q)') : rows[s] # None
                            \/ ~ IsInjective(BatchOf(q)')
    BY <1>2, <1>3 DEF AnswersOK
  <2>1. CASE q = r
    BY <2>1, <1>1, <1>4, <1>6, <1>7, <1>8 DEF Ended, Handles
  <2>2. CASE q # r
    BY <2>2, <1>7, <1>8, <1>13 DEF AnswersOK, Ended, Handles
  <2> QED
    BY <2>1, <2>2
<1> QED
  BY <1>9, <1>10, <1>11, <1>12, <1>14, <1>15

\* The batch of a request that is inserting, and what it says of it.
LEMMA OpenBatch ==
    ASSUME Inductive, NEW r \in Requests, Handles(r, "Create")
    PROVE  /\ task[r] \in Creating /\ task[r] # None /\ BatchOf(r) = task[r].batch
           /\ task[r].batch \in Batches /\ ValidBatch(task[r].batch)
           /\ Len(task[r].batch) \in 1 .. MaxBatch
           /\ DOMAIN task[r].batch = 1 .. Len(task[r].batch)
           /\ task[r].next \in 1 .. Len(task[r].batch) + 1
           /\ \A i \in 1 .. Len(task[r].batch) : task[r].batch[i] \in Symbols
           /\ answer[r] = None /\ Created(r) = {}
<1>1. task[r] \in Creating /\ task[r] # None /\ task[r].kind = "Create"
  BY DEF Handles, Inductive, TypeOK, Task, Updating
<1>2. BatchOf(r) = task[r].batch /\ task[r].batch \in Batches /\ ValidBatch(task[r].batch)
  BY <1>1 DEF Inductive, InsertsOK, BatchOf, Creating
<1>3. task[r].next \in 1 .. Len(task[r].batch) + 1
  BY <1>1, <1>2, ValidElements, InstrumentAssumption DEF Inductive, InsertsOK, Creating
<1>4. answer[r] = None /\ Created(r) = {}
  BY <1>1, NoneAssumption DEF Inductive, AnswersOK, CreatorsOK, Ended, Handles, Created
<1> QED
  BY <1>1, <1>2, <1>3, <1>4, ValidElements

LEMMA InsertRowStep ==
    ASSUME Inductive, NEW r \in Requests, InsertRow(r)
    PROVE  Inductive'
<1> USE DEF Inductive
<1> DEFINE batch == task[r].batch
           n == task[r].next
           new == [task[r] EXCEPT !.next = n + 1]
<1>1. Handles(r, "Create") /\ Inserting(r)
  BY DEF InsertRow, Inserting
<1>2. /\ task[r] \in Creating /\ task[r] # None /\ BatchOf(r) = batch
      /\ batch \in Batches /\ ValidBatch(batch)
      /\ Len(batch) \in 1 .. MaxBatch /\ n \in 1 .. Len(batch)
      /\ \A i \in 1 .. Len(batch) : batch[i] \in Symbols
      /\ answer[r] = None /\ Created(r) = {}
  BY <1>1, OpenBatch, InstrumentAssumption DEF Inserting
<1>3. /\ batch[n] \in Symbols /\ rows[batch[n]] = None /\ holder[batch[n]] = None
      /\ holder' = [holder EXCEPT ![batch[n]] = r]
      /\ task' = [task EXCEPT ![r] = new]
      /\ rows' = rows /\ answer' = answer /\ creator' = creator
  BY <1>2 DEF InsertRow, NextSymbol
<1>4. n + 1 \in 1 .. MaxBatch + 2
  BY <1>2, InstrumentAssumption
<1>5. new \in Creating /\ new.kind = "Create" /\ new.batch = batch /\ new.next = n + 1
  BY <1>2, <1>4 DEF Creating
<1>6. new \in Task /\ new # None
  BY <1>5, NoneAssumption DEF Task
<1> HIDE DEF new
<1>7. /\ task' \in [Requests -> Task \cup {None}] /\ task'[r] = new
      /\ \A q \in Requests \ {r} : task'[q] = task[q]
  BY <1>3, <1>6 DEF TypeOK
<1>8. /\ holder' \in [Symbols -> Requests \cup {None}] /\ holder'[batch[n]] = r
      /\ \A s \in Symbols \ {batch[n]} : holder'[s] = holder[s]
  BY <1>3 DEF TypeOK
<1>9. \A q \in Requests : BatchOf(q)' = BatchOf(q) /\ Created(q)' = Created(q)
  BY <1>2, <1>3, <1>5, <1>6, <1>7 DEF BatchOf, Created
<1>10. TypeOK'
  <2>1. ASSUME NEW s \in Symbols, holder'[s] # None
        PROVE  ~ Handles(holder'[s], "Done") /\ ~ Handles(holder[s], "Done")'
    BY <1>1, <1>3, <1>5, <1>7, <1>8, <2>1 DEF TypeOK, Handles
  <2> QED
    BY <1>3, <1>7, <1>8, <2>1 DEF TypeOK
<1>11. HoldersOK'
  BY <1>3, <1>6, <1>7, <1>8 DEF TypeOK, HoldersOK
<1>12. InsertsOK'
  <2> SUFFICES ASSUME NEW q \in Requests, Handles(q, "Create")'
               PROVE  /\ ValidBatch(task'[q].batch)
                      /\ task'[q].next <= Len(task'[q].batch) + 1
                      /\ \A i \in Inserted(q)' :
                            holder'[task'[q].batch[i]] = q /\ rows[task'[q].batch[i]] = None
                      /\ \A s \in Symbols : holder'[s] = q =>
                            \E i \in Inserted(q)' : task'[q].batch[i] = s
    BY <1>3 DEF InsertsOK
  <2>1. CASE q = r
    <3>1. task'[q].batch = batch /\ task'[q].next = n + 1 /\ Inserted(q)' = 1 .. n
      BY <2>1, <1>2, <1>5, <1>7 DEF Inserted
    <3>2. \A i \in 1 .. n - 1 : holder[batch[i]] = r /\ rows[batch[i]] = None
      BY <1>1 DEF InsertsOK, Inserted
    <3>3. \A i \in 1 .. n : holder'[batch[i]] = r /\ rows[batch[i]] = None
      BY <3>2, <1>2, <1>3, <1>8
    <3>4. \A s \in Symbols : holder[s] = r => \E i \in 1 .. n - 1 : batch[i] = s
      BY <1>1 DEF InsertsOK, Inserted
    <3>5. \A s \in Symbols : holder'[s] = r => \E i \in 1 .. n : batch[i] = s
      BY <3>4, <1>2, <1>8
    <3>6. ValidBatch(batch) /\ n + 1 <= Len(batch) + 1
      BY <1>2
    <3> HIDE DEF batch, n
    <3> QED
      BY <2>1, <3>1, <3>3, <3>5, <3>6
  <2>2. CASE q # r
    <3>1. Handles(q, "Create") /\ task'[q] = task[q] /\ Inserted(q)' = Inserted(q)
      BY <2>2, <1>7 DEF Handles, Inserted
    <3>2. \A i \in Inserted(q) : task[q].batch[i] \in Symbols
      BY <3>1, OpenBatch DEF Inserted
    <3>3. q # None
      BY NoneAssumption
    <3> QED
      BY <2>2, <3>1, <3>2, <3>3, <1>3, <1>8 DEF InsertsOK
  <2> QED
    BY <2>1, <2>2
<1>13. UpdatesOK'
  <2>1. ASSUME NEW q \in Requests, (UpdateAt(q, "Update") \/ UpdateAt(q, "Commit"))'
        PROVE  /\ q # r /\ task'[q] = task[q] /\ task[q].symbol \in Symbols
               /\ UpdateAt(q, "Update") \/ UpdateAt(q, "Commit")
    BY <2>1, <1>5, <1>7 DEF UpdateAt, Handles, TypeOK, Task, Creating, Updating
  <2> QED
    BY <2>1, <1>3, <1>8, NoneAssumption DEF UpdatesOK
<1>14. CreatorsOK'
  BY <1>3, <1>1, <1>7, <1>9 DEF CreatorsOK, TypeOK, Handles
<1>15. AnswersOK'
  BY <1>2, <1>3, <1>7, <1>9 DEF AnswersOK, Ended, Handles
<1> QED
  BY <1>10, <1>11, <1>12, <1>13, <1>14, <1>15

\* A request that holds every symbol of its batch stores it: 201, or 500 when
\* the acknowledgement is lost.
LEMMA StoreBatchStep ==
    ASSUME Inductive, NEW r \in Requests, NEW status \in {201, 500},
           StoreBatch(r), Respond(r, status)
    PROVE  Inductive'
<1> USE DEF Inductive
<1> DEFINE batch == task[r].batch
           stored == Range(batch)
<1>1. Handles(r, "Create") /\ task[r].next > Len(batch)
  BY DEF StoreBatch
<1>2. /\ BatchOf(r) = batch /\ Len(batch) \in 1 .. MaxBatch /\ DOMAIN batch = 1 .. Len(batch)
      /\ task[r].next = Len(batch) + 1
      /\ \A i \in 1 .. Len(batch) : batch[i] \in Symbols
      /\ answer[r] = None /\ Created(r) = {}
  BY <1>1, OpenBatch, InstrumentAssumption
<1>3. stored \subseteq Symbols /\ stored # {}
  <2>1. batch[1] \in stored
    BY <1>2, InstrumentAssumption DEF Range
  <2>2. \A i \in DOMAIN batch : batch[i] \in Symbols
    BY <1>2
  <2>3. stored \subseteq Symbols
    BY <2>2 DEF Range
  <2> QED
    BY <2>1, <2>3
<1>4. \A s \in stored : holder[s] = r /\ rows[s] = None
  <2>1. Inserted(r) = DOMAIN batch
    BY <1>2, InstrumentAssumption DEF Inserted
  <2> QED
    BY <1>1, <2>1 DEF InsertsOK, Range
<1>5. /\ task' \in [Requests -> Task \cup {None}]
      /\ task'[r] # None /\ task'[r].kind = "Done"
      /\ BatchOf(r)' = BatchOf(r)
      /\ \A q \in Requests \ {r} : task'[q] = task[q]
  BY Left DEF StoreBatch
<1>6. /\ answer' \in [Requests -> Answers \cup {None}]
      /\ answer'[r] = status
      /\ \A q \in Requests \ {r} : answer'[q] = answer[q]
  BY Responded DEF Answers
<1>7. /\ holder' \in [Symbols -> Requests \cup {None}]
      /\ \A s \in Symbols : holder'[s] # r
      /\ \A s \in Symbols : holder'[s] # None => holder'[s] = holder[s]
      /\ \A s \in Symbols : holder[s] # r => holder'[s] = holder[s]
  BY ReleasedLocks DEF StoreBatch
<1>8. /\ rows' = [s \in Symbols |-> IF s \in stored THEN "Active" ELSE rows[s]]
      /\ creator' = [s \in Symbols |-> IF s \in stored THEN r ELSE creator[s]]
  BY DEF StoreBatch
<1> HIDE DEF batch, stored
<1>9. "Active" \in MarketStatus /\ "Active" # None /\ r # None
  BY NoneAssumption DEF MarketStatus
<1>10. /\ rows' \in [Symbols -> MarketStatus \cup {None}]
       /\ creator' \in [Symbols -> Requests \cup {None}]
       /\ \A s \in stored : rows'[s] = "Active" /\ creator'[s] = r /\ creator[s] = None
       /\ \A s \in Symbols \ stored : rows'[s] = rows[s] /\ creator'[s] = creator[s]
  BY <1>3, <1>4, <1>8, <1>9 DEF TypeOK, CreatorsOK
<1>11. \A q \in Requests \ {r} : BatchOf(q)' = BatchOf(q)
  BY <1>5 DEF BatchOf
<1>12. Created(r)' = stored
  BY <1>2, <1>3, <1>10 DEF Created
<1>13. \A q \in Requests \ {r} : Created(q)' = Created(q)
  BY <1>3, <1>10, NoneAssumption DEF Created
<1>14. TypeOK'
  <2>1. ASSUME NEW s \in Symbols, holder'[s] # None
        PROVE  ~ Handles(holder[s], "Done")'
    <3>1. holder'[s] = holder[s] /\ holder[s] \in Requests \ {r}
      BY <1>7, <2>1 DEF TypeOK
    <3>2. task'[holder[s]] = task[holder[s]] /\ ~ Handles(holder[s], "Done")
      BY <1>5, <2>1, <3>1 DEF TypeOK
    <3> QED
      BY <3>1, <3>2 DEF Handles
  <2> QED
    BY <1>5, <1>6, <1>7, <1>10, <2>1 DEF TypeOK
<1>15. HoldersOK'
  BY <1>5, <1>7 DEF TypeOK, HoldersOK
<1>16. InsertsOK'
  <2> SUFFICES ASSUME NEW q \in Requests, Handles(q, "Create")'
               PROVE  /\ ValidBatch(task'[q].batch)
                      /\ task'[q].next <= Len(task'[q].batch) + 1
                      /\ \A i \in Inserted(q)' :
                            holder'[task'[q].batch[i]] = q /\ rows'[task'[q].batch[i]] = None
                      /\ \A s \in Symbols : holder'[s] = q =>
                            \E i \in Inserted(q)' : task'[q].batch[i] = s
    BY DEF InsertsOK
  <2>1. /\ q # r /\ q # None /\ Handles(q, "Create")
        /\ task'[q] = task[q] /\ Inserted(q)' = Inserted(q)
    BY <1>5, NoneAssumption DEF Handles, Inserted
  <2>2. ASSUME NEW i \in Inserted(q)
        PROVE  task[q].batch[i] \in Symbols \ stored
    <3>1. task[q].batch[i] \in Symbols
      BY <2>1, OpenBatch DEF Inserted
    <3>2. holder[task[q].batch[i]] = q
      BY <2>1 DEF InsertsOK
    <3> QED
      BY <1>4, <2>1, <3>1, <3>2
  <2>3. \A i \in Inserted(q) :
           holder'[task[q].batch[i]] = q /\ rows'[task[q].batch[i]] = None
    BY <1>7, <1>10, <2>1, <2>2 DEF InsertsOK
  <2> QED
    BY <1>7, <2>1, <2>3 DEF InsertsOK
<1>17. UpdatesOK'
  <2> SUFFICES ASSUME NEW q \in Requests, (UpdateAt(q, "Update") \/ UpdateAt(q, "Commit"))'
               PROVE  /\ holder'[task'[q].symbol] = q
                      /\ rows'[task'[q].symbol] # None
                      /\ ValidTransition(rows'[task'[q].symbol], task'[q].status)
    BY DEF UpdatesOK, ValidTransition
  <2>1. /\ q # r /\ task'[q] = task[q] /\ task[q].symbol \in Symbols
        /\ UpdateAt(q, "Update") \/ UpdateAt(q, "Commit")
    BY <1>5 DEF UpdateAt, Handles, TypeOK, Task, Creating, Updating
  <2>2. task[q].symbol \notin stored
    BY <1>4, <2>1 DEF UpdatesOK
  <2> QED
    BY <1>7, <1>10, <2>1, <2>2 DEF UpdatesOK
<1>18. CreatorsOK'
  <2>1. \A s \in Symbols : rows'[s] = None <=> creator'[s] = None
    BY <1>9, <1>10 DEF CreatorsOK
  <2>2. ASSUME NEW s \in Symbols, creator'[s] # None
        PROVE  Handles(creator[s], "Done")'
    <3>1. CASE s \in stored
      BY <3>1, <1>5, <1>10 DEF Handles
    <3>2. CASE s \notin stored
      <4>1. /\ creator'[s] = creator[s] /\ Handles(creator[s], "Done")
            /\ creator[s] \in Requests
        BY <2>2, <3>2, <1>10 DEF CreatorsOK, TypeOK
      <4>2. creator[s] # r
        BY <4>1, <1>1 DEF Handles
      <4> QED
        BY <4>1, <4>2, <1>5 DEF Handles
    <3> QED
      BY <3>1, <3>2
  <2>3. ASSUME NEW q \in Requests
        PROVE  Created(q)' \in {{}, Range(BatchOf(q)')}
    BY <1>2, <1>5, <1>11, <1>12, <1>13 DEF CreatorsOK, stored
  <2> QED
    BY <2>1, <2>2, <2>3 DEF CreatorsOK
<1>19. AnswersOK'
  <2> SUFFICES ASSUME NEW q \in Requests, answer'[q] # None
               PROVE  /\ Ended(q)'
                      /\ answer'[q] = 201 => Created(q)' # {}
                      /\ answer'[q] \in {400, 409} => Created(q)' = {}
                      /\ answer'[q] = 409 /\ BatchOf(q)' # << >> =>
                            \/ \E s \in Symbols \cap Range(BatchOf(q)') : rows'[s] # None
                            \/ ~ IsInjective(BatchOf(q)')
    BY DEF AnswersOK
  <2>1. CASE q = r
    BY <2>1, <1>3, <1>5, <1>6, <1>12 DEF Ended, Handles
  <2>2. CASE q # r
    <3>1. answer'[q] = answer[q] /\ task'[q] = task[q] /\ Ended(q)'
      BY <2>2, <1>5, <1>6 DEF AnswersOK, Ended, Handles
    <3>2. \A s \in Symbols : rows[s] # None => rows'[s] # None
      BY <1>9, <1>10
    <3> QED
      BY <2>2, <3>1, <3>2, <1>11, <1>13 DEF AnswersOK
  <2> QED
    BY <2>1, <2>2
<1> QED
  BY <1>14, <1>15, <1>16, <1>17, <1>18, <1>19

LEMMA StoreUpdateStep ==
    ASSUME Inductive, NEW r \in Requests, NEW status \in {200, 500},
           StoreUpdate(r), Respond(r, status)
    PROVE  Inductive'
<1> USE DEF Inductive
<1> DEFINE symbol == task[r].symbol
<1>1. UpdateAt(r, "Commit") /\ Handles(r, "Update") /\ BatchOf(r) = << >>
  BY DEF StoreUpdate, UpdateAt, Handles, BatchOf
<1>2. symbol \in Symbols /\ task[r].status \in MarketStatus
  BY <1>1 DEF TypeOK, Handles, Task, Creating, Updating
<1>3. /\ task' \in [Requests -> Task \cup {None}]
      /\ task'[r] # None /\ task'[r].kind = "Done"
      /\ BatchOf(r)' = BatchOf(r)
      /\ \A q \in Requests \ {r} : task'[q] = task[q]
  BY Left DEF StoreUpdate
<1>4. /\ answer' \in [Requests -> Answers \cup {None}]
      /\ answer'[r] = status
      /\ \A q \in Requests \ {r} : answer'[q] = answer[q]
  BY Responded DEF Answers
<1>5. /\ holder' \in [Symbols -> Requests \cup {None}]
      /\ \A s \in Symbols : holder'[s] # r
      /\ \A s \in Symbols : holder'[s] # None => holder'[s] = holder[s]
      /\ \A s \in Symbols : holder[s] # r => holder'[s] = holder[s]
  BY ReleasedLocks DEF StoreUpdate
<1>6. holder[symbol] = r /\ rows[symbol] # None
  BY <1>1 DEF UpdatesOK
<1>7. /\ rows' \in [Symbols -> MarketStatus \cup {None}] /\ creator' = creator
      /\ rows'[symbol] = task[r].status /\ rows'[symbol] # None
      /\ \A s \in Symbols \ {symbol} : rows'[s] = rows[s]
  BY <1>2, NoneAssumption DEF StoreUpdate, TypeOK
<1> HIDE DEF symbol
<1>8. \A q \in Requests : BatchOf(q)' = BatchOf(q) /\ Created(q)' = Created(q)
  BY <1>3, <1>7 DEF BatchOf, Created
<1>9. TypeOK'
  <2>1. ASSUME NEW s \in Symbols, holder'[s] # None
        PROVE  ~ Handles(holder[s], "Done")'
    <3>1. holder'[s] = holder[s] /\ holder[s] \in Requests \ {r}
      BY <1>5, <2>1 DEF TypeOK
    <3>2. task'[holder[s]] = task[holder[s]] /\ ~ Handles(holder[s], "Done")
      BY <1>3, <2>1, <3>1 DEF TypeOK
    <3> QED
      BY <3>1, <3>2 DEF Handles
  <2> QED
    BY <1>3, <1>4, <1>5, <1>7, <2>1 DEF TypeOK
<1>10. HoldersOK'
  BY <1>3, <1>5 DEF TypeOK, HoldersOK
<1>11. InsertsOK'
  <2> SUFFICES ASSUME NEW q \in Requests, Handles(q, "Create")'
               PROVE  /\ ValidBatch(task'[q].batch)
                      /\ task'[q].next <= Len(task'[q].batch) + 1
                      /\ \A i \in Inserted(q)' :
                            holder'[task'[q].batch[i]] = q /\ rows'[task'[q].batch[i]] = None
                      /\ \A s \in Symbols : holder'[s] = q =>
                            \E i \in Inserted(q)' : task'[q].batch[i] = s
    BY DEF InsertsOK
  <2>1. /\ q # r /\ q # None /\ Handles(q, "Create")
        /\ task'[q] = task[q] /\ Inserted(q)' = Inserted(q)
    BY <1>3, NoneAssumption DEF Handles, Inserted
  <2>2. ASSUME NEW i \in Inserted(q)
        PROVE  task[q].batch[i] \in Symbols \ {symbol} /\ holder[task[q].batch[i]] = q
    <3>1. task[q].batch[i] \in Symbols
      BY <2>1, OpenBatch DEF Inserted
    <3>2. holder[task[q].batch[i]] = q
      BY <2>1 DEF InsertsOK
    <3> QED
      BY <1>6, <2>1, <3>1, <3>2
  <2>3. \A i \in Inserted(q) :
           holder'[task[q].batch[i]] = q /\ rows'[task[q].batch[i]] = None
    BY <1>5, <1>7, <2>1, <2>2 DEF InsertsOK
  <2> QED
    BY <1>5, <2>1, <2>3 DEF InsertsOK
<1>12. UpdatesOK'
  <2> SUFFICES ASSUME NEW q \in Requests, (UpdateAt(q, "Update") \/ UpdateAt(q, "Commit"))'
               PROVE  /\ holder'[task'[q].symbol] = q
                      /\ rows'[task'[q].symbol] # None
                      /\ ValidTransition(rows'[task'[q].symbol], task'[q].status)
    BY DEF UpdatesOK, ValidTransition
  <2>1. /\ q # r /\ task'[q] = task[q] /\ task[q].symbol \in Symbols
        /\ UpdateAt(q, "Update") \/ UpdateAt(q, "Commit")
    BY <1>3 DEF UpdateAt, Handles, TypeOK, Task, Creating, Updating
  <2>2. task[q].symbol # symbol
    BY <1>6, <2>1 DEF UpdatesOK
  <2> QED
    BY <1>5, <1>7, <2>1, <2>2 DEF UpdatesOK
<1>13. CreatorsOK'
  <2>1. \A s \in Symbols : rows'[s] = None <=> creator'[s] = None
    BY <1>6, <1>7 DEF CreatorsOK
  <2> QED
    BY <1>1, <1>3, <1>7, <1>8, <2>1 DEF CreatorsOK, TypeOK, Handles
<1>14. AnswersOK'
  <2>1. \A s \in Symbols : rows[s] # None => rows'[s] # None
    BY <1>7
  <2> QED
    BY <1>3, <1>4, <1>8, <2>1 DEF AnswersOK, Ended, Handles
<1> QED
  BY <1>9, <1>10, <1>11, <1>12, <1>13, <1>14

LEMMA ReceiveUpdateStep ==
    ASSUME Inductive, NEW r \in Requests, NEW symbol \in Symbols, NEW status \in MarketStatus,
           ReceiveUpdate(r, symbol, status)
    PROVE  Inductive'
<1> USE DEF Inductive
<1> DEFINE new == [kind |-> "Update", symbol |-> symbol, status |-> status, at |-> "Select"]
<1>1. /\ task[r] = None /\ answer[r] = None /\ Created(r) = {} /\ BatchOf(r) = << >>
      /\ \A s \in Symbols : holder[s] # r
  BY Untouched DEF ReceiveUpdate
<1>2. rows' = rows /\ holder' = holder /\ creator' = creator /\ answer' = answer
  BY DEF ReceiveUpdate
<1>3. new \in Task /\ new # None /\ new.kind = "Update" /\ new.at = "Select"
  BY NoneAssumption DEF Task, Updating
<1>4. task' = [task EXCEPT ![r] = new] /\ task \in [Requests -> Task \cup {None}]
  BY DEF ReceiveUpdate, TypeOK
<1> HIDE DEF new
<1>5. /\ task' \in [Requests -> Task \cup {None}] /\ task'[r] = new
      /\ \A q \in Requests \ {r} : task'[q] = task[q]
  BY <1>3, <1>4
<1>6. \A q \in Requests : Created(q)' = Created(q) /\ BatchOf(q)' = BatchOf(q)
  BY <1>1, <1>2, <1>3, <1>5 DEF Created, BatchOf
<1>7. TypeOK'
  BY <1>1, <1>2, <1>5 DEF TypeOK, Handles
<1>8. HoldersOK'
  BY <1>1, <1>2, <1>5 DEF TypeOK, HoldersOK
<1>9. InsertsOK'
  BY <1>2, <1>3, <1>5 DEF InsertsOK, Handles, Inserted
<1>10. UpdatesOK'
  BY <1>2, <1>3, <1>5 DEF UpdatesOK, UpdateAt, Handles
<1>11. CreatorsOK'
  BY <1>1, <1>2, <1>5, <1>6 DEF CreatorsOK, TypeOK, Handles
<1>12. AnswersOK'
  BY <1>1, <1>2, <1>5, <1>6 DEF AnswersOK, Ended, Handles
<1> QED
  BY <1>7, <1>8, <1>9, <1>10, <1>11, <1>12

\* A request that selects the row of a symbol, and what it knows of itself.
LEMMA OpenUpdate ==
    ASSUME Inductive, NEW r \in Requests, Handles(r, "Update")
    PROVE  /\ task[r] \in Updating /\ task[r] # None /\ BatchOf(r) = << >>
           /\ task[r].symbol \in Symbols /\ task[r].status \in MarketStatus
           /\ answer[r] = None /\ Created(r) = {}
<1>1. task[r] \in Updating /\ task[r] # None /\ task[r].kind = "Update"
  BY DEF Handles, Inductive, TypeOK, Task, Creating
<1>2. answer[r] = None /\ Created(r) = {}
  BY <1>1, NoneAssumption DEF Inductive, AnswersOK, CreatorsOK, Ended, Handles, Created
<1> QED
  BY <1>1, <1>2 DEF Updating, BatchOf

\* The row that r locks was free or locked by r: nobody else's locks change.
LEMMA LockTaken ==
    ASSUME Inductive, NEW r \in Requests, Handles(r, "Update"),
           rows[task[r].symbol] # None, holder[task[r].symbol] \in {None, r},
           holder' = [holder EXCEPT ![task[r].symbol] = r], rows' = rows, creator' = creator,
           NEW new \in Task, new.kind \in {"Update", "Rollback"},
           new.kind = "Rollback" => new.batch = << >>,
           new.kind = "Update" /\ new.at # "Select" =>
              new.symbol = task[r].symbol /\ ValidTransition(rows[new.symbol], new.status),
           task' = [task EXCEPT ![r] = new],
           answer' = answer \/ (new.kind = "Rollback" /\ Respond(r, 409))
    PROVE  Inductive'
<1> USE DEF Inductive
<1> DEFINE symbol == task[r].symbol
<1>1. /\ task[r] # None /\ BatchOf(r) = << >> /\ symbol \in Symbols
      /\ answer[r] = None /\ Created(r) = {}
  BY OpenUpdate
<1>2. /\ task' \in [Requests -> Task \cup {None}] /\ task'[r] = new /\ new # None
      /\ \A q \in Requests \ {r} : task'[q] = task[q]
  BY NoneAssumption DEF TypeOK
<1>3. /\ holder' \in [Symbols -> Requests \cup {None}] /\ holder'[symbol] = r
      /\ \A s \in Symbols \ {symbol} : holder'[s] = holder[s]
  BY <1>1 DEF TypeOK
<1>4. /\ answer' \in [Requests -> Answers \cup {None}]
      /\ answer'[r] = None \/ (answer'[r] = 409 /\ new.kind = "Rollback")
      /\ \A q \in Requests \ {r} : answer'[q] = answer[q]
  BY <1>1, Responded DEF TypeOK, Answers
<1> HIDE DEF symbol
<1>5. \A q \in Requests : BatchOf(q)' = BatchOf(q) /\ Created(q)' = Created(q)
  BY <1>1, <1>2 DEF BatchOf, Created
<1>6. TypeOK'
  <2>1. ASSUME NEW s \in Symbols, holder'[s] # None
        PROVE  ~ Handles(holder[s], "Done")'
    <3>1. CASE s = symbol
      BY <3>1, <1>2, <1>3 DEF Handles
    <3>2. CASE s # symbol
      <4>1. holder'[s] = holder[s] /\ holder[s] \in Requests /\ ~ Handles(holder[s], "Done")
        BY <2>1, <3>2, <1>3 DEF TypeOK
      <4> QED
        BY <4>1, <1>2 DEF Handles
    <3> QED
      BY <3>1, <3>2
  <2> QED
    BY <1>2, <1>3, <1>4, <2>1 DEF TypeOK
<1>7. HoldersOK'
  BY <1>2, <1>3 DEF TypeOK, HoldersOK
<1>8. InsertsOK'
  <2> SUFFICES ASSUME NEW q \in Requests, Handles(q, "Create")'
               PROVE  /\ ValidBatch(task'[q].batch)
                      /\ task'[q].next <= Len(task'[q].batch) + 1
                      /\ \A i \in Inserted(q)' :
                            holder'[task'[q].batch[i]] = q /\ rows'[task'[q].batch[i]] = None
                      /\ \A s \in Symbols : holder'[s] = q =>
                            \E i \in Inserted(q)' : task'[q].batch[i] = s
    BY DEF InsertsOK
  <2>1. /\ q # r /\ q # None /\ Handles(q, "Create")
        /\ task'[q] = task[q] /\ Inserted(q)' = Inserted(q)
    BY <1>2, NoneAssumption DEF Handles, Inserted
  <2>2. \A i \in Inserted(q) : task[q].batch[i] \in Symbols
    BY <2>1, OpenBatch DEF Inserted
  <2>3. \A i \in Inserted(q) : holder'[task[q].batch[i]] = q
    BY <1>3, <2>1, <2>2 DEF InsertsOK, symbol
  <2> QED
    BY <1>3, <2>1, <2>3 DEF InsertsOK
<1>9. UpdatesOK'
  <2> SUFFICES ASSUME NEW q \in Requests, (UpdateAt(q, "Update") \/ UpdateAt(q, "Commit"))'
               PROVE  /\ holder'[task'[q].symbol] = q
                      /\ rows'[task'[q].symbol] # None
                      /\ ValidTransition(rows'[task'[q].symbol], task'[q].status)
    BY DEF UpdatesOK, ValidTransition
  <2>1. CASE q = r
    BY <2>1, <1>2, <1>3 DEF UpdateAt, Handles, symbol
  <2>2. CASE q # r
    <3>1. /\ task'[q] = task[q] /\ task[q].symbol \in Symbols /\ q # None
          /\ UpdateAt(q, "Update") \/ UpdateAt(q, "Commit")
      BY <2>2, <1>2, NoneAssumption
         DEF UpdateAt, Handles, TypeOK, Task, Creating, Updating
    <3> QED
      BY <2>2, <3>1, <1>3 DEF UpdatesOK, symbol
  <2> QED
    BY <2>1, <2>2
<1>10. CreatorsOK'
  BY <1>2, <1>5 DEF CreatorsOK, TypeOK, Handles
<1>11. AnswersOK'
  <2> SUFFICES ASSUME NEW q \in Requests, answer'[q] # None
               PROVE  /\ Ended(q)'
                      /\ answer'[q] = 201 => Created(q) # {}
                      /\ answer'[q] \in {400, 409} => Created(q) = {}
                      /\ answer'[q] = 409 /\ BatchOf(q) # << >> =>
                            \/ \E s \in Symbols \cap Range(BatchOf(q)) : rows[s] # None
                            \/ ~ IsInjective(BatchOf(q))
    BY <1>5 DEF AnswersOK
  <2>1. CASE q = r
    BY <2>1, <1>1, <1>2, <1>4 DEF Ended, Handles
  <2>2. CASE q # r
    BY <2>2, <1>2, <1>4 DEF AnswersOK, Ended, Handles
  <2> QED
    BY <2>1, <2>2
<1> QED
  BY <1>6, <1>7, <1>8, <1>9, <1>10, <1>11

LEMMA SelectForUpdateStep ==
    ASSUME Inductive, NEW r \in Requests, SelectForUpdate(r)
    PROVE  Inductive'
<1> DEFINE new == IF ValidTransition(rows[task[r].symbol], task[r].status)
                    THEN [task[r] EXCEPT !.at = "Update"]
                    ELSE [kind |-> "Rollback", batch |-> << >>]
<1>1. /\ Handles(r, "Update") /\ BatchOf(r) = << >> /\ task[r] \in Updating
      /\ rows[task[r].symbol] # None /\ holder[task[r].symbol] = None
      /\ holder' = [holder EXCEPT ![task[r].symbol] = r]
      /\ rows' = rows /\ creator' = creator
  BY OpenUpdate DEF SelectForUpdate, UpdateAt, LockRow
<1>2. new \in Task /\ task' = [task EXCEPT ![r] = new]
  BY <1>1, EmptyBatch DEF SelectForUpdate, Leave, Task, Updating
<1>3. /\ new.kind \in {"Update", "Rollback"}
      /\ new.kind = "Rollback" =>
            new.batch = << >> /\ ~ ValidTransition(rows[task[r].symbol], task[r].status)
      /\ new.kind = "Update" => /\ new.symbol = task[r].symbol
                                /\ ValidTransition(rows[new.symbol], new.status)
  BY <1>1 DEF Updating
<1>4. answer' = answer \/ (new.kind = "Rollback" /\ Respond(r, 409))
  BY DEF SelectForUpdate
<1> HIDE DEF new
<1> QED
  BY <1>1, <1>2, <1>3, <1>4, LockTaken

LEMMA UpdateRowStep ==
    ASSUME Inductive, NEW r \in Requests, UpdateRow(r)
    PROVE  Inductive'
<1> DEFINE new == [task[r] EXCEPT !.at = "Commit"]
<1>1. /\ Handles(r, "Update") /\ task[r] \in Updating /\ UpdateAt(r, "Update")
      /\ holder[task[r].symbol] \in {None, r}
      /\ holder' = [holder EXCEPT ![task[r].symbol] = r]
      /\ task' = [task EXCEPT ![r] = new]
      /\ rows' = rows /\ creator' = creator /\ answer' = answer
  BY OpenUpdate DEF UpdateRow, UpdateAt
<1>2. /\ rows[task[r].symbol] # None
      /\ ValidTransition(rows[task[r].symbol], task[r].status)
  BY <1>1 DEF Inductive, UpdatesOK
<1>3. /\ new \in Task /\ new.kind = "Update"
      /\ new.symbol = task[r].symbol /\ new.status = task[r].status
  BY <1>1 DEF Updating, Task
<1> HIDE DEF new
<1> QED
  BY <1>1, <1>2, <1>3, LockTaken

\* The constraint fails: the symbol is a committed row, or the batch names it twice.
LEMMA InsertConflictStep ==
    ASSUME Inductive, NEW r \in Requests, InsertConflict(r)
    PROVE  Inductive'
<1> DEFINE batch == task[r].batch
           n == task[r].next
<1>1. Handles(r, "Create") /\ Inserting(r) /\ Taken(r, batch[n]) /\ Refuse(r, 409)
  BY DEF InsertConflict, Inserting, NextSymbol
<1>2. /\ BatchOf(r) = batch /\ DOMAIN batch = 1 .. Len(batch) /\ n \in DOMAIN batch
      /\ Len(batch) \in Nat /\ batch[n] \in Symbols
  BY <1>1, OpenBatch, InstrumentAssumption DEF Inserting
<1>3. batch[n] \in Range(batch)
  BY <1>2 DEF Range
<1>4. CASE rows[batch[n]] # None
  BY <1>1, <1>2, <1>3, <1>4, RefuseStep
<1>5. CASE holder[batch[n]] = r
  <2>1. PICK i \in 1 .. n - 1 : batch[i] = batch[n]
    BY <1>1, <1>2, <1>5 DEF Inductive, InsertsOK, Inserted
  <2>2. i \in DOMAIN batch /\ i # n
    BY <1>2, <2>1
  <2>3. ~ IsInjective(batch)
    BY <1>2, <2>1, <2>2 DEF IsInjective
  <2> QED
    BY <1>1, <1>2, <2>3, RefuseStep
<1> QED
  BY <1>1, <1>4, <1>5 DEF Taken

\* The invariant is inductive.
THEOREM StepInductive == Inductive /\ [Next]_vars => Inductive'
<1> SUFFICES ASSUME Inductive, [Next]_vars PROVE Inductive'
  OBVIOUS
<1>1. ASSUME NEW r \in Requests, NEW batch \in Batches, ReceiveBatch(r, batch)
      PROVE  Inductive'
  BY <1>1, ReceiveBatchStep
<1>2. ASSUME NEW r \in Requests, NEW symbol \in Symbols, NEW status \in MarketStatus,
             ReceiveUpdate(r, symbol, status)
      PROVE  Inductive'
  BY <1>2, ReceiveUpdateStep
<1>3. ASSUME NEW r \in Requests, Proceed(r) PROVE Inductive'
  <2>1. CASE SelectMissing(r)
    <3>1. Handles(r, "Update") /\ Refuse(r, 404)
      BY <2>1 DEF SelectMissing, UpdateAt
    <3> QED
      BY <3>1, RefuseStep
  <2>2. CASE CommitBatch(r)
    BY <2>2, StoreBatchStep DEF CommitBatch
  <2>3. CASE CommitUpdate(r)
    BY <2>3, StoreUpdateStep DEF CommitUpdate
  <2> QED
    BY <1>3, <2>1, <2>2, <2>3, InsertConflictStep, InsertRowStep, SelectForUpdateStep,
       UpdateRowStep DEF Proceed
<1>4. ASSUME NEW r \in Requests, Rollback(r) PROVE Inductive'
  BY <1>4, RollbackStep
<1>5. ASSUME NEW r \in Requests, DeadlockVictim(r) PROVE Inductive'
  <2>1. Refuse(r, 500) /\ (Handles(r, "Create") \/ Handles(r, "Update"))
    BY <1>5 DEF DeadlockVictim, WaitsFor, Inserting, UpdateAt
  <2> QED
    BY <2>1, RefuseStep
<1>6. ASSUME NEW r \in Requests, Fail(r) PROVE Inductive'
  BY <1>6, RefuseStep DEF Fail
<1>7. ASSUME NEW r \in Requests, FailAfterCommit(r) PROVE Inductive'
  BY <1>7, StoreBatchStep, StoreUpdateStep DEF FailAfterCommit
<1>8. CASE UNCHANGED vars
  <2>1. TypeOK' /\ HoldersOK'
    BY <1>8 DEF vars, Inductive, TypeOK, HoldersOK, Handles
  <2>2. InsertsOK' /\ UpdatesOK'
    BY <1>8 DEF vars, Inductive, InsertsOK, UpdatesOK, UpdateAt, Handles, Inserted
  <2>3. CreatorsOK' /\ AnswersOK'
    BY <1>8 DEF vars, Inductive, CreatorsOK, AnswersOK, Created, BatchOf, Ended, Handles
  <2> QED
    BY <2>1, <2>2, <2>3 DEF Inductive
<1> QED
  BY <1>1, <1>2, <1>3, <1>4, <1>5, <1>6, <1>7, <1>8 DEF Next

THEOREM AlwaysInductive == Spec => []Inductive
<1>1. Init => Inductive
  <2> SUFFICES ASSUME Init PROVE Inductive
    OBVIOUS
  <2>1. TypeOK /\ HoldersOK
    BY DEF Init, TypeOK, HoldersOK
  <2>2. InsertsOK /\ UpdatesOK /\ AnswersOK
    BY DEF Init, InsertsOK, UpdatesOK, AnswersOK, UpdateAt, Handles
  <2>3. CreatorsOK
    BY NoneAssumption DEF Init, CreatorsOK, Created
  <2> QED
    BY <2>1, <2>2, <2>3 DEF Inductive
<1> QED
  BY <1>1, StepInductive, PTL DEF Spec

-----------------------------------------------------------------------------
(* What the invariant gives.                                               *)

\* Every variable keeps its type, and no request that is over holds a lock.
THEOREM TypeCorrect == Spec => []TypeOK
<1>1. Inductive => TypeOK
  BY DEF Inductive
<1> QED
  BY <1>1, AlwaysInductive, PTL

\* create_instruments stores a whole batch or nothing of it, and its answer
\* says which, whatever other requests do and wherever a statement fails.
THEOREM BatchesAlwaysAtomic == Spec => []BatchesAreAtomic
<1>1. ASSUME Inductive PROVE BatchesAreAtomic
  <2>1. \A r \in Requests : Created(r) \in {{}, Range(BatchOf(r))}
    BY <1>1 DEF Inductive, CreatorsOK
  <2>2. ASSUME NEW r \in Requests
        PROVE  /\ answer[r] = 201 => Created(r) # {}
               /\ answer[r] \in {400, 409} => Created(r) = {}
    BY <1>1, <2>2, NoneAssumption DEF Inductive, AnswersOK, Answers
  <2> QED
    BY <2>1, <2>2 DEF BatchesAreAtomic
<1> QED
  BY <1>1, AlwaysInductive, PTL

\* A batch is refused for a conflict only for a row that was committed or a
\* symbol it names twice, never for what an open transaction has inserted.
THEOREM ConflictsAlwaysReal == Spec => []ConflictsAreReal
<1>1. ASSUME Inductive, NEW r \in Requests, answer[r] = 409, BatchOf(r) # << >>
      PROVE  \/ \E s \in Range(BatchOf(r)) : rows[s] # None
             \/ ~ IsInjective(BatchOf(r))
  BY <1>1, NoneAssumption DEF Inductive, AnswersOK, Answers
<1>2. Inductive => ConflictsAreReal
  BY <1>1 DEF ConflictsAreReal
<1> QED
  BY <1>2, AlwaysInductive, PTL

\* update_market_status never revives a delisted instrument, whichever status
\* changes of it overlap: the row is locked from the check to the commit.
THEOREM DelistedStaysDelisted == Spec => DelistedIsFinal
<1> DEFINE Final ==
        \A s \in Symbols :
          /\ rows[s] # None => rows'[s] # None
          /\ rows[s] = "Delisted" => rows'[s] = "Delisted"
<1>1. ASSUME Inductive, NEW r \in Requests, StoreBatch(r) PROVE Final
  <2>1. Handles(r, "Create") /\ task[r].next > Len(task[r].batch)
    BY <1>1 DEF StoreBatch
  <2>2. DOMAIN task[r].batch \subseteq Inserted(r)
    BY <1>1, <2>1, OpenBatch, InstrumentAssumption DEF Inserted
  <2>3. \A s \in Range(task[r].batch) : rows[s] = None
    BY <1>1, <2>1, <2>2 DEF Inductive, InsertsOK, Range
  <2>4. None # "Delisted"
    BY NoneAssumption DEF MarketStatus
  <2> QED
    BY <1>1, <2>3, <2>4 DEF StoreBatch
<1>2. ASSUME Inductive, NEW r \in Requests, StoreUpdate(r) PROVE Final
  <2>1. /\ task[r].symbol \in Symbols /\ task[r].status \in MarketStatus
        /\ ValidTransition(rows[task[r].symbol], task[r].status)
        /\ rows \in [Symbols -> MarketStatus \cup {None}]
    BY <1>2, OpenUpdate DEF StoreUpdate, UpdateAt, Inductive, UpdatesOK, TypeOK
  <2> QED
    BY <1>2, <2>1, NoneAssumption DEF StoreUpdate, ValidTransition
<1>3. ASSUME Inductive, Next PROVE Final
  <2>1. ASSUME NEW r \in Requests, ~ StoreBatch(r), ~ StoreUpdate(r),
               Proceed(r) \/ Rollback(r) \/ DeadlockVictim(r) \/ Fail(r)
        PROVE  rows' = rows
    BY <2>1 DEF Proceed, InsertConflict, InsertRow, CommitBatch, SelectMissing,
                SelectForUpdate, UpdateRow, CommitUpdate, Rollback, DeadlockVictim, Fail, Refuse
  <2>2. ASSUME NEW r \in Requests, NEW batch \in Batches, ReceiveBatch(r, batch)
        PROVE  rows' = rows
    BY <2>2 DEF ReceiveBatch
  <2>3. ASSUME NEW r \in Requests, NEW s \in Symbols, NEW status \in MarketStatus,
               ReceiveUpdate(r, s, status)
        PROVE  rows' = rows
    BY <2>3 DEF ReceiveUpdate
  <2>4. \/ rows' = rows
        \/ \E r \in Requests : StoreBatch(r) \/ StoreUpdate(r)
    BY <1>3, <2>1, <2>2, <2>3 DEF Next, FailAfterCommit
  <2> QED
    BY <1>1, <1>2, <1>3, <2>4
<1>4. Inductive /\ [Next]_vars => [Final]_vars
  BY <1>3
<1> QED
  BY <1>4, AlwaysInductive, PTL DEF Spec, DelistedIsFinal
=============================================================================
