----------------------------- MODULE ApiServer -----------------------------
(***************************************************************************)
(* src/bin/api.rs: one process with two servers, the API and the metrics,  *)
(* a connection pool shared by all API requests (src/db/connection.rs),    *)
(* and a graceful shutdown.  This is the composition that the modules of   *)
(* the single handlers leave out: a request is the way it takes through    *)
(* the router (src/api/mod.rs), the connections it takes from the pool and *)
(* the rows its transaction locks.                                         *)
(*                                                                         *)
(* tokio and sqlx are modelled by what the code relies on: a connection of *)
(* a request that was answered or dropped goes back to the pool, rolled    *)
(* back, some time later; a server that was told to stop accepts nothing   *)
(* more and completes when the requests it has are over.                   *)
(***************************************************************************)
EXTENDS Integers, FiniteSets, Sequences, FiniteSetsExt

CONSTANTS
    MaxRequests,  \* the bound on requests; request r is the r-th accepted
    Rows,         \* rows and unique keys that transactions lock
    Plans,        \* the ways of a request: see Plan
    PoolSize,     \* max_connections
    None

Requests == 1 .. MaxRequests
Servers == {"Api", "Metrics"}

\* Whether a request is answered without the database (a metrics scrape, a
\* missing token, a refusal by the rate limiter), whether its route checks the
\* session first, whether its handler takes the body (Json(request)), and the
\* rows the handler locks, in order.
Plan == [server: Servers, database: BOOLEAN, session: BOOLEAN, body: BOOLEAN, rows: Seq(Rows)]

ASSUME ServerAssumption ==
    /\ PoolSize \in Nat \ {0}
    /\ MaxRequests \in Nat
    /\ Plans \subseteq Plan
    /\ \A plan \in Plans : plan.server = "Metrics" => ~ plan.database
    /\ None \notin Requests

VARIABLES
    process,    \* how far main has come, or how it ended
    handlers,   \* the signal handlers are installed
    signalled,  \* a handler has received a signal
    shutdown,   \* the watch channel has changed, or its sender is gone
    server,     \* server -> what its accept loop does
    at,         \* request -> where it is
    unread,     \* requests with a body that is not yet read
    rows,       \* request -> the rows its handler has still to lock
    conn,       \* request -> how many connections of the pool it has
    held        \* row -> the request whose transaction has it locked

requestVars == <<at, unread, rows, conn, held>>
serverVars == <<process, handlers, signalled, shutdown, server>>
vars == <<serverVars, requestVars>>

Ended == {"Failed", "Killed", "Exited"}
Awaiting == {"AwaitSession", "AwaitHandler"}
Stages == Awaiting \cup {"Scrape", "NoDatabase", "Session", "Body", "Handler"}

\* A request is not yet sent, in one of the stages, over (answered, or given up
\* by the client), or cut off by the end of the process.
InFlight(r) == at[r] \in Stages
ServerOf(r) == IF at[r] = "Scrape" THEN "Metrics" ELSE "Api"

Init ==
    /\ process = "ConnectDb"
    /\ handlers = FALSE /\ signalled = FALSE /\ shutdown = FALSE
    /\ server = [s \in Servers |-> "Down"]
    /\ at = [r \in Requests |-> "Idle"]
    /\ unread = {}
    /\ rows = [r \in Requests |-> << >>]
    /\ conn = [r \in Requests |-> 0]
    /\ held = [row \in Rows |-> None]

-----------------------------------------------------------------------------
(* main up to the accept loops.                                            *)

Starting == process \in {"ConnectDb", "BindApi", "BindMetrics"}

\* connect_db, then the two binds; the accept loops start together.
Start ==
    /\ \/ process = "ConnectDb" /\ process' = "BindApi" /\ UNCHANGED server
       \/ process = "BindApi" /\ process' = "BindMetrics" /\ UNCHANGED server
       \/ /\ process = "BindMetrics" /\ process' = "Serving"
          /\ server' = [s \in Servers |-> "Accepting"]
    /\ UNCHANGED <<handlers, signalled, shutdown, requestVars>>

\* The database cannot be reached or an address is in use: main returns (`?`).
StartFails ==
    /\ Starting
    /\ process' = "Failed"
    /\ UNCHANGED <<handlers, signalled, shutdown, server, requestVars>>

\* The spawned task polls shutdown_signal for the first time.
InstallHandlers ==
    /\ process = "Serving" /\ ~ handlers /\ ~ shutdown
    /\ handlers' = TRUE
    /\ UNCHANGED <<process, signalled, shutdown, server, requestVars>>

\* A handler cannot be installed (`expect`): the task ends and drops the sender,
\* "which also means shut down".
InstallFails ==
    /\ process = "Serving" /\ ~ handlers /\ ~ shutdown
    /\ shutdown' = TRUE
    /\ UNCHANGED <<process, handlers, signalled, server, requestVars>>

\* The end of the process ends its requests, and PostgreSQL its transactions.
EndProcess(how) ==
    /\ process' = how
    /\ at' = [r \in Requests |-> IF InFlight(r) THEN "CutOff" ELSE at[r]]
    /\ conn' = [r \in Requests |-> 0]
    /\ held' = [row \in Rows |-> None]
    /\ rows' = [r \in Requests |-> << >>]
    /\ unread' = {}
    /\ UNCHANGED <<handlers, signalled, shutdown, server>>

-----------------------------------------------------------------------------
(* Shutdown.                                                               *)

\* Ctrl-C or SIGTERM.  Until the handlers are installed it kills the process.
Kill == process \notin Ended /\ ~ handlers /\ EndProcess("Killed")

Signal ==
    /\ process = "Serving" /\ handlers /\ ~ signalled
    /\ signalled' = TRUE
    /\ UNCHANGED <<process, handlers, shutdown, server, requestVars>>

\* shutdown_tx.send(()), and the sender is dropped.
SendShutdown ==
    /\ process = "Serving" /\ signalled /\ ~ shutdown
    /\ shutdown' = TRUE
    /\ UNCHANGED <<process, handlers, signalled, server, requestVars>>

\* A bug: only the API was built with graceful shutdown.
Listening_ApiOnly(s) == s = "Api"

\* Each server has a receiver that was cloned before anything could be sent.
Listening(s) == s \in Servers

WaitForShutdown(s) ==
    /\ process = "Serving" /\ server[s] = "Accepting"
    /\ Listening(s) /\ shutdown
    /\ server' = [server EXCEPT ![s] = "Draining"]
    /\ UNCHANGED <<process, handlers, signalled, shutdown, requestVars>>

Drained(s) ==
    /\ process = "Serving" /\ server[s] = "Draining"
    /\ \A r \in Requests : InFlight(r) => ServerOf(r) # s
    /\ server' = [server EXCEPT ![s] = "Stopped"]
    /\ UNCHANGED <<process, handlers, signalled, shutdown, requestVars>>

\* A bug: main returns when the first server has stopped (select!).
Completed_First == \E s \in Servers : server[s] = "Stopped"

\* try_join!
Completed == \A s \in Servers : server[s] = "Stopped"

Exit == process = "Serving" /\ Completed /\ EndProcess("Exited")

-----------------------------------------------------------------------------
(* Requests.                                                               *)

Serving(r, stages) == process = "Serving" /\ at[r] \in stages
Move(r, stage) == at' = [at EXCEPT ![r] = stage]
End(r) ==
    /\ Move(r, "Over")
    /\ rows' = [rows EXCEPT ![r] = << >>]
    /\ unread' = unread \ {r}

\* The extractors of a handler run behind the middleware; the last one awaits
\* the body.
HandlerStage(body) == IF body THEN "Body" ELSE "AwaitHandler"

FirstStage(plan) ==
    IF plan.server = "Metrics" THEN "Scrape"
    ELSE IF ~ plan.database THEN "NoDatabase"
    ELSE IF plan.session THEN "AwaitSession" ELSE HandlerStage(plan.body)

Accept(r, plan) ==
    /\ Serving(r, {"Idle"})
    /\ \A earlier \in 1 .. r - 1 : at[earlier] # "Idle"
    /\ server[plan.server] = "Accepting"
    /\ Move(r, FirstStage(plan))
    /\ rows' = [rows EXCEPT ![r] = plan.rows]
    /\ unread' = IF plan.body THEN unread \cup {r} ELSE unread
    /\ UNCHANGED <<serverVars, conn, held>>

AnswerAtOnce(r) ==
    /\ Serving(r, {"Scrape", "NoDatabase"})
    /\ End(r)
    /\ UNCHANGED <<serverVars, conn, held>>

InUse == MapThenSumSet(LAMBDA r : conn[r], Requests)

\* A connection for the session query, or for the handler's transaction.
Acquire(r) ==
    /\ Serving(r, Awaiting)
    /\ InUse < PoolSize
    /\ conn' = [conn EXCEPT ![r] = @ + 1]
    /\ Move(r, IF at[r] = "AwaitSession" THEN "Session" ELSE "Handler")
    /\ UNCHANGED <<serverVars, unread, rows, held>>

\* acquire_timeout: three seconds without a free connection, answered 500.
AcquireTimeout(r) ==
    /\ Serving(r, Awaiting)
    /\ InUse >= PoolSize
    /\ End(r)
    /\ UNCHANGED <<serverVars, conn, held>>

\* A bug: the middleware keeps its connection while the handler runs.
AfterSession_Kept(r) == conn

\* fetch_optional(&state.db) gives its connection back when it returns.
AfterSession(r) == [conn EXCEPT ![r] = @ - 1]

\* The session is refused, or suffices (GET /auth/me), or the handler is next.
CheckSession(r) ==
    /\ Serving(r, {"Session"})
    /\ conn' = AfterSession(r)
    /\ \/ End(r)
       \/ Move(r, HandlerStage(r \in unread)) /\ UNCHANGED <<unread, rows>>
    /\ UNCHANGED <<serverVars, held>>

\* The client has sent all of the body: the request is refused (no such JSON, an
\* invalid value), or its handler goes on to the database.  Nothing limits the
\* time that takes, and whether it comes about is up to the client.
ReceiveBody(r) ==
    /\ Serving(r, {"Body"})
    /\ \/ End(r)
       \/ Move(r, "AwaitHandler") /\ unread' = unread \ {r} /\ UNCHANGED rows
    /\ UNCHANGED <<serverVars, conn, held>>

Wanted(r) == IF at[r] = "Handler" /\ rows[r] # << >> THEN Head(rows[r]) ELSE None

LockRow(r) ==
    /\ Serving(r, {"Handler"})
    /\ Wanted(r) # None
    /\ held[Wanted(r)] \in {None, r}
    /\ held' = [held EXCEPT ![Wanted(r)] = r]
    /\ rows' = [rows EXCEPT ![r] = Tail(@)]
    /\ UNCHANGED <<serverVars, at, unread, conn>>

Unlocked(r) == [row \in Rows |-> IF held[row] = r THEN None ELSE held[row]]

Commit(r) ==
    /\ Serving(r, {"Handler"})
    /\ Wanted(r) = None
    /\ End(r)
    /\ conn' = [conn EXCEPT ![r] = @ - 1]
    /\ held' = Unlocked(r)
    /\ UNCHANGED serverVars

\* A statement fails, the handler returns early, or the client hangs up and the
\* handler is dropped where it awaits.
Abandon(r) ==
    /\ Serving(r, Stages)
    /\ End(r)
    /\ UNCHANGED <<serverVars, conn, held>>

\* The pool rolls back and takes back what was dropped.
Rollback(r) ==
    /\ Serving(r, {"Over"})
    /\ conn[r] > 0
    /\ conn' = [conn EXCEPT ![r] = 0]
    /\ held' = Unlocked(r)
    /\ UNCHANGED <<serverVars, at, unread, rows>>

Holder(r) == IF Wanted(r) = None THEN None ELSE held[Wanted(r)]

InCycle(r) ==
    LET ahead[i \in Requests] ==
          IF i = 1 THEN Holder(r)
          ELSE IF ahead[i - 1] = None THEN None ELSE Holder(ahead[i - 1])
    IN  \E i \in Requests : ahead[i] = r

\* PostgreSQL breaks a cycle of waits; the handler answers 500.
DeadlockVictim(r) ==
    /\ Serving(r, {"Handler"})
    /\ Holder(r) \notin {None, r}
    /\ InCycle(r)
    /\ End(r)
    /\ UNCHANGED <<serverVars, conn, held>>

Proceed(r) ==
    AnswerAtOnce(r) \/ Acquire(r) \/ CheckSession(r) \/ LockRow(r) \/ Commit(r)

Main ==
    \/ Start \/ InstallHandlers \/ SendShutdown \/ Exit
    \/ \E s \in Servers : WaitForShutdown(s) \/ Drained(s)

Next ==
    \/ Main
    \/ StartFails \/ InstallFails \/ Kill \/ Signal
    \/ \E r \in Requests :
          \/ \E p \in Plans : Accept(r, p)
          \/ ReceiveBody(r) \/ Proceed(r) \/ Rollback(r) \/ DeadlockVictim(r)
          \/ AcquireTimeout(r) \/ Abandon(r)

\* Tasks that can run are run, PostgreSQL looks for deadlocks, the pool takes
\* connections back.  Nothing has to time out, to fail or to be given up, and
\* clients need not do anything.  (No two of the steps under one WF are ever
\* possible in one state.)
Fairness ==
    /\ WF_vars(Start \/ InstallHandlers \/ SendShutdown \/ Exit)
    /\ \A s \in Servers : WF_vars(WaitForShutdown(s) \/ Drained(s))
    /\ \A r \in Requests : WF_vars(Proceed(r) \/ Rollback(r) \/ DeadlockVictim(r))

Spec == Init /\ [][Next]_vars /\ Fairness

-----------------------------------------------------------------------------
\* "The server finishes in-flight requests before exiting": once the process
\* has exited in an orderly way no request was cut off, whatever it waited for,
\* and on either server.
NothingCutOff == process = "Exited" => \A r \in Requests : at[r] # "CutOff"

\* What the progress of the server rests on: no client leaves a request for ever
\* without the rest of its body.  It sends it, or hangs up.  The code has no limit
\* on the time a body takes or a drain may last: without this premise one client
\* who stops in the middle of a body keeps the process up.
ClientsFinish == \A r \in Requests : []<>(at[r] # "Body")

\* As long as clients finish what they send, a signal that was handled stops the
\* process in an orderly way, however many requests hold connections, wait for
\* one, or wait for each other's rows; and a process that cannot listen for
\* signals does not stay up.
ServerStops ==
    ClientsFinish =>
        /\ signalled ~> (process = "Exited")
        /\ shutdown ~> (process \in Ended)

\* As long as clients finish what they send, every request that was accepted
\* comes to an end, and whatever connection and locks it had are free again,
\* although waiting for a row keeps a connection and nobody is obliged to time
\* out: the pool never runs dry for ever.
RequestsAnswered ==
    ClientsFinish =>
        <>[] \A r \in Requests :
                ~ InFlight(r) /\ conn[r] = 0 /\ \A row \in Rows : held[row] # r

\* A request that is waiting for its body holds nothing that others need: no
\* connection of the pool and no row, however many clients stall.
StalledHoldsNothing ==
    \A r \in Requests : at[r] = "Body" =>
        conn[r] = 0 /\ \A row \in Rows : held[row] # r
=============================================================================
