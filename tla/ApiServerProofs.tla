-------------------------- MODULE ApiServerProofs --------------------------
(***************************************************************************)
(* The graceful shutdown of the API process cuts nobody off, for any       *)
(* number of requests, ways through the router, rows and connections.      *)
(***************************************************************************)
EXTENDS ApiServer, TLAPS

Places == Stages \cup {"Idle", "Over", "CutOff"}

TypeOK ==
    /\ at \in [Requests -> Places]
    /\ server \in [Servers -> {"Down", "Accepting", "Draining", "Stopped"}]

\* A server that has stopped has no request, and gets none.
StoppedIsEmpty ==
    \A s \in Servers : server[s] = "Stopped" =>
        \A r \in Requests : InFlight(r) => ServerOf(r) # s

\* Only the end of a process that did not exit by itself cuts requests off.
CutOffOK == process \notin {"Failed", "Killed"} => \A r \in Requests : at[r] # "CutOff"

Inductive == TypeOK /\ StoppedIsEmpty /\ CutOffOK

-----------------------------------------------------------------------------
\* A request moves to a stage of the same server, ends, or is accepted by a
\* server that has not stopped.
LEMMA MoveStep ==
    ASSUME Inductive, NEW r \in Requests, NEW stage \in Stages \cup {"Over"}, Move(r, stage),
           process = "Serving", UNCHANGED serverVars,
           \/ stage = "Over"
           \/ InFlight(r) /\ ServerOf(r) = ServerOf(r)'
           \/ server[IF stage = "Scrape" THEN "Metrics" ELSE "Api"] # "Stopped"
    PROVE  Inductive'
<1>1. /\ at' \in [Requests -> Places] /\ at'[r] = stage
      /\ \A q \in Requests \ {r} : at'[q] = at[q]
  BY DEF Move, Inductive, TypeOK, Places
<1>2. server' = server /\ process' = process
  BY DEF serverVars
<1>3. StoppedIsEmpty'
  <2> SUFFICES ASSUME NEW s \in Servers, server[s] = "Stopped", NEW q \in Requests,
                      InFlight(q)'
               PROVE  ServerOf(q)' # s
    BY <1>2 DEF StoppedIsEmpty
  <2>1. CASE q = r
    BY <2>1, <1>1 DEF Inductive, StoppedIsEmpty, InFlight, ServerOf, Stages, Awaiting
  <2>2. CASE q # r
    BY <2>2, <1>1 DEF Inductive, StoppedIsEmpty, InFlight, ServerOf
  <2> QED
    BY <2>1, <2>2
<1>4. CutOffOK'
  BY <1>1, <1>2 DEF Inductive, CutOffOK, Stages, Awaiting
<1> QED
  BY <1>1, <1>2, <1>3, <1>4 DEF Inductive, TypeOK

\* The requests stay where they are, and a server that stops has none.
LEMMA ServerStep ==
    ASSUME Inductive, at' = at,
           process' = process \/ process \notin {"Failed", "Killed"},
           server' \in [Servers -> {"Down", "Accepting", "Draining", "Stopped"}],
           \A s \in Servers : server'[s] = "Stopped" => server[s] = "Stopped" \/
              \A r \in Requests : InFlight(r) => ServerOf(r) # s
    PROVE  Inductive'
  BY DEF Inductive, TypeOK, StoppedIsEmpty, CutOffOK, InFlight, ServerOf

\* The invariant is inductive.
THEOREM StepInductive == Inductive /\ [Next]_vars => Inductive'
<1> SUFFICES ASSUME Inductive, [Next]_vars PROVE Inductive'
  OBVIOUS
<1> USE DEF serverVars, requestVars
<1>1. CASE Main /\ ~ Exit
  <2>1. CASE Start
    BY <2>1, ServerStep DEF Start, Inductive, TypeOK
  <2>2. CASE InstallHandlers \/ SendShutdown
    BY <2>2, ServerStep DEF InstallHandlers, SendShutdown, Inductive, TypeOK
  <2>3. ASSUME NEW s \in Servers, WaitForShutdown(s) \/ Drained(s) PROVE Inductive'
    BY <2>3, ServerStep DEF WaitForShutdown, Drained, Inductive, TypeOK
  <2> QED
    BY <1>1, <2>1, <2>2, <2>3 DEF Main
<1>2. CASE Exit
  <2>1. \A r \in Requests : ~ InFlight(r)
    BY <1>2 DEF Exit, Completed, Inductive, StoppedIsEmpty, ServerOf, Servers
  <2>2. at' = at /\ process' = "Exited" /\ server' = server
    BY <1>2, <2>1 DEF Exit, EndProcess, Inductive, TypeOK
  <2> QED
    BY <1>2, <2>2 DEF Exit, Inductive, TypeOK, StoppedIsEmpty, CutOffOK, InFlight, ServerOf
<1>3. CASE StartFails \/ InstallFails \/ Signal
  BY <1>3, ServerStep DEF StartFails, InstallFails, Signal, Starting, Inductive, TypeOK
<1>4. CASE Kill
  <2>1. /\ at' = [r \in Requests |-> IF InFlight(r) THEN "CutOff" ELSE at[r]]
        /\ process' = "Killed" /\ server' = server
    BY <1>4 DEF Kill, EndProcess
  <2>2. \A r \in Requests : ~ InFlight(r)'
    BY <2>1 DEF InFlight, Stages, Awaiting
  <2> QED
    BY <2>1, <2>2 DEF Inductive, TypeOK, Places, StoppedIsEmpty, CutOffOK
<1>5. ASSUME NEW r \in Requests, NEW plan \in Plans, Accept(r, plan) PROVE Inductive'
  <2>1. plan.server \in Servers
    BY ServerAssumption DEF Plan
  <2>2. /\ FirstStage(plan) \in Stages
        /\ (IF FirstStage(plan) = "Scrape" THEN "Metrics" ELSE "Api") = plan.server
    BY <2>1 DEF FirstStage, HandlerStage, Stages, Awaiting, Servers
  <2> QED
    BY <1>5, <2>2, MoveStep DEF Accept, Serving
<1>6. ASSUME NEW r \in Requests,
             \/ Proceed(r) \/ ReceiveBody(r)
             \/ AcquireTimeout(r) \/ Abandon(r) \/ DeadlockVictim(r)
      PROVE  Inductive'
  <2>1. CASE Acquire(r)
    <3> DEFINE stage == IF at[r] = "AwaitSession" THEN "Session" ELSE "Handler"
    <3>1. Move(r, stage) /\ process = "Serving" /\ UNCHANGED serverVars /\ InFlight(r)
          /\ at[r] \in Awaiting
      BY <2>1 DEF Acquire, Serving, InFlight, Stages
    <3>2. stage \in Stages /\ ServerOf(r) = "Api" /\ stage # "Scrape"
      BY <3>1 DEF Stages, Awaiting, ServerOf
    <3>3. ServerOf(r)' = "Api"
      BY <3>1, <3>2 DEF ServerOf, Move, Inductive, TypeOK
    <3> QED
      BY <3>1, <3>2, <3>3, MoveStep
  <2>2. ASSUME CheckSession(r) \/ ReceiveBody(r),
               NEW stage \in {"Body", "AwaitHandler"}, Move(r, stage)
        PROVE  Inductive'
    <3>1. process = "Serving" /\ UNCHANGED serverVars /\ InFlight(r) /\ ServerOf(r) = "Api"
      BY <2>2 DEF CheckSession, ReceiveBody, Serving, InFlight, Stages, ServerOf
    <3>2. ServerOf(r)' = "Api" /\ stage \in Stages
      BY <2>2 DEF ServerOf, Move, Inductive, TypeOK, Stages, Awaiting
    <3> QED
      BY <2>2, <3>1, <3>2, MoveStep
  <2>3. CASE LockRow(r)
    BY <2>3, ServerStep DEF LockRow, Serving, Inductive, TypeOK
  <2>4. CASE End(r) /\ process = "Serving" /\ UNCHANGED serverVars
    BY <2>4, MoveStep DEF End
  <2> QED
    BY <1>6, <2>1, <2>2, <2>3, <2>4
    DEF Proceed, AnswerAtOnce, CheckSession, ReceiveBody, HandlerStage, Commit,
        AcquireTimeout, Abandon, DeadlockVictim, Serving
<1>7. ASSUME NEW r \in Requests, Rollback(r) PROVE Inductive'
  BY <1>7, ServerStep DEF Rollback, Serving, Inductive, TypeOK
<1>8. CASE UNCHANGED vars
  BY <1>8 DEF vars, Inductive, TypeOK, StoppedIsEmpty, CutOffOK, InFlight, ServerOf
<1> QED
  BY <1>1, <1>2, <1>3, <1>4, <1>5, <1>6, <1>7, <1>8 DEF Next, Main

-----------------------------------------------------------------------------
(* What a request holds depends on how far it has come.                    *)

Connected == {"Session", "Handler"}

\* Two steps of the way have a connection and only a handler locks rows; what
\* was dropped may keep both until it is rolled back.
HoldsOK ==
    /\ conn \in [Requests -> Int]
    /\ held \in [Rows -> Requests \cup {None}]
    /\ \A r \in Requests : at[r] # "Over" =>
          conn[r] = IF at[r] \in Connected THEN 1 ELSE 0
    /\ \A row \in Rows, r \in Requests : held[row] = r => at[r] \in {"Handler", "Over"}

\* A request goes from one stage to another.
LEMMA HoldsStep ==
    ASSUME Inductive, HoldsOK, NEW r \in Requests, NEW stage, Move(r, stage),
           conn' \in [Requests -> Int], held' \in [Rows -> Requests \cup {None}],
           \A q \in Requests \ {r} : conn'[q] = conn[q],
           stage # "Over" => conn'[r] = IF stage \in Connected THEN 1 ELSE 0,
           \A row \in Rows : held'[row] \in {held[row], None},
           stage \in {"Handler", "Over"} \/ \A row \in Rows : held[row] # r
    PROVE  HoldsOK'
<1>1. at'[r] = stage /\ \A q \in Requests \ {r} : at'[q] = at[q]
  BY DEF Move, Inductive, TypeOK
<1>2. \A q \in Requests : at'[q] # "Over" =>
         conn'[q] = IF at'[q] \in Connected THEN 1 ELSE 0
  BY <1>1 DEF HoldsOK
<1>3. \A row \in Rows, q \in Requests : held'[row] = q => held[row] = q
  BY ServerAssumption
<1>4. \A row \in Rows, q \in Requests : held'[row] = q => at'[q] \in {"Handler", "Over"}
  BY <1>1, <1>3 DEF HoldsOK
<1> QED
  BY <1>2, <1>4 DEF HoldsOK

LEMMA HoldsInductive == Inductive /\ HoldsOK /\ [Next]_vars => HoldsOK'
<1> SUFFICES ASSUME Inductive, HoldsOK, [Next]_vars PROVE HoldsOK'
  OBVIOUS
<1> USE DEF serverVars, requestVars
<1>1. CASE UNCHANGED requestVars
  BY <1>1 DEF HoldsOK
<1>2. CASE Exit \/ Kill
  <2>1. /\ conn' = [r \in Requests |-> 0] /\ held' = [row \in Rows |-> None]
        /\ at' = [r \in Requests |-> IF InFlight(r) THEN "CutOff" ELSE at[r]]
    BY <1>2 DEF Exit, Kill, EndProcess
  <2>2. \A r \in Requests : at'[r] \notin Connected
    BY <2>1 DEF InFlight, Stages, Connected
  <2> QED
    BY <2>1, <2>2, ServerAssumption DEF HoldsOK
<1>3. ASSUME NEW r \in Requests, NEW plan \in Plans, Accept(r, plan) PROVE HoldsOK'
  <2>1. at[r] = "Idle" /\ Move(r, FirstStage(plan)) /\ UNCHANGED <<conn, held>>
    BY <1>3 DEF Accept, Serving
  <2>2. FirstStage(plan) \notin Connected /\ FirstStage(plan) # "Over"
    BY DEF FirstStage, HandlerStage, Connected
  <2> QED
    BY <2>1, <2>2, HoldsStep DEF HoldsOK, Connected
<1>4. ASSUME NEW r \in Requests, End(r), held' = held \/ held' = Unlocked(r),
             conn' = conn \/ conn' = [conn EXCEPT ![r] = @ - 1]
      PROVE  HoldsOK'
  <2>1. conn' \in [Requests -> Int] /\ \A q \in Requests \ {r} : conn'[q] = conn[q]
    BY <1>4 DEF HoldsOK
  <2>2. /\ held' \in [Rows -> Requests \cup {None}]
        /\ \A row \in Rows : held'[row] \in {held[row], None}
    BY <1>4 DEF HoldsOK, Unlocked
  <2> QED
    BY <1>4, <2>1, <2>2, HoldsStep DEF End
<1>5. ASSUME NEW r \in Requests, Acquire(r) PROVE HoldsOK'
  <2>1. CASE at[r] = "AwaitSession"
    BY <1>5, <2>1, HoldsStep DEF Acquire, HoldsOK, Connected
  <2>2. CASE at[r] = "AwaitHandler"
    BY <1>5, <2>2, HoldsStep DEF Acquire, HoldsOK, Connected
  <2> QED
    BY <1>5, <2>1, <2>2 DEF Acquire, Serving, Awaiting
<1>6. ASSUME NEW r \in Requests, CheckSession(r) \/ ReceiveBody(r), ~ End(r) PROVE HoldsOK'
  <2>1. PICK stage \in {"Body", "AwaitHandler"} : Move(r, stage)
    BY <1>6 DEF CheckSession, ReceiveBody, HandlerStage
  <2>2. /\ conn' \in [Requests -> Int] /\ conn'[r] = 0 /\ held' = held
        /\ \A q \in Requests \ {r} : conn'[q] = conn[q]
        /\ at[r] \in {"Session", "Body"}
    BY <1>6 DEF CheckSession, ReceiveBody, AfterSession, Serving, HoldsOK, Connected
  <2> QED
    BY <2>1, <2>2, HoldsStep DEF HoldsOK, Connected
<1>7. ASSUME NEW r \in Requests, LockRow(r) PROVE HoldsOK'
  BY <1>7, ServerAssumption DEF LockRow, Serving, Wanted, HoldsOK
<1>8. ASSUME NEW r \in Requests, Rollback(r) PROVE HoldsOK'
  BY <1>8, ServerAssumption DEF Rollback, Serving, Unlocked, HoldsOK, Connected
<1>9. ASSUME NEW r \in Requests,
             \/ Proceed(r) \/ ReceiveBody(r)
             \/ AcquireTimeout(r) \/ Abandon(r) \/ DeadlockVictim(r)
      PROVE  HoldsOK'
  BY <1>4, <1>5, <1>6, <1>7, <1>9
  DEF Proceed, AnswerAtOnce, CheckSession, ReceiveBody, AfterSession, Commit,
      AcquireTimeout, Abandon, DeadlockVictim
<1>10. CASE Main /\ ~ Exit
  BY <1>1, <1>10 DEF Main, Start, InstallHandlers, SendShutdown, WaitForShutdown, Drained
<1>11. CASE StartFails \/ InstallFails \/ Signal
  BY <1>1, <1>11 DEF StartFails, InstallFails, Signal
<1>12. CASE UNCHANGED vars
  BY <1>1, <1>12 DEF vars
<1> QED
  BY <1>2, <1>3, <1>8, <1>9, <1>10, <1>11, <1>12 DEF Next, Main

\* However many clients stall in the middle of a body, their requests keep no
\* connection of the pool and no row from the others.
THEOREM StalledAlwaysHoldsNothing == Spec => []StalledHoldsNothing
<1>1. Init => Inductive /\ HoldsOK
  BY ServerAssumption DEF Init, Inductive, TypeOK, Places, StoppedIsEmpty, CutOffOK, HoldsOK, Connected
<1>2. HoldsOK => StalledHoldsNothing
  BY DEF HoldsOK, StalledHoldsNothing, Connected
<1> QED
  BY <1>1, <1>2, StepInductive, HoldsInductive, PTL DEF Spec

-----------------------------------------------------------------------------
\* However requests wait for connections, rows and each other, a process that
\* was told to stop exits only when each of them is answered or given up.
THEOREM NothingEverCutOff == Spec => []NothingCutOff
<1>1. Init => Inductive
  BY DEF Init, Inductive, TypeOK, Places, StoppedIsEmpty, CutOffOK
<1>2. Inductive => NothingCutOff
  BY DEF Inductive, CutOffOK, NothingCutOff
<1> QED
  BY <1>1, <1>2, StepInductive, PTL DEF Spec
=============================================================================
