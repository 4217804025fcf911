---------------------------- MODULE RunArtifacts ----------------------------
(***************************************************************************)
(* The runs that a scheduler starts: scripts/run_simulation.sh and         *)
(* scripts/run_and_analyze.sh, the command line program they call, which   *)
(* writes three artifacts (write_run_artifacts in src/main.rs), and        *)
(* ai/analyze_run.py, which reads them back.  Jobs are processes that      *)
(* share nothing but the run folders, where each file is truncated when it *)
(* is created and filled afterwards.                                       *)
(*                                                                         *)
(* What is in an artifact is the run it stems from; log files and the      *)
(* analysis itself are written by the job that has just been named and     *)
(* read by nobody, and are left out.                                       *)
(***************************************************************************)
EXTENDS Integers, Sequences, FiniteSets

CONSTANTS
    Jobs,      \* the jobs of a behaviour
    Named,     \* folders that callers name instead of "auto"
    MaxClock,  \* the last second
    None

Artifacts == <<"events", "snapshot", "summary">>
AnalysisInputs == <<"summary", "events", "snapshot">>

ASSUME ArtifactAssumption == MaxClock \in Nat /\ IsFiniteSet(Jobs)

VARIABLES
    now,       \* date +%Y%m%d-%H%M%S, in seconds
    job,       \* job -> the script and its folder, None before it is started
    step,      \* job -> what the script is doing
    written,   \* job -> how many times its program has touched an artifact
    read,      \* job -> the artifacts that cat and the analyzer have read
    files,     \* folder -> artifact -> its content, None when there is no file
    disturbed  \* history: jobs in whose folder another job wrote meanwhile

vars == <<now, job, step, written, read, files, disturbed>>

Scripts == {"run_simulation", "run_and_analyze", "analyze_run"}
Prefix(script) == IF script = "run_simulation" THEN "run" ELSE "windmill-analysis"
AutoFolders == {"run", "windmill-analysis"} \X (0 .. MaxClock)
Folders == Named \cup AutoFolders

\* A file that was created and not yet filled, or in which two jobs wrote at the
\* same time, is not whole.
Opened(j) == [run |-> j, whole |-> FALSE]
Filled(j) == [run |-> j, whole |-> TRUE]
Mixed == [run |-> None, whole |-> FALSE]
Content == [run: Jobs \cup {None}, whole: BOOLEAN]

ASSUME NoneAssumption == None \notin Jobs \cup Content \cup [script: Scripts, folder: Folders]

Init ==
    /\ now = 0
    /\ job = [j \in Jobs |-> None]
    /\ step = [j \in Jobs |-> "Idle"]
    /\ written = [j \in Jobs |-> 0]
    /\ read = [j \in Jobs |-> << >>]
    /\ files = [folder \in Folders |->
                  [name \in {"events", "snapshot", "summary"} |-> None]]
    /\ disturbed = {}

Tick ==
    /\ now < MaxClock
    /\ now' = now + 1
    /\ UNCHANGED <<job, step, written, read, files, disturbed>>

Enter(j, script, folder, first) ==
    /\ step[j] = "Idle"
    /\ job' = [job EXCEPT ![j] = [script |-> script, folder |-> folder]]
    /\ step' = [step EXCEPT ![j] = first]
    /\ UNCHANGED <<now, written, read, files, disturbed>>

\* mkdir -p also accepts a folder that exists.
StartNamed(j, script, folder) ==
    /\ script # "analyze_run"
    /\ Enter(j, script, folder, "Writing")

StartAuto(j, script) ==
    /\ script # "analyze_run"
    /\ Enter(j, script, <<Prefix(script), now>>, "Writing")

\* analyze_run.sh on a folder that some job was started for.
StartAnalysis(j, folder) ==
    /\ \E other \in Jobs : job[other] # None /\ job[other].folder = folder
    /\ Enter(j, "analyze_run", folder, "Analyzing")

-----------------------------------------------------------------------------
Folder(j) == job[j].folder
Active(j) == step[j] \in {"Writing", "Analyzing"}
ContentOf(j, name) == files[Folder(j)][name]

\* The program touches its artifacts in order, each twice.
Artifact(j) == Artifacts[written[j] \div 2 + 1]
Touch(j, content) ==
    /\ files' = [files EXCEPT ![Folder(j)][Artifact(j)] = content]
    /\ written' = [written EXCEPT ![j] = @ + 1]
    /\ disturbed' = disturbed \cup
          {other \in Jobs \ {j} : Active(other) /\ Folder(other) = Folder(j)}
    /\ UNCHANGED <<now, job, step, read>>

WritingArtifacts(j) == step[j] = "Writing" /\ written[j] < 2 * Len(Artifacts)

\* File::create, then to_writer_pretty.
CreateArtifact(j) ==
    /\ WritingArtifacts(j)
    /\ written[j] % 2 = 0
    /\ Touch(j, Opened(j))

FillArtifact(j) ==
    /\ WritingArtifacts(j)
    /\ written[j] % 2 = 1
    /\ Touch(j, IF ContentOf(j, Artifact(j)) = Opened(j) THEN Filled(j) ELSE Mixed)

\* cat summary.json: the result of run_simulation.sh.
PrintSummary(j) ==
    /\ step[j] = "Writing"
    /\ written[j] = 2 * Len(Artifacts)
    /\ IF job[j].script = "run_simulation"
         THEN /\ read' = [read EXCEPT ![j] = <<ContentOf(j, "summary").run>>]
              /\ step' = [step EXCEPT ![j] = "Done"]
         ELSE /\ step' = [step EXCEPT ![j] = "Analyzing"]
              /\ UNCHANGED read
    /\ written' = [written EXCEPT ![j] = 0]
    /\ UNCHANGED <<now, job, files, disturbed>>

\* The next input of the analyzer; it stops at a missing or malformed file.
ReadArtifact(j) ==
    /\ step[j] = "Analyzing"
    /\ LET content == ContentOf(j, AnalysisInputs[Len(read[j]) + 1])
       IN  IF content # None /\ content.whole
             THEN /\ read' = [read EXCEPT ![j] = Append(@, content.run)]
                  /\ step' = [step EXCEPT ![j] =
                        IF Len(read'[j]) = Len(AnalysisInputs) THEN "Done" ELSE @]
             ELSE /\ step' = [step EXCEPT ![j] = "Failed"]
                  /\ read' = [read EXCEPT ![j] = << >>]
    /\ UNCHANGED <<now, job, written, files, disturbed>>

\* A bug: without set -e the script goes on after a command that failed.
AfterFailure_GoesOn(j) ==
    IF step[j] = "Writing" /\ job[j].script = "run_and_analyze"
      THEN "Analyzing" ELSE "Failed"

AfterFailure(j) == "Failed"

\* An unknown scenario, a full disk, a killed process: `set -e` ends the script.
Fail(j) ==
    /\ Active(j)
    /\ step' = [step EXCEPT ![j] = AfterFailure(j)]
    /\ written' = [written EXCEPT ![j] = 0]
    /\ read' = [read EXCEPT ![j] = << >>]
    /\ UNCHANGED <<now, job, files, disturbed>>

Next ==
    \/ Tick
    \/ \E j \in Jobs :
          \/ \E script \in Scripts :
                StartAuto(j, script) \/ \E folder \in Named : StartNamed(j, script, folder)
          \/ \E folder \in Folders : StartAnalysis(j, folder)
          \/ CreateArtifact(j) \/ FillArtifact(j) \/ PrintSummary(j)
          \/ ReadArtifact(j) \/ Fail(j)

Spec == Init /\ [][Next]_vars

-----------------------------------------------------------------------------
Writes(j) == job[j] # None /\ job[j].script # "analyze_run"
WritersOf(folder) == {j \in Jobs : Writes(j) /\ Folder(j) = folder}

\* A job that nobody disturbed in its folder reports on its own run, although
\* folders are reused and earlier jobs may have failed half way and left files
\* of theirs; and an analysis of a folder with one writer is of that run alone.
ReportsAreOfOneRun ==
    \A j \in Jobs : step[j] = "Done" /\ j \notin disturbed =>
        LET sources == {read[j][i] : i \in DOMAIN read[j]}
        IN  IF job[j].script = "analyze_run"
              THEN Cardinality(WritersOf(Folder(j))) = 1
                      => sources = WritersOf(Folder(j))
              ELSE sources = {j}

\* "auto gives each run a fresh timestamped folder": no two jobs are given the
\* same automatic folder.
AutoIsFresh ==
    \A folder \in AutoFolders : Cardinality(WritersOf(folder)) <= 1
=============================================================================
