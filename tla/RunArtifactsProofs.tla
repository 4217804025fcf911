------------------------- MODULE RunArtifactsProofs -------------------------
(***************************************************************************)
(* A report is of one run, for any number of jobs, named folders and       *)
(* seconds: while nobody else writes in its folder, a job finds there what *)
(* it has written, and whatever is whole was written by one job.           *)
(***************************************************************************)
EXTENDS RunArtifacts, FiniteSetTheorems, TLAPS

Names == {"events", "snapshot", "summary"}
Job == [script: Scripts, folder: Folders]

TypeOK ==
    /\ now \in 0 .. MaxClock
    /\ job \in [Jobs -> Job \cup {None}]
    /\ step \in [Jobs -> {"Idle", "Writing", "Analyzing", "Done", "Failed"}]
    /\ \A j \in Jobs : step[j] = "Idle" <=> job[j] = None
    /\ written \in [Jobs -> 0 .. 6]
    /\ read \in [Jobs -> Seq(Jobs \cup {None})]
    /\ files \in [Folders -> [Names -> Content \cup {None}]]
    /\ disturbed \in SUBSET Jobs

\* What is whole in a folder was written by one of its writers.
FilesOK ==
    \A folder \in Folders, name \in Names :
        LET content == files[folder][name]
        IN  content # None /\ content.whole => content.run \in WritersOf(folder)

\* Nothing is written or read before the start, only a writer writes, and a job
\* that analyzes has read at most two artifacts.
StepOK(j) ==
    /\ step[j] = "Idle" => written[j] = 0 /\ read[j] = << >>
    /\ step[j] = "Writing" => Writes(j) /\ read[j] = << >>
    /\ step[j] = "Analyzing" => Len(read[j]) <= 2
    /\ step[j] = "Done" => read[j] # << >>

\* An artifact of job j that its program has created, and then filled.
Holds(j, name, created) ==
    /\ written[j] >= created => ContentOf(j, name) # None
    /\ j \notin disturbed /\ written[j] = created => ContentOf(j, name) = Opened(j)
    /\ j \notin disturbed /\ written[j] > created => ContentOf(j, name) = Filled(j)

WritingOK(j) ==
    step[j] = "Writing" =>
        Holds(j, "events", 1) /\ Holds(j, "snapshot", 3) /\ Holds(j, "summary", 5)

\* A run is analyzed when its artifacts are complete.
AnalyzingOK(j) ==
    step[j] = "Analyzing" /\ Writes(j) /\ j \notin disturbed =>
        \A name \in Names : ContentOf(j, name) = Filled(j)

\* What a job has read so far is its own, or of writers of the folder it analyzes.
ReadOK(j) ==
    step[j] \in {"Analyzing", "Done"} =>
        \A i \in 1 .. Len(read[j]) :
            IF Writes(j) THEN j \notin disturbed => read[j][i] = j
                         ELSE read[j][i] \in WritersOf(Folder(j))

JobOK(j) == StepOK(j) /\ WritingOK(j) /\ AnalyzingOK(j) /\ ReadOK(j)

Inductive == TypeOK /\ FilesOK /\ \A j \in Jobs : JobOK(j)

-----------------------------------------------------------------------------
(* What a step keeps.                                                      *)

\* A job that was started has a folder.
LEMMA Started ==
    ASSUME TypeOK, NEW j \in Jobs, step[j] # "Idle"
    PROVE  job[j] \in Job /\ job[j] # None /\ Folder(j) \in Folders
  BY NoneAssumption DEF TypeOK, Job, Folder

\* A job that does nothing in a step finds its folder as it was, or is noted to
\* be disturbed.
LEMMA Kept ==
    ASSUME Inductive, NEW k \in Jobs,
           step'[k] = step[k], written'[k] = written[k], read'[k] = read[k],
           job'[k] = job[k], disturbed \subseteq disturbed',
           \A folder \in Folders : WritersOf(folder) \subseteq WritersOf(folder)',
           Active(k) =>
              /\ \A name \in Names : ContentOf(k, name) # None => ContentOf(k, name)' # None
              /\ k \in disturbed' \/ files'[Folder(k)] = files[Folder(k)]
    PROVE  JobOK(k)'
<1>1. StepOK(k)'
  BY DEF Inductive, JobOK, StepOK, Writes
<1>2. WritingOK(k)'
  <2> SUFFICES ASSUME step'[k] = "Writing"
               PROVE  (Holds(k, "events", 1) /\ Holds(k, "snapshot", 3) /\ Holds(k, "summary", 5))'
    BY DEF WritingOK
  <2>1. /\ Holds(k, "events", 1) /\ Holds(k, "snapshot", 3) /\ Holds(k, "summary", 5)
        /\ Active(k)
    BY DEF Inductive, JobOK, WritingOK, Active
  <2> QED
    BY <2>1 DEF Holds, ContentOf, Opened, Filled, Folder, Names
<1>3. AnalyzingOK(k)'
  BY DEF Inductive, JobOK, AnalyzingOK, Writes, Active, ContentOf, Folder, Filled
<1>4. ReadOK(k)'
  BY Started DEF Inductive, JobOK, ReadOK, Writes, Folder
<1> QED
  BY <1>1, <1>2, <1>3, <1>4 DEF JobOK

\* A job moves on and leaves folders alone.
LEMMA LocalStep ==
    ASSUME Inductive, NEW j \in Jobs, step[j] # "Idle",
           UNCHANGED <<now, job, files, disturbed>>,
           NEW next \in {"Writing", "Analyzing", "Done", "Failed"},
           step' = [step EXCEPT ![j] = next],
           NEW reads \in Seq(Jobs \cup {None}), read' = [read EXCEPT ![j] = reads],
           NEW n \in 0 .. 6, written' = [written EXCEPT ![j] = n],
           JobOK(j)'
    PROVE  Inductive'
<1>1. TypeOK'
  BY DEF Inductive, TypeOK
<1>2. \A folder \in Folders : WritersOf(folder)' = WritersOf(folder)
  BY DEF WritersOf, Writes, Folder
<1>3. FilesOK'
  BY <1>2 DEF Inductive, FilesOK
<1>4. ASSUME NEW k \in Jobs PROVE JobOK(k)'
  <2>1. CASE k # j
    BY <1>2, <2>1, Kept DEF Inductive, TypeOK, ContentOf, Folder
  <2> QED
    BY <2>1
<1> QED
  BY <1>1, <1>3, <1>4 DEF Inductive

\* A job touches an artifact.
LEMMA TouchStep ==
    ASSUME Inductive, NEW j \in Jobs, WritingArtifacts(j), Artifact(j) \in Names,
           NEW content \in Content, Touch(j, content),
           content.whole => content.run = j,
           WritingOK(j)'
    PROVE  Inductive'
<1> DEFINE folder == Folder(j)
           name == Artifact(j)
<1>1. /\ step[j] = "Writing" /\ written[j] \in 0 .. 5 /\ folder \in Folders
      /\ written' = [written EXCEPT ![j] = @ + 1]
      /\ UNCHANGED <<now, job, step, read>>
  BY Started DEF WritingArtifacts, Touch, Artifacts, Inductive, TypeOK
<1>2. /\ files' \in [Folders -> [Names -> Content \cup {None}]]
      /\ files'[folder][name] = content
      /\ \A other \in Folders \ {folder} : files'[other] = files[other]
      /\ \A other \in Names \ {name} : files'[folder][other] = files[folder][other]
  BY <1>1 DEF Touch, Inductive, TypeOK
<1>3. /\ disturbed' \in SUBSET Jobs /\ disturbed \subseteq disturbed'
      /\ \A k \in Jobs \ {j} : Active(k) /\ Folder(k) = folder => k \in disturbed'
  BY DEF Touch, Inductive, TypeOK
<1>4. content # None
  BY NoneAssumption
<1> HIDE DEF folder, name
<1>5. TypeOK'
  BY <1>1, <1>2, <1>3 DEF Inductive, TypeOK
<1>6. \A other \in Folders : WritersOf(other)' = WritersOf(other)
  BY <1>1 DEF WritersOf, Writes, Folder
<1>7. j \in WritersOf(folder)
  BY <1>1 DEF Inductive, JobOK, StepOK, WritersOf, folder
<1>8. FilesOK'
  BY <1>1, <1>2, <1>6, <1>7 DEF Inductive, FilesOK, name
<1>9. ASSUME NEW k \in Jobs, k # j PROVE JobOK(k)'
  <2>1. /\ step'[k] = step[k] /\ written'[k] = written[k]
        /\ read'[k] = read[k] /\ job'[k] = job[k]
    BY <1>1, <1>9 DEF Inductive, TypeOK
  <2>2. ASSUME Active(k)
        PROVE  /\ \A other \in Names :
                     ContentOf(k, other) # None => ContentOf(k, other)' # None
               /\ k \in disturbed' \/ files'[Folder(k)] = files[Folder(k)]
    <3>1. Folder(k) \in Folders /\ Folder(k)' = Folder(k)
      BY <1>1, <2>2, Started DEF Active, Inductive, Folder
    <3> QED
      BY <1>2, <1>3, <1>4, <1>9, <2>2, <3>1 DEF ContentOf
  <2> QED
    BY <1>3, <1>6, <2>1, <2>2, Kept
<1>10. JobOK(j)'
  BY <1>1 DEF Inductive, JobOK, StepOK, AnalyzingOK, ReadOK, Writes
<1> QED
  BY <1>5, <1>8, <1>9, <1>10 DEF Inductive

-----------------------------------------------------------------------------
(* One lemma per action.                                                   *)

\* The artifact that is touched, by how many times the program has done so.
LEMMA ArtifactOf ==
    ASSUME TypeOK, NEW j \in Jobs, WritingArtifacts(j)
    PROVE  /\ written[j] \in 0 .. 5 /\ Artifact(j) \in Names
           /\ written[j] = 0 \/ written[j] = 1 => Artifact(j) = "events"
           /\ written[j] = 2 \/ written[j] = 3 => Artifact(j) = "snapshot"
           /\ written[j] = 4 \/ written[j] = 5 => Artifact(j) = "summary"
<1>1. written[j] \in 0 .. 5
  BY DEF TypeOK, WritingArtifacts, Artifacts
<1>2. ASSUME written[j] = 0 \/ written[j] = 1 PROVE Artifact(j) = "events"
  BY <1>2 DEF Artifact, Artifacts
<1>3. ASSUME written[j] = 2 \/ written[j] = 3 PROVE Artifact(j) = "snapshot"
  BY <1>3 DEF Artifact, Artifacts
<1>4. ASSUME written[j] = 4 \/ written[j] = 5 PROVE Artifact(j) = "summary"
  BY <1>4 DEF Artifact, Artifacts
<1>5. \/ written[j] = 0 \/ written[j] = 1 \/ written[j] = 2
      \/ written[j] = 3 \/ written[j] = 4 \/ written[j] = 5
  BY <1>1
<1>6. Artifact(j) \in Names
  BY <1>2, <1>3, <1>4, <1>5 DEF Names
<1> QED
  BY <1>1, <1>2, <1>3, <1>4, <1>6

\* An artifact is as it should be after one was touched: another one; or this one,
\* which has just been created, or filled.
LEMMA HoldsStep ==
    ASSUME Inductive, NEW j \in Jobs, WritingArtifacts(j),
           NEW content \in Content, Touch(j, content),
           NEW other \in Names, NEW created \in 1 .. 5, Holds(j, other, created),
           \/ other # Artifact(j) /\ written[j] # created /\ written[j] + 1 # created
           \/ other = Artifact(j) /\ written[j] + 1 = created /\ content = Opened(j)
           \/ /\ other = Artifact(j) /\ written[j] = created
              /\ j \notin disturbed => content = Filled(j)
    PROVE  Holds(j, other, created)'
<1> DEFINE folder == Folder(j)
           name == Artifact(j)
<1>1. written[j] \in 0 .. 5 /\ name \in Names /\ step[j] = "Writing"
  BY ArtifactOf DEF Inductive, WritingArtifacts
<1>2. folder \in Folders
  BY <1>1, Started DEF Inductive
<1>3. /\ written'[j] = written[j] + 1 /\ job' = job
      /\ files'[folder][name] = content
      /\ \A kept \in Names \ {name} : files'[folder][kept] = files[folder][kept]
      /\ j \in disturbed' <=> j \in disturbed
  BY <1>1, <1>2 DEF Touch, Inductive, TypeOK
<1>4. ContentOf(j, other)' = files'[folder][other] /\ ContentOf(j, other) = files[folder][other]
  BY <1>3 DEF ContentOf, Folder
<1>5. content # None
  BY NoneAssumption
<1> HIDE DEF name, folder
<1>6. written[j] \in Nat /\ created \in Nat
  BY <1>1
<1>7. Opened(j)' = Opened(j) /\ Filled(j)' = Filled(j)
  BY DEF Opened, Filled
<1>8. CASE other # name /\ written[j] # created /\ written[j] + 1 # created
  <2>1. ContentOf(j, other)' = ContentOf(j, other)
    BY <1>3, <1>4, <1>8
  <2>2. /\ written'[j] >= created => written[j] >= created
        /\ written'[j] # created
        /\ written'[j] > created => written[j] > created
    BY <1>3, <1>6, <1>8
  <2> QED
    BY <1>3, <1>7, <2>1, <2>2 DEF Holds
<1>9. CASE other = name /\ written[j] + 1 = created /\ content = Opened(j)
  <2>1. written'[j] = created /\ ~ (written'[j] > created)
    BY <1>3, <1>6, <1>9
  <2> QED
    BY <1>3, <1>4, <1>5, <1>7, <1>9, <2>1 DEF Holds
<1>10. CASE /\ other = name /\ written[j] = created
            /\ j \notin disturbed => content = Filled(j)
  <2>1. written'[j] # created
    BY <1>3, <1>6, <1>10
  <2> QED
    BY <1>3, <1>4, <1>5, <1>7, <1>10, <2>1 DEF Holds
<1> QED
  BY <1>8, <1>9, <1>10 DEF name

LEMMA CreateArtifactStep ==
    ASSUME Inductive, NEW j \in Jobs, CreateArtifact(j)
    PROVE  Inductive'
<1> DEFINE content == Opened(j)
<1>1. /\ WritingArtifacts(j) /\ written[j] % 2 = 0 /\ Touch(j, content)
      /\ step[j] = "Writing"
  BY DEF CreateArtifact, WritingArtifacts
<1>2. content \in Content /\ ~ content.whole
  BY DEF Opened, Content
<1>3. /\ written[j] \in 0 .. 5 /\ Artifact(j) \in Names
      /\ written[j] = 0 => Artifact(j) = "events"
      /\ written[j] = 2 => Artifact(j) = "snapshot"
      /\ written[j] = 4 => Artifact(j) = "summary"
  BY <1>1, ArtifactOf DEF Inductive
<1>4. written[j] = 0 \/ written[j] = 2 \/ written[j] = 4
  BY <1>1, <1>3
<1>5. Holds(j, "events", 1) /\ Holds(j, "snapshot", 3) /\ Holds(j, "summary", 5)
  BY <1>1 DEF Inductive, JobOK, WritingOK
<1>6. content = Opened(j)
  OBVIOUS
<1> HIDE DEF content
<1>7. Holds(j, "events", 1)'
  BY <1>1, <1>2, <1>3, <1>4, <1>5, <1>6, HoldsStep DEF Names
<1>8. Holds(j, "snapshot", 3)'
  BY <1>1, <1>2, <1>3, <1>4, <1>5, <1>6, HoldsStep DEF Names
<1>9. Holds(j, "summary", 5)'
  BY <1>1, <1>2, <1>3, <1>4, <1>5, <1>6, HoldsStep DEF Names
<1>10. WritingOK(j)'
  BY <1>7, <1>8, <1>9 DEF WritingOK
<1> QED
  BY <1>1, <1>2, <1>3, <1>10, TouchStep

LEMMA FillArtifactStep ==
    ASSUME Inductive, NEW j \in Jobs, FillArtifact(j)
    PROVE  Inductive'
<1> DEFINE content == IF ContentOf(j, Artifact(j)) = Opened(j) THEN Filled(j) ELSE Mixed
<1>1. /\ WritingArtifacts(j) /\ written[j] % 2 = 1 /\ Touch(j, content)
      /\ step[j] = "Writing"
  BY DEF FillArtifact, WritingArtifacts
<1>2. content \in Content /\ (content.whole => content.run = j)
  BY DEF Filled, Mixed, Content
<1>3. /\ written[j] \in 0 .. 5 /\ Artifact(j) \in Names
      /\ written[j] = 1 => Artifact(j) = "events"
      /\ written[j] = 3 => Artifact(j) = "snapshot"
      /\ written[j] = 5 => Artifact(j) = "summary"
  BY <1>1, ArtifactOf DEF Inductive
<1>4. written[j] = 1 \/ written[j] = 3 \/ written[j] = 5
  BY <1>1, <1>3
<1>5. Holds(j, "events", 1) /\ Holds(j, "snapshot", 3) /\ Holds(j, "summary", 5)
  BY <1>1 DEF Inductive, JobOK, WritingOK
<1>6. /\ written[j] = 1 /\ j \notin disturbed => content = Filled(j)
      /\ written[j] = 3 /\ j \notin disturbed => content = Filled(j)
      /\ written[j] = 5 /\ j \notin disturbed => content = Filled(j)
  BY <1>3, <1>5 DEF Holds
<1> HIDE DEF content
<1>7. Holds(j, "events", 1)'
  BY <1>1, <1>2, <1>3, <1>4, <1>5, <1>6, HoldsStep DEF Names
<1>8. Holds(j, "snapshot", 3)'
  BY <1>1, <1>2, <1>3, <1>4, <1>5, <1>6, HoldsStep DEF Names
<1>9. Holds(j, "summary", 5)'
  BY <1>1, <1>2, <1>3, <1>4, <1>5, <1>6, HoldsStep DEF Names
<1>10. WritingOK(j)'
  BY <1>7, <1>8, <1>9 DEF WritingOK
<1> QED
  BY <1>1, <1>2, <1>3, <1>10, TouchStep

LEMMA NothingRead == << >> \in Seq(Jobs \cup {None}) /\ 0 \in 0 .. 6
  OBVIOUS

LEMMA PrintSummaryStep ==
    ASSUME Inductive, NEW j \in Jobs, PrintSummary(j)
    PROVE  Inductive'
<1> DEFINE summary == ContentOf(j, "summary")
<1>1. /\ step[j] = "Writing" /\ written[j] = 6 /\ written' = [written EXCEPT ![j] = 0]
      /\ UNCHANGED <<now, job, files, disturbed>>
  BY DEF PrintSummary, Artifacts
<1>2. /\ Holds(j, "events", 1) /\ Holds(j, "snapshot", 3) /\ Holds(j, "summary", 5)
      /\ Writes(j) /\ read[j] = << >>
  BY <1>1 DEF Inductive, JobOK, WritingOK, StepOK
<1>3. Folder(j) \in Folders
  BY <1>1, Started DEF Inductive
<1>4. summary # None /\ summary \in Content
  BY <1>1, <1>2, <1>3 DEF Holds, Inductive, TypeOK, ContentOf, Names
<1>5. summary.run \in Jobs \cup {None}
  BY <1>4 DEF Content
<1>6. ASSUME j \notin disturbed
      PROVE  /\ \A name \in Names : ContentOf(j, name) = Filled(j)
             /\ summary.run = j
  BY <1>1, <1>2, <1>6 DEF Holds, Names, Filled
<1>7. /\ Writes(j)' = Writes(j) /\ disturbed' = disturbed
      /\ \A name : ContentOf(j, name)' = ContentOf(j, name)
      /\ Filled(j)' = Filled(j)
  BY <1>1 DEF Writes, ContentOf, Folder, Filled
<1>8. CASE job[j].script = "run_simulation"
  <2> DEFINE reads == <<summary.run>>
  <2>1. /\ read' = [read EXCEPT ![j] = reads]
        /\ step' = [step EXCEPT ![j] = "Done"]
    BY <1>8 DEF PrintSummary
  <2>2. reads \in Seq(Jobs \cup {None}) /\ Len(reads) = 1 /\ reads[1] = summary.run
    BY <1>5
  <2> HIDE DEF reads, summary
  <2>3. read'[j] = reads /\ step'[j] = "Done"
    BY <2>1 DEF Inductive, TypeOK
  <2>4. reads # << >>
    BY <2>2
  <2>5. ReadOK(j)'
    <3>1. \A i \in 1 .. Len(reads) : reads[i] = summary.run
      BY <2>2
    <3>2. Writes(j)' /\ (j \notin disturbed' => summary.run = j)
      BY <1>2, <1>6, <1>7 DEF summary
    <3> QED
      BY <2>3, <3>1, <3>2 DEF ReadOK
  <2>6. StepOK(j)' /\ WritingOK(j)' /\ AnalyzingOK(j)'
    BY <2>3, <2>4 DEF StepOK, WritingOK, AnalyzingOK
  <2>7. JobOK(j)'
    BY <2>5, <2>6 DEF JobOK
  <2> QED
    BY <1>1, <2>1, <2>2, <2>7, LocalStep, NothingRead
<1>9. CASE job[j].script # "run_simulation"
  <2>1. /\ step' = [step EXCEPT ![j] = "Analyzing"]
        /\ read' = [read EXCEPT ![j] = << >>] /\ read' = read
    BY <1>2, <1>9 DEF PrintSummary, Inductive, TypeOK
  <2>2. read'[j] = << >> /\ step'[j] = "Analyzing"
    BY <1>2, <2>1 DEF Inductive, TypeOK
  <2>3. AnalyzingOK(j)'
    BY <1>6, <1>7 DEF AnalyzingOK
  <2>4. StepOK(j)' /\ WritingOK(j)' /\ ReadOK(j)'
    BY <2>2 DEF StepOK, WritingOK, ReadOK
  <2>5. JobOK(j)'
    BY <2>3, <2>4 DEF JobOK
  <2> QED
    BY <1>1, <2>1, <2>5, LocalStep, NothingRead
<1> QED
  BY <1>8, <1>9

LEMMA NextInput ==
    ASSUME NEW n \in Nat, n <= 2
    PROVE  n \in 0 .. 2 /\ AnalysisInputs[n + 1] \in Names
<1>1. n = 0 \/ n = 1 \/ n = 2
  OBVIOUS
<1> QED
  BY <1>1 DEF AnalysisInputs, Names

LEMMA ReadArtifactStep ==
    ASSUME Inductive, NEW j \in Jobs, ReadArtifact(j)
    PROVE  Inductive'
<1> DEFINE next == AnalysisInputs[Len(read[j]) + 1]
           content == ContentOf(j, next)
<1>1. /\ step[j] = "Analyzing" /\ written[j] \in 0 .. 6
      /\ UNCHANGED <<now, job, written, files, disturbed>>
      /\ written' = [written EXCEPT ![j] = written[j]]
      /\ read[j] \in Seq(Jobs \cup {None})
  BY DEF ReadArtifact, Inductive, TypeOK
<1>2. Len(read[j]) \in 0 .. 2 /\ next \in Names
  <2>1. Len(read[j]) \in Nat /\ Len(read[j]) <= 2
    BY <1>1 DEF Inductive, JobOK, StepOK
  <2> QED
    BY <2>1, NextInput
<1>3. Folder(j) \in Folders
  BY <1>1, Started DEF Inductive
<1>4. /\ Writes(j)' = Writes(j) /\ disturbed' = disturbed
      /\ \A name : ContentOf(j, name)' = ContentOf(j, name)
      /\ Filled(j)' = Filled(j) /\ WritersOf(Folder(j))' = WritersOf(Folder(j))
  BY <1>1 DEF Writes, ContentOf, Folder, Filled, WritersOf
<1>5. CASE content # None /\ content.whole
  <2> DEFINE reads == Append(read[j], content.run)
             after == IF Len(reads) = 3 THEN "Done" ELSE "Analyzing"
  <2>1. content \in Content
    BY <1>2, <1>3, <1>5 DEF Inductive, TypeOK, ContentOf
  <2>2. content.run \in Jobs \cup {None}
    BY <2>1 DEF Content
  <2>3. /\ reads \in Seq(Jobs \cup {None}) /\ Len(reads) = Len(read[j]) + 1
        /\ reads[Len(reads)] = content.run
        /\ \A i \in 1 .. Len(read[j]) : reads[i] = read[j][i]
    BY <1>1, <2>2
  <2>4. read' = [read EXCEPT ![j] = reads]
    BY <1>5 DEF ReadArtifact
  <2>5. read'[j] = reads
    BY <2>4 DEF Inductive, TypeOK
  <2>6. step' = [step EXCEPT ![j] = after]
    BY <1>1, <1>5, <2>5 DEF ReadArtifact, AnalysisInputs, Inductive, TypeOK
  <2>7. step'[j] = after
    BY <2>6 DEF Inductive, TypeOK
  <2>8. IF Writes(j) THEN j \notin disturbed => content.run = j
                     ELSE content.run \in WritersOf(Folder(j))
    <3>1. CASE Writes(j)
      BY <1>1, <1>2, <3>1 DEF Inductive, JobOK, AnalyzingOK, Filled
    <3>2. CASE ~ Writes(j)
      BY <1>2, <1>3, <1>5, <3>2 DEF Inductive, FilesOK, ContentOf
    <3> QED
      BY <3>1, <3>2
  <2>9. after \in {"Done", "Analyzing"} /\ (after = "Analyzing" => Len(reads) # 3)
    OBVIOUS
  <2> HIDE DEF content, next, reads, after
  <2>10. \A i \in 1 .. Len(reads) :
            IF Writes(j) THEN j \notin disturbed => reads[i] = j
                         ELSE reads[i] \in WritersOf(Folder(j))
    <3> SUFFICES ASSUME NEW i \in 1 .. Len(reads)
                 PROVE  IF Writes(j) THEN j \notin disturbed => reads[i] = j
                                     ELSE reads[i] \in WritersOf(Folder(j))
      OBVIOUS
    <3>1. CASE i \in 1 .. Len(read[j])
      BY <1>1, <2>3, <3>1 DEF Inductive, JobOK, ReadOK
    <3>2. CASE i = Len(reads)
      BY <2>3, <2>8, <3>2
    <3>3. i \in 1 .. Len(read[j]) \/ i = Len(reads)
      BY <1>2, <2>3
    <3> QED
      BY <3>1, <3>2, <3>3
  <2>11. ReadOK(j)'
    BY <1>4, <2>5, <2>10 DEF ReadOK
  <2>12. Len(reads) \in 1 .. 3
    BY <1>2, <2>3
  <2>13. StepOK(j)'
    BY <2>3, <2>5, <2>7, <2>9, <2>12 DEF StepOK
  <2>14. AnalyzingOK(j)' /\ WritingOK(j)'
    BY <1>1, <1>4, <2>7, <2>9 DEF AnalyzingOK, WritingOK, Inductive, JobOK
  <2>15. JobOK(j)'
    BY <2>11, <2>13, <2>14 DEF JobOK
  <2> QED
    BY <1>1, <2>3, <2>4, <2>6, <2>9, <2>15, LocalStep
<1>6. CASE ~ (content # None /\ content.whole)
  <2>1. /\ step' = [step EXCEPT ![j] = "Failed"]
        /\ read' = [read EXCEPT ![j] = << >>]
    BY <1>6 DEF ReadArtifact
  <2>2. step'[j] = "Failed"
    BY <2>1 DEF Inductive, TypeOK
  <2>3. JobOK(j)'
    BY <2>2 DEF JobOK, StepOK, WritingOK, AnalyzingOK, ReadOK
  <2> QED
    BY <1>1, <2>1, <2>3, LocalStep, NothingRead
<1> QED
  BY <1>5, <1>6

LEMMA FailStep ==
    ASSUME Inductive, NEW j \in Jobs, Fail(j)
    PROVE  Inductive'
<1>1. /\ step[j] # "Idle" /\ UNCHANGED <<now, job, files, disturbed>>
      /\ step' = [step EXCEPT ![j] = "Failed"]
      /\ written' = [written EXCEPT ![j] = 0] /\ read' = [read EXCEPT ![j] = << >>]
  BY DEF Fail, Active, AfterFailure
<1>2. step'[j] = "Failed"
  BY <1>1 DEF Inductive, TypeOK
<1>3. JobOK(j)'
  BY <1>2 DEF JobOK, StepOK, WritingOK, AnalyzingOK, ReadOK
<1> QED
  BY <1>1, <1>3, LocalStep, NothingRead

\* A job is started: its folder gets at most a writer more.
LEMMA EnterStep ==
    ASSUME Inductive, NEW j \in Jobs, NEW script \in Scripts, NEW folder \in Folders,
           NEW first \in {"Writing", "Analyzing"}, Enter(j, script, folder, first),
           first = "Writing" <=> script # "analyze_run"
    PROVE  Inductive'
<1> DEFINE started == [script |-> script, folder |-> folder]
<1>1. /\ step[j] = "Idle" /\ job' = [job EXCEPT ![j] = started]
      /\ step' = [step EXCEPT ![j] = first]
      /\ UNCHANGED <<now, written, read, files, disturbed>>
  BY DEF Enter
<1>2. job[j] = None /\ ~ Writes(j)
  BY <1>1 DEF Inductive, TypeOK, Writes
<1>3. started \in Job /\ started # None /\ started.script = script
  BY NoneAssumption DEF Job
<1> HIDE DEF started
<1>4. job'[j] = started /\ step'[j] = first /\ first # "Idle"
  BY <1>1 DEF Inductive, TypeOK
<1>5. \A k \in Jobs \ {j} : job'[k] = job[k] /\ step'[k] = step[k]
  BY <1>1 DEF Inductive, TypeOK
<1>6. TypeOK'
  <2>1. \A k \in Jobs : step'[k] = "Idle" <=> job'[k] = None
    BY <1>3, <1>4, <1>5 DEF Inductive, TypeOK
  <2> QED
    BY <1>1, <1>3, <2>1 DEF Inductive, TypeOK
<1>7. \A at \in Folders : WritersOf(at) \subseteq WritersOf(at)'
  BY <1>2, <1>5 DEF WritersOf, Writes, Folder
<1>8. FilesOK'
  BY <1>1, <1>7 DEF Inductive, FilesOK
<1>9. ASSUME NEW k \in Jobs, k # j PROVE JobOK(k)'
  BY <1>1, <1>5, <1>7, <1>9, Kept DEF ContentOf, Folder
<1>10. JobOK(j)'
  <2>1. written'[j] = 0 /\ read'[j] = << >>
    BY <1>1 DEF Inductive, JobOK, StepOK
  <2>2. Writes(j)' <=> first = "Writing"
    BY <1>3, <1>4 DEF Writes
  <2> QED
    BY <1>4, <2>1, <2>2 DEF JobOK, StepOK, WritingOK, Holds, AnalyzingOK, ReadOK
<1> QED
  BY <1>6, <1>8, <1>9, <1>10 DEF Inductive

\* A step that leaves the jobs and their folders alone.
LEMMA QuietStep ==
    ASSUME Inductive, now' \in 0 .. MaxClock,
           UNCHANGED <<job, step, written, read, files, disturbed>>
    PROVE  Inductive'
<1>1. TypeOK'
  BY DEF Inductive, TypeOK
<1>2. \A folder \in Folders : WritersOf(folder)' = WritersOf(folder)
  BY DEF WritersOf, Writes, Folder
<1>3. FilesOK'
  BY <1>2 DEF Inductive, FilesOK
<1>4. \A j \in Jobs : JobOK(j)'
  BY <1>2, Kept DEF ContentOf, Folder
<1> QED
  BY <1>1, <1>3, <1>4 DEF Inductive

-----------------------------------------------------------------------------
(* The specification.                                                      *)

LEMMA InitInductive == Init => Inductive
<1> SUFFICES ASSUME Init PROVE Inductive
  OBVIOUS
<1>1. TypeOK
  BY ArtifactAssumption, NoneAssumption DEF Init, TypeOK, Names
<1>2. FilesOK
  BY DEF Init, FilesOK, Names
<1>3. \A j \in Jobs : JobOK(j)
  BY DEF Init, JobOK, StepOK, WritingOK, AnalyzingOK, ReadOK
<1> QED
  BY <1>1, <1>2, <1>3 DEF Inductive

\* Every step of every job, of the clock, or of nobody, keeps the invariant.
THEOREM StepInductive == Inductive /\ [Next]_vars => Inductive'
<1> SUFFICES ASSUME Inductive, [Next]_vars PROVE Inductive'
  OBVIOUS
<1>1. CASE Tick
  <2>1. now' \in 0 .. MaxClock
    BY <1>1, ArtifactAssumption DEF Tick, Inductive, TypeOK
  <2> QED
    BY <1>1, <2>1, QuietStep DEF Tick
<1>2. ASSUME NEW j \in Jobs, NEW script \in Scripts, StartAuto(j, script) PROVE Inductive'
  <2>1. <<Prefix(script), now>> \in Folders
    BY DEF Inductive, TypeOK, Folders, AutoFolders, Prefix
  <2> QED
    BY <1>2, <2>1, EnterStep DEF StartAuto
<1>3. ASSUME NEW j \in Jobs, NEW script \in Scripts, NEW folder \in Named,
             StartNamed(j, script, folder)
      PROVE  Inductive'
  BY <1>3, EnterStep DEF StartNamed, Folders
<1>4. ASSUME NEW j \in Jobs, NEW folder \in Folders, StartAnalysis(j, folder)
      PROVE  Inductive'
  BY <1>4, EnterStep DEF StartAnalysis, Scripts
<1>5. ASSUME NEW j \in Jobs,
             \/ CreateArtifact(j) \/ FillArtifact(j) \/ PrintSummary(j)
             \/ ReadArtifact(j) \/ Fail(j)
      PROVE  Inductive'
  BY <1>5, CreateArtifactStep, FillArtifactStep, PrintSummaryStep, ReadArtifactStep, FailStep
<1>6. CASE UNCHANGED vars
  BY <1>6, QuietStep DEF vars, Inductive, TypeOK
<1> QED
  BY <1>1, <1>2, <1>3, <1>4, <1>5, <1>6 DEF Next

THEOREM AlwaysInductive == Spec => []Inductive
<1>1. Init => Inductive
  BY InitInductive
<1>2. Inductive /\ [Next]_vars => Inductive'
  BY StepInductive
<1> QED
  BY <1>1, <1>2, PTL DEF Spec

\* run_simulation.sh, run_and_analyze.sh and analyze_run.sh: what a job reports
\* that nobody disturbed is its own run, and an analysis of a folder that one job
\* has written is of that job's run alone.
THEOREM ReportsAlwaysOfOneRun == Spec => []ReportsAreOfOneRun
<1>1. ASSUME Inductive PROVE ReportsAreOfOneRun
  <2> SUFFICES ASSUME NEW j \in Jobs, step[j] = "Done", j \notin disturbed
               PROVE  LET sources == {read[j][i] : i \in DOMAIN read[j]}
                      IN  IF job[j].script = "analyze_run"
                            THEN Cardinality(WritersOf(Folder(j))) = 1
                                    => sources = WritersOf(Folder(j))
                            ELSE sources = {j}
    BY <1>1 DEF ReportsAreOfOneRun
  <2> DEFINE sources == {read[j][i] : i \in DOMAIN read[j]}
             writers == WritersOf(Folder(j))
  <2>1. read[j] \in Seq(Jobs \cup {None}) /\ read[j] # << >>
    BY <1>1 DEF Inductive, TypeOK, JobOK, StepOK
  <2>2. DOMAIN read[j] = 1 .. Len(read[j]) /\ 1 \in DOMAIN read[j]
    BY <2>1
  <2>3. sources # {}
    BY <2>2
  <2>4. job[j] # None
    BY <1>1, Started DEF Inductive
  <2>5. CASE job[j].script = "analyze_run"
    <3>1. ~ Writes(j)
      BY <2>5 DEF Writes
    <3>2. sources \subseteq writers
      BY <1>1, <2>2, <3>1 DEF Inductive, JobOK, ReadOK
    <3>3. IsFiniteSet(writers)
      <4>1. writers \subseteq Jobs
        BY DEF WritersOf
      <4> QED
        BY <4>1, ArtifactAssumption, FS_Subset
    <3> HIDE DEF sources, writers
    <3>4. ASSUME Cardinality(writers) = 1 PROVE sources = writers
      <4>1. PICK one : writers = {one}
        BY <3>3, <3>4, FS_Singleton
      <4> QED
        BY <2>3, <3>2, <4>1
    <3> QED
      BY <2>5, <3>4 DEF sources, writers
  <2>6. CASE job[j].script # "analyze_run"
    <3>1. Writes(j)
      BY <2>4, <2>6 DEF Writes
    <3>2. \A i \in DOMAIN read[j] : read[j][i] = j
      BY <1>1, <2>2, <3>1 DEF Inductive, JobOK, ReadOK
    <3>3. sources = {j}
      BY <2>3, <3>2
    <3> QED
      BY <2>6, <3>3
  <2> QED
    BY <2>5, <2>6
<1> QED
  BY <1>1, AlwaysInductive, PTL
=============================================================================
