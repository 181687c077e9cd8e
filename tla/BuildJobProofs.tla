---------------------------- MODULE BuildJobProofs ----------------------------
(***************************************************************************)
(* What BuildJob guarantees for any named contexts and any outputs.        *)
(***************************************************************************)
EXTENDS BuildJob, TLAPS

----------------------------------------------------------------------------
(* The invariant, in the order in which its parts rest on one another.     *)

\* What is left to collect are outputs.
OutputsLeft == at \in {"readMetadata", "outputs", "piping"} => left \subseteq opt.outputs

\* Before the Pod runs nothing is in it, and until buildctl ends it has no
\* result.
EmptyAtFirst ==
  /\ pod \in {"none", "pending"} => files = {} /\ status = "none"
  /\ script \in {"waitReady", "building"} => status = "none"

\* Uploads are counted down; the start marker is written when all are there.
UploadsCounted ==
  /\ at = "upload" => left # {} /\ left \subseteq Uploads /\ Uploads \ left \subseteq files
  /\ at = "signalReady" => Uploads \subseteq files
  /\ "ready" \in files => Uploads \subseteq files

\* "complete" says that buildctl has ended, and while the Pod runs the script
\* stays; "collected" is not there before the command has the results.
MarkersTrue ==
  /\ "complete" \in files => status # "none" /\ (Up => script = "held")
  /\ script = "held" => status # "none"
  /\ at \in {"readMetadata", "outputs", "piping"} => "complete" \in files
  /\ "collected" \in files => at \in {"waitJob", "joinLog", "write", "delete"} \cup Ends

\* The Job's status is its Pod's, which is that of buildctl.
StatusTrue ==
  /\ pod = "succeeded" => status = "ok"
  /\ job = "complete" => status = "ok"
  /\ job \in {"complete", "failed"} => pod \in Over

\* Up to the release of the script an error ends the normal course; from then
\* on no error means that the Job was seen complete.
CourseWell ==
  /\ at \in {"create", "waitPod", "upload", "signalReady", "waitResult", "readMetadata",
             "outputs", "piping", "waitJob", "write"} => err = "none"
  /\ at \in {"joinLog", "write", "delete"} /\ err = "none" => job = "complete"

\* The outputs still to come are those not on the client yet.
ResultsCounted ==
  /\ at \in {"readMetadata", "outputs", "piping"} => opt.outputs \ left \subseteq client
  /\ at \in {"signalCollected", "waitJob", "joinLog", "write", "delete"} /\ err = "none" =>
       opt.outputs \subseteq client
  /\ at = "delete" /\ err = "none" /\ opt.metadata => "metadata" \in client

BuildInv ==
  /\ BuildTypeOK /\ OutputsLeft /\ EmptyAtFirst /\ UploadsCounted /\ BuildSeesEverything
  /\ MarkersTrue /\ StatusTrue /\ CourseWell /\ ResultsCounted /\ SuccessIsReal
  /\ JobDeleted

----------------------------------------------------------------------------
(* Types; what is collected must be known to be an output.                 *)

TypeInv == BuildTypeOK /\ OutputsLeft

LEMMA TypeInit == BuildInit => TypeInv
  BY DEF BuildInit, TypeInv, OutputsLeft, BuildTypeOK, Options, CallSites, Ends, Errors

LEMMA UploadsKnown == BuildTypeOK => Uploads \subseteq Contents
  BY DEF Uploads, Contents

LEMMA TypeStep == TypeInv /\ [BuildNext]_vars => TypeInv'
<1> SUFFICES ASSUME TypeInv PROVE [BuildNext]_vars => TypeInv'
  OBVIOUS
<1> USE DEF TypeInv, BuildTypeOK, OutputsLeft, CallSites, Ends, Errors, podVars, cmdVars
<1>1. ASSUME CreateJob \/ WaitForPod PROVE TypeInv'
  BY <1>1, UploadsKnown DEF CreateJob, WaitForPod, Quits
<1>2. ASSUME Upload PROVE TypeInv'
  <2>1. files' \subseteq Contents /\ left' \subseteq Contents
    BY <1>2 DEF Upload, Uploaded
  <2> QED BY <1>2, <2>1 DEF Upload, Uploaded, Quits
<1>3. ASSUME SignalReady PROVE TypeInv'
  <2>1. files' \subseteq Contents
    BY <1>3 DEF SignalReady, Touched, Contents
  <2> QED BY <1>3, <2>1 DEF SignalReady, Quits
<1>4. ASSUME WaitForResult \/ ReadMetadata PROVE TypeInv'
  <2>1. left' \subseteq Contents
    BY <1>4 DEF WaitForResult, ReadMetadata, Options, Contents
  <2> QED BY <1>4, <2>1 DEF WaitForResult, ReadMetadata, Releases
<1>5. ASSUME CollectOutput PROVE TypeInv'
  <2>1. /\ client' \subseteq Outputs \cup {"metadata"}
        /\ left' \subseteq Contents /\ left' \subseteq opt.outputs
    BY <1>5 DEF CollectOutput, Options
  <2> QED BY <1>5, <2>1 DEF CollectOutput, Releases
<1>6. ASSUME PipeCut \/ WaitForJob \/ DeleteJob PROVE TypeInv'
  BY <1>6 DEF PipeCut, WaitForJob, DeleteJob, Releases
<1>7. ASSUME SignalCollected PROVE TypeInv'
  <2>1. files' \subseteq Contents
    BY <1>7 DEF SignalCollected, Touched, Contents
  <2> QED BY <1>7, <2>1 DEF SignalCollected
<1>8. ASSUME JoinLog \/ WriteResults PROVE TypeInv'
  BY <1>8 DEF JoinLog, WriteResults, Quits
<1>9. ASSUME FollowLog PROVE TypeInv'
  BY <1>9 DEF FollowLog
<1>10. ASSUME Deadline \/ Interrupt PROVE TypeInv'
  <2>1. ended' = TRUE /\ UNCHANGED <<opt, lossy, cmdVars, log, job, podVars>>
    BY <1>10 DEF Deadline, Interrupt
  <2> QED BY <2>1
<1>11. ASSUME Cluster PROVE TypeInv'
  <2> USE DEF Outside
  <2>1. CASE PodCreated \/ PodStarts
    BY <2>1 DEF PodCreated, PodStarts, Over
  <2>2. CASE ScriptBuilds \/ BuildWrites
    <3>1. files' \subseteq Contents
      BY <2>2 DEF ScriptBuilds, BuildWrites, Options, Contents
    <3> QED BY <2>2, <3>1 DEF ScriptBuilds, BuildWrites
  <2>3. CASE BuildEnds
    <3>1. files' \subseteq Contents
      BY <2>3 DEF BuildEnds, Options, Contents
    <3> QED BY <2>3, <3>1 DEF BuildEnds, Exits, Over
  <2>4. CASE ScriptReleased \/ PodKilled
    BY <2>4 DEF ScriptReleased, PodKilled, Exits, Over
  <2>5. CASE JobEnds \/ PodCollected
    BY <2>5 DEF JobEnds, PodCollected, Over
  <2> QED BY <1>11, <2>1, <2>2, <2>3, <2>4, <2>5 DEF Cluster
<1>12. ASSUME UNCHANGED vars PROVE TypeInv'
  BY <1>12 DEF vars
<1> QED BY <1>1, <1>2, <1>3, <1>4, <1>5, <1>6, <1>7, <1>8, <1>9, <1>10, <1>11, <1>12
        DEF BuildNext, Command

----------------------------------------------------------------------------
(* The Pod's files.                                                        *)

\* The steps that leave the Pod's files alone.
LEMMA FilesKept ==
  ASSUME [BuildNext]_vars, ~Upload, ~SignalReady, ~SignalCollected, ~ScriptBuilds,
         ~BuildWrites, ~BuildEnds
  PROVE  UNCHANGED files
  BY DEF BuildNext, Command, Cluster, vars, podVars, CreateJob, WaitForPod, WaitForResult,
     ReadMetadata, CollectOutput, PipeCut, WaitForJob, JoinLog, WriteResults, DeleteJob,
     FollowLog, Deadline, Interrupt, PodCreated, PodStarts, ScriptReleased, PodKilled, JobEnds,
     PodCollected

\* Only the command's own steps change what is the command's.
LEMMA CommandAlone == [BuildNext]_vars => Command \/ UNCHANGED cmdVars
  BY DEF BuildNext, Cluster, vars, cmdVars, Outside, FollowLog, Deadline, Interrupt, PodCreated,
     PodStarts, ScriptBuilds, BuildWrites, BuildEnds, ScriptReleased, PodKilled, JobEnds,
     PodCollected

\* Where the command may come from.
LEMMA CommandCourse ==
  ASSUME [BuildNext]_vars, at' # at
  PROVE  /\ at' \in {"readMetadata", "outputs", "piping"} =>
               at \in {"waitResult", "readMetadata", "outputs"}
         /\ at' = "waitJob" => at \in {"signalReady", "signalCollected"}
         /\ at \in {"waitJob", "joinLog", "write", "delete"} \cup Ends =>
               at' \in {"joinLog", "write", "delete"} \cup Ends
         /\ at \notin Ends
  BY CommandAlone DEF Command, cmdVars, Ends, CreateJob, WaitForPod, Upload, Uploaded, SignalReady,
     WaitForResult, ReadMetadata, CollectOutput, PipeCut, SignalCollected, WaitForJob, JoinLog,
     WriteResults, DeleteJob, Quits, Releases

\* A file goes only when the script takes the start marker.
LEMMA FilesStay ==
  ASSUME [BuildNext]_vars, NEW f \in files, f # "ready"
  PROVE  f \in files'
  BY FilesKept DEF Upload, SignalReady, SignalCollected, ScriptBuilds, BuildWrites, BuildEnds,
     Touched

\* Nothing comes into a Pod that does not run.
LEMMA FilesNeedPod ==
  ASSUME TypeInv, [BuildNext]_vars, ~Up
  PROVE  files' = files
<1>1. script = "off"
  BY DEF TypeInv, BuildTypeOK, Up
<1> QED BY <1>1, FilesKept DEF Upload, SignalReady, SignalCollected, ScriptBuilds, BuildWrites,
     BuildEnds, Touched

\* The flags, and whether anything may fail, are settled before.
LEMMA FlagsKept == [BuildNext]_vars => UNCHANGED <<opt, lossy>>
  BY DEF BuildNext, Command, Cluster, vars, Outside, CreateJob, WaitForPod, Upload, SignalReady,
     WaitForResult, ReadMetadata, CollectOutput, PipeCut, SignalCollected, WaitForJob, JoinLog,
     WriteResults, DeleteJob, FollowLog, Deadline, Interrupt, PodCreated, PodStarts, ScriptBuilds,
     BuildWrites, BuildEnds, ScriptReleased, PodKilled, JobEnds, PodCollected

\* The steps that leave the script where it is.
LEMMA ScriptKept ==
  ASSUME [BuildNext]_vars, ~Cluster
  PROVE  UNCHANGED <<pod, script, status>>
  BY DEF BuildNext, Command, vars, podVars, CreateJob, WaitForPod, Upload, SignalReady,
     WaitForResult, ReadMetadata, CollectOutput, PipeCut, SignalCollected, WaitForJob, JoinLog,
     WriteResults, DeleteJob, FollowLog, Deadline, Interrupt

\* A Pod goes on, and never starts again.
LEMMA PodGoesOn ==
  ASSUME TypeInv, [BuildNext]_vars
  PROVE  /\ pod' \in {"none", "pending"} => pod \in {"none", "pending"}
         /\ pod \in Over => pod' \in Over
         /\ pod' = "running" /\ pod # "running" => pod = "pending" /\ script' = "waitReady"
  BY DEF TypeInv, BuildTypeOK, Over, BuildNext, Command, Cluster, vars, podVars, Exits, CreateJob,
     WaitForPod, Upload, SignalReady, WaitForResult, ReadMetadata, CollectOutput, PipeCut,
     SignalCollected, WaitForJob, JoinLog, WriteResults, DeleteJob, FollowLog, Deadline,
     Interrupt, PodCreated, PodStarts, ScriptBuilds, BuildWrites, BuildEnds, ScriptReleased,
     PodKilled, JobEnds, PodCollected

LEMMA EmptyStep == TypeInv /\ EmptyAtFirst /\ [BuildNext]_vars => EmptyAtFirst'
<1> SUFFICES ASSUME TypeInv, EmptyAtFirst, [BuildNext]_vars PROVE EmptyAtFirst'
  OBVIOUS
<1>1. ASSUME pod' \in {"none", "pending"} PROVE files' = {}
  BY <1>1, PodGoesOn, FilesNeedPod DEF EmptyAtFirst, Up
<1>2. /\ pod' \in {"none", "pending"} => status' = "none"
      /\ script' \in {"waitReady", "building"} => status' = "none"
  <2>1. CASE Cluster
    BY <2>1 DEF Cluster, PodCreated, PodStarts, ScriptBuilds, BuildWrites, BuildEnds,
       ScriptReleased, PodKilled, JobEnds, PodCollected, Exits, podVars, TypeInv, BuildTypeOK,
       EmptyAtFirst
  <2>2. CASE ~Cluster
    BY <2>2, ScriptKept DEF EmptyAtFirst
  <2> QED BY <2>1, <2>2
<1> QED BY <1>1, <1>2 DEF EmptyAtFirst

\* buildctl ends once.
LEMMA StatusKept ==
  ASSUME TypeInv, EmptyAtFirst, [BuildNext]_vars, status # "none"
  PROVE  status' = status
<1>1. CASE Cluster
  BY <1>1 DEF Cluster, PodCreated, PodStarts, ScriptBuilds, BuildWrites, BuildEnds, ScriptReleased,
     PodKilled, JobEnds, PodCollected, podVars, EmptyAtFirst
<1> QED BY <1>1, ScriptKept

----------------------------------------------------------------------------
(* What the script finds.                                                  *)

LEMMA UploadsNotMarkers == \A f \in Uploads : f \notin {"ready", "complete", "collected", "metadata"}
  BY DistinctContents DEF Uploads

\* Uploads that are in the Pod stay there.
LEMMA UploadsStay ==
  ASSUME [BuildNext]_vars, NEW S \in SUBSET Uploads, S \subseteq files
  PROVE  S \subseteq files' /\ Uploads' = Uploads
<1>1. Uploads' = Uploads
  BY FlagsKept DEF Uploads
<1>2. ASSUME NEW f \in S PROVE f \in files'
  BY FilesStay, UploadsNotMarkers
<1> QED BY <1>1, <1>2

LEMMA UploadsCountedStep ==
  TypeInv /\ UploadsCounted /\ [BuildNext]_vars => UploadsCounted'
<1> SUFFICES ASSUME TypeInv, UploadsCounted, [BuildNext]_vars PROVE UploadsCounted'
  OBVIOUS
<1>0. Uploads' = Uploads
  BY FlagsKept DEF Uploads
<1>1. at' = "upload" =>
        left' # {} /\ left' \subseteq Uploads /\ Uploads \ left' \subseteq files'
  <2>1. CASE WaitForPod
    BY <2>1 DEF WaitForPod, Quits, Uploads
  <2>2. CASE Upload
    BY <2>2 DEF Upload, Uploaded, Quits, UploadsCounted
  <2>3. CASE ~WaitForPod /\ ~Upload /\ at' = "upload"
    <3>1. at = "upload" /\ left' = left
      BY <2>3, CommandAlone DEF Command, cmdVars, CreateJob, SignalReady, WaitForResult,
         ReadMetadata, CollectOutput, PipeCut, SignalCollected, WaitForJob, JoinLog, WriteResults,
         DeleteJob, Quits, Releases
    <3> QED BY <3>1, UploadsStay DEF UploadsCounted
  <2> QED BY <2>1, <2>2, <2>3
<1>2. at' = "signalReady" => Uploads \subseteq files'
  <2>1. CASE Upload
    BY <2>1 DEF Upload, Uploaded, Quits, UploadsCounted
  <2>2. CASE ~Upload /\ at' = "signalReady"
    <3>1. at = "signalReady"
      BY <2>2, CommandAlone DEF Command, cmdVars, CreateJob, WaitForPod, SignalReady,
         WaitForResult, ReadMetadata, CollectOutput, PipeCut, SignalCollected, WaitForJob, JoinLog,
         WriteResults, DeleteJob, Quits, Releases
    <3> QED BY <3>1, UploadsStay DEF UploadsCounted
  <2> QED BY <2>1, <2>2
<1>3. "ready" \in files' => Uploads \subseteq files'
  <2>1. CASE "ready" \in files
    BY <2>1, UploadsStay DEF UploadsCounted
  <2>2. CASE SignalReady
    BY <2>2, UploadsStay DEF SignalReady, UploadsCounted
  <2>3. CASE "ready" \notin files /\ ~SignalReady
    <3>1. "ready" \notin Uploads \cup Outputs
      BY DistinctContents, UploadsNotMarkers
    <3>2. opt.outputs \subseteq Outputs
      BY DEF TypeInv, BuildTypeOK, Options
    <3>3. Upload => "ready" \notin files'
      BY <2>3, <3>1 DEF Upload, UploadsCounted
    <3> QED BY <2>3, <3>1, <3>2, <3>3, FilesKept
            DEF SignalCollected, ScriptBuilds, BuildWrites, BuildEnds, Touched
  <2> QED BY <2>1, <2>2, <2>3
<1> QED BY <1>0, <1>1, <1>2, <1>3 DEF UploadsCounted

LEMMA SeesStep ==
  TypeInv /\ UploadsCounted /\ BuildSeesEverything /\ [BuildNext]_vars => BuildSeesEverything'
<1> SUFFICES ASSUME TypeInv, UploadsCounted, BuildSeesEverything, [BuildNext]_vars,
                    script' \in {"building", "held"}
             PROVE  Uploads \subseteq files /\ Uploads' = Uploads
  BY UploadsStay DEF BuildSeesEverything
<1>1. script \in {"building", "held"} \/ "ready" \in files
  BY DEF BuildNext, Command, Cluster, vars, podVars, CreateJob, WaitForPod, Upload, SignalReady,
     WaitForResult, ReadMetadata, CollectOutput, PipeCut, SignalCollected, WaitForJob, JoinLog,
     WriteResults, DeleteJob, FollowLog, Deadline, Interrupt, PodCreated, PodStarts, ScriptBuilds,
     BuildWrites, BuildEnds, ScriptReleased, PodKilled, JobEnds, PodCollected, Exits
<1> QED BY <1>1, FlagsKept DEF BuildSeesEverything, UploadsCounted, Uploads

LEMMA MarkersStep ==
  TypeInv /\ EmptyAtFirst /\ UploadsCounted /\ MarkersTrue /\ [BuildNext]_vars => MarkersTrue'
<1> SUFFICES ASSUME TypeInv, EmptyAtFirst, UploadsCounted, MarkersTrue, [BuildNext]_vars
             PROVE  MarkersTrue'
  OBVIOUS
<1>0. /\ {"complete", "collected"} \cap Uploads = {}
      /\ opt.outputs \subseteq Outputs /\ {"complete", "collected"} \cap Outputs = {}
  BY DistinctContents, UploadsNotMarkers DEF TypeInv, BuildTypeOK, Options
<1>1. /\ "complete" \in files' => status' # "none" /\ (Up' => script' = "held")
      /\ script' = "held" => status' # "none"
  <2>1. CASE Cluster
    BY <1>0, <2>1 DEF Cluster, PodCreated, PodStarts, ScriptBuilds, BuildWrites, BuildEnds,
       ScriptReleased, PodKilled, JobEnds, PodCollected, Exits, podVars, Up, TypeInv, BuildTypeOK,
       EmptyAtFirst, MarkersTrue
  <2>2. CASE ~Cluster
    <3>1. "complete" \in files' => "complete" \in files
      BY <1>0, <2>2, FilesKept DEF Upload, SignalReady, SignalCollected, Touched, UploadsCounted,
         Cluster
    <3> QED BY <2>2, <3>1, ScriptKept DEF MarkersTrue, Up
  <2> QED BY <2>1, <2>2
<1>2. at' \in {"readMetadata", "outputs", "piping"} => "complete" \in files'
  <2>1. CASE at \in {"readMetadata", "outputs", "piping"}
    BY <2>1, FilesStay DEF MarkersTrue
  <2>2. CASE at \notin {"readMetadata", "outputs", "piping"} /\ at' # at
    <3>1. at' \in {"readMetadata", "outputs", "piping"} => at = "waitResult" /\ WaitForResult
      BY <2>2, CommandCourse, CommandAlone DEF Command, cmdVars, CreateJob, WaitForPod, Upload,
         SignalReady, ReadMetadata, CollectOutput, PipeCut, SignalCollected, WaitForJob, JoinLog,
         WriteResults, DeleteJob
    <3>2. WaitForResult /\ at' # "signalCollected" => "complete" \in files
      BY DEF WaitForResult, Releases
    <3> QED BY <3>1, <3>2, FilesStay
  <2> QED BY <2>1, <2>2
<1>3. "collected" \in files' => at' \in {"waitJob", "joinLog", "write", "delete"} \cup Ends
  <2>1. CASE "collected" \in files
    BY <2>1, CommandCourse DEF MarkersTrue
  <2>2. CASE SignalCollected
    BY <2>2 DEF SignalCollected
  <2>3. CASE "collected" \notin files /\ ~SignalCollected
    BY <1>0, <2>3, FilesKept DEF Upload, SignalReady, ScriptBuilds, BuildWrites, BuildEnds, Touched,
       UploadsCounted
  <2> QED BY <2>1, <2>2, <2>3
<1> QED BY <1>1, <1>2, <1>3 DEF MarkersTrue

----------------------------------------------------------------------------
(* What the command reports.                                               *)

LEMMA StatusStep == TypeInv /\ MarkersTrue /\ StatusTrue /\ [BuildNext]_vars => StatusTrue'
<1> SUFFICES ASSUME TypeInv, MarkersTrue, StatusTrue, [BuildNext]_vars PROVE StatusTrue'
  OBVIOUS
<1>1. CASE Cluster
  BY <1>1 DEF Cluster, PodCreated, PodStarts, ScriptBuilds, BuildWrites, BuildEnds, ScriptReleased,
     PodKilled, JobEnds, PodCollected, Exits, podVars, Over, TypeInv, BuildTypeOK, MarkersTrue,
     StatusTrue
<1>2. CASE ~Cluster
  <2>1. job' = job \/ job' \in {"none", "active", "deleted"}
    BY <1>2 DEF BuildNext, Command, vars, CreateJob, WaitForPod, Upload, SignalReady,
       WaitForResult, ReadMetadata, CollectOutput, PipeCut, SignalCollected, WaitForJob, JoinLog,
       WriteResults, DeleteJob, FollowLog, Deadline, Interrupt
  <2> QED BY <1>2, <2>1, ScriptKept DEF StatusTrue
<1> QED BY <1>1, <1>2

\* Only the command deletes the Job.
LEMMA JobStays ==
  ASSUME [BuildNext]_vars
  PROVE  /\ job = "complete" /\ at # "create" => job' = "complete" \/ DeleteJob
         /\ job = "deleted" /\ at # "create" => job' = "deleted"
  BY DEF BuildNext, Command, Cluster, vars, Outside, CreateJob, WaitForPod, Upload, SignalReady,
     WaitForResult, ReadMetadata, CollectOutput, PipeCut, SignalCollected, WaitForJob, JoinLog,
     WriteResults, DeleteJob, FollowLog, Deadline, Interrupt, PodCreated, PodStarts, ScriptBuilds,
     BuildWrites, BuildEnds, ScriptReleased, PodKilled, JobEnds, PodCollected

LEMMA CourseStep == TypeInv /\ CourseWell /\ [BuildNext]_vars => CourseWell'
<1> SUFFICES ASSUME TypeInv, CourseWell, [BuildNext]_vars PROVE CourseWell'
  OBVIOUS
<1>1. CASE UNCHANGED cmdVars
  BY <1>1, JobStays DEF cmdVars, CourseWell, DeleteJob
<1>2. CASE CreateJob \/ WaitForPod \/ Upload \/ SignalReady
  BY <1>2 DEF CreateJob, WaitForPod, Upload, Uploaded, SignalReady, Quits, CourseWell
<1>3. CASE WaitForResult \/ ReadMetadata \/ CollectOutput \/ PipeCut
  BY <1>3 DEF WaitForResult, ReadMetadata, CollectOutput, PipeCut, Releases, CourseWell
<1>4. CASE SignalCollected \/ WaitForJob
  BY <1>4 DEF SignalCollected, WaitForJob, CourseWell
<1>5. CASE JoinLog \/ WriteResults \/ DeleteJob
  BY <1>5 DEF JoinLog, WriteResults, DeleteJob, Quits, CourseWell
<1> QED BY <1>1, <1>2, <1>3, <1>4, <1>5, CommandAlone DEF Command

LEMMA ResultsStep ==
  TypeInv /\ CourseWell /\ ResultsCounted /\ [BuildNext]_vars => ResultsCounted'
<1> SUFFICES ASSUME TypeInv, CourseWell, ResultsCounted, [BuildNext]_vars PROVE ResultsCounted'
  OBVIOUS
<1>0. opt' = opt
  BY FlagsKept
<1>1. CASE UNCHANGED cmdVars
  BY <1>0, <1>1 DEF cmdVars, ResultsCounted
<1>2. CASE CreateJob \/ WaitForPod \/ Upload
  BY <1>2 DEF CreateJob, WaitForPod, Upload, Uploaded, Quits, ResultsCounted
<1>3. CASE SignalReady
  BY <1>0, <1>3 DEF SignalReady, Quits, Collects, ResultsCounted
<1>4. CASE WaitForResult
  BY <1>0, <1>4 DEF WaitForResult, Releases, ResultsCounted
<1>5. CASE ReadMetadata
  BY <1>0, <1>5 DEF ReadMetadata, Releases, ResultsCounted
<1>6. CASE CollectOutput
  BY <1>0, <1>6 DEF CollectOutput, Releases, ResultsCounted
<1>7. CASE PipeCut \/ WaitForJob \/ DeleteJob
  BY <1>0, <1>7 DEF PipeCut, WaitForJob, DeleteJob, Releases, ResultsCounted
<1>8. CASE SignalCollected
  BY <1>0, <1>8 DEF SignalCollected, ResultsCounted
<1>9. CASE JoinLog
  BY <1>0, <1>9 DEF JoinLog, Quits, ResultsCounted, CourseWell
<1>10. CASE WriteResults
  BY <1>0, <1>10 DEF WriteResults, Quits, ResultsCounted, CourseWell
<1> QED BY <1>1, <1>2, <1>3, <1>4, <1>5, <1>6, <1>7, <1>8, <1>9, <1>10, CommandAlone DEF Command

LEMMA SuccessStep ==
  TypeInv /\ EmptyAtFirst /\ StatusTrue /\ CourseWell /\ ResultsCounted /\ SuccessIsReal
    /\ [BuildNext]_vars => SuccessIsReal'
<1> SUFFICES ASSUME TypeInv, EmptyAtFirst, StatusTrue, CourseWell, ResultsCounted, SuccessIsReal,
                    [BuildNext]_vars, at' \in Ends, err' = "none"
             PROVE  /\ status' = "ok" /\ job' \in {"complete", "deleted"}
                    /\ opt'.outputs \cup (IF opt'.metadata THEN {"metadata"} ELSE {}) \subseteq client'
  BY DEF SuccessIsReal
<1>0. opt' = opt
  BY FlagsKept
<1>1. CASE at \in Ends
  <2>1. UNCHANGED cmdVars
    BY <1>1, CommandAlone DEF Command, Ends, CreateJob, WaitForPod, Upload, SignalReady,
       WaitForResult, ReadMetadata, CollectOutput, PipeCut, SignalCollected, WaitForJob, JoinLog,
       WriteResults, DeleteJob
  <2>2. status = "ok" /\ job \in {"complete", "deleted"}
    BY <1>1, <2>1 DEF SuccessIsReal, cmdVars
  <2>3. status' = "ok"
    BY <2>2, StatusKept
  <2> QED BY <1>0, <1>1, <2>1, <2>2, <2>3, JobStays DEF SuccessIsReal, cmdVars, Ends, DeleteJob
<1>2. CASE at \notin Ends
  <2>1. WriteResults \/ DeleteJob
    BY <1>2, CommandAlone DEF Command, cmdVars, Ends, CreateJob, WaitForPod, Upload, Uploaded,
       SignalReady, WaitForResult, ReadMetadata, CollectOutput, PipeCut, SignalCollected,
       WaitForJob, JoinLog, Quits, Releases
  <2> QED BY <1>0, <2>1 DEF WriteResults, DeleteJob, Quits, StatusTrue, CourseWell, ResultsCounted,
          podVars
<1> QED BY <1>1, <1>2

LEMMA DeletedStep == JobDeleted /\ [BuildNext]_vars => JobDeleted'
<1> SUFFICES ASSUME JobDeleted, [BuildNext]_vars, at' = "returned", ~opt'.keep, err' # "create"
             PROVE  job' = "deleted"
  BY DEF JobDeleted
<1>0. opt' = opt
  BY FlagsKept
<1>1. CASE UNCHANGED cmdVars
  BY <1>0, <1>1, JobStays DEF JobDeleted, cmdVars
<1>2. CASE Command
  BY <1>0, <1>2 DEF Command, CreateJob, WaitForPod, Upload, Uploaded, SignalReady, WaitForResult,
     ReadMetadata, CollectOutput, PipeCut, SignalCollected, WaitForJob, JoinLog, WriteResults,
     DeleteJob, Quits, Releases
<1> QED BY <1>1, <1>2, CommandAlone

----------------------------------------------------------------------------
(* The theorems.                                                           *)

LEMMA BuildInvCorrect == BuildSpec => []BuildInv
<1>1. BuildInit => BuildInv
  BY TypeInit DEF BuildInit, BuildInv, TypeInv, EmptyAtFirst, UploadsCounted, BuildSeesEverything,
     MarkersTrue, StatusTrue, CourseWell, ResultsCounted, SuccessIsReal, JobDeleted, Ends
<1>2. BuildInv /\ [BuildNext]_vars => BuildInv'
  BY TypeStep, EmptyStep, UploadsCountedStep, SeesStep, MarkersStep, StatusStep, CourseStep,
     ResultsStep, SuccessStep, DeletedStep DEF BuildInv, TypeInv
<1> QED BY <1>1, <1>2, PTL DEF BuildSpec

\* Every reachable state is well typed, and a script runs only in a running
\* Pod (build.go:1354-1510).
THEOREM BuildTypeCorrect == BuildSpec => []BuildTypeOK
<1>1. BuildInv => BuildTypeOK
  BY DEF BuildInv
<1> QED BY <1>1, BuildInvCorrect, PTL

\* With any outputs and contexts, a build that reports success succeeded, its
\* Job says so, and all results asked for are on the client
\* (build.go:1446-1501).
THEOREM SuccessReal == BuildSpec => []SuccessIsReal
<1>1. BuildInv => SuccessIsReal
  BY DEF BuildInv
<1> QED BY <1>1, BuildInvCorrect, PTL

\* With any number of named contexts, buildctl does not start before every
\* upload is in the Pod (build.go:1421-1437, 1516-1518).
THEOREM SeesEverything == BuildSpec => []BuildSeesEverything
<1>1. BuildInv => BuildSeesEverything
  BY DEF BuildInv
<1> QED BY <1>1, BuildInvCorrect, PTL

\* On every way out the Job is deleted, unless it was to be kept, was never
\* seen created, or the one Delete failed (build.go:1409-1414).
THEOREM JobsDeleted == BuildSpec => []JobDeleted
<1>1. BuildInv => JobDeleted
  BY DEF BuildInv
<1> QED BY <1>1, BuildInvCorrect, PTL

\* Whatever fails, results are read only while the script that has written
\* them stays in its Pod, after buildctl has ended (build.go:1446-1464,
\* 1528-1534).
THEOREM ResultsReadWhileHeld == BuildSpec => ReadWhileHeld
<1>1. ASSUME BuildInv, [BuildNext]_vars,
             client' \cap Outputs # client \cap Outputs \/ (at = "readMetadata" /\ at' = "outputs")
      PROVE  script = "held" /\ status # "none"
  <2>1. "metadata" \notin Outputs
    BY DistinctContents
  <2>2. Up /\ at \in {"readMetadata", "outputs"}
    BY <1>1, <2>1, CommandAlone DEF Command, cmdVars, CreateJob, WaitForPod, Upload, SignalReady,
       WaitForResult, ReadMetadata, CollectOutput, PipeCut, SignalCollected, WaitForJob, JoinLog,
       WriteResults, DeleteJob, Releases
  <2> QED BY <1>1, <2>2 DEF BuildInv, MarkersTrue
<1>2. BuildInv /\ [BuildNext]_vars =>
        [client' \cap Outputs # client \cap Outputs \/ (at = "readMetadata" /\ at' = "outputs")
           => script = "held" /\ status # "none"]_vars
  BY <1>1
<1> QED BY <1>2, BuildInvCorrect, PTL DEF BuildSpec, ReadWhileHeld
=============================================================================
