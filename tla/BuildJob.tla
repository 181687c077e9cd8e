------------------------------- MODULE BuildJob -------------------------------
(***************************************************************************)
(* docker build, from the creation of the BuildKit Job to its deletion:    *)
(* runBuild of src/internal/cli/build.go, the shell script it runs in the  *)
(* Job's Pod (buildCommandScript), the goroutine that follows the log, and *)
(* the Job controller and kubelet as the command sees them.                *)
(*                                                                         *)
(* Command and script meet through marker files in the Pod: the script     *)
(* waits for "ready" before it builds; when results are to be fetched it   *)
(* then publishes "complete" and stays until it finds "collected".  What   *)
(* comes before, and the temporary files behind it, is in BuildContexts.   *)
(***************************************************************************)
EXTENDS Naturals, FiniteSets

CONSTANTS
  NamedContexts,  \* the --build-context flags
  Outputs,        \* the --output flags with a destination on the client
  Directories     \* those of type local, extracted on the client

VARIABLES
  opt,      \* the flags of this build
  lossy,    \* whether calls and local writes may fail and Pods be killed
  ended,    \* waitCtx is done: the deadline has passed, or a signal has come
  at,       \* the call the command is about to make, or how it ended
  err,      \* the error kept so far, and at the end the one returned
  left,     \* uploads or outputs still to come
  log,      \* the goroutine that follows the log
  client,   \* results written on the client
  job, pod, \* the Job, and its Pod, as the server reports them
  script,   \* where the script in the Pod is
  files,    \* what lies in the Pod's volumes
  status    \* how buildctl ended

cmdVars  == <<at, err, left, client>>
podVars  == <<pod, script, files, status>>
vars == <<opt, lossy, ended, at, err, left, log, client, job, pod, script, files, status>>

Options == [metadata : BOOLEAN, outputs : SUBSET Outputs, secrets : BOOLEAN,
            keep : BOOLEAN, deadline : BOOLEAN]
Uploads  == {"context"} \cup NamedContexts \cup IF opt.secrets THEN {"secrets"} ELSE {}
Contents == {"context", "secrets", "ready", "complete", "collected", "metadata"}
            \cup NamedContexts \cup Outputs
Collects == opt.metadata \/ opt.outputs # {}

ASSUME DistinctContents ==
  /\ IsFiniteSet(NamedContexts) /\ IsFiniteSet(Outputs) /\ Directories \subseteq Outputs
  /\ NamedContexts \cap Outputs = {}
  /\ {"context", "secrets", "ready", "complete", "collected", "metadata"}
       \cap (NamedContexts \cup Outputs) = {}

CallSites == {"create", "waitPod", "upload", "signalReady", "waitResult", "readMetadata",
              "outputs", "piping", "signalCollected", "waitJob", "joinLog", "write", "delete"}
Ends   == {"returned", "leftJob"}
Errors == {"none", "create", "start", "result", "call", "job", "log", "write"}
Over   == {"succeeded", "failed", "gone"}

BuildTypeOK ==
  /\ opt \in Options /\ lossy \in BOOLEAN /\ ended \in BOOLEAN
  /\ at \in CallSites \cup Ends /\ err \in Errors
  /\ left \subseteq Contents /\ client \subseteq Outputs \cup {"metadata"}
  /\ log \in {"off", "following", "eof", "broken"}
  /\ job \in {"none", "active", "complete", "failed", "deleted"}
  /\ pod \in {"none", "pending", "running"} \cup Over
  /\ script \in {"off", "waitReady", "building", "held"}
  /\ files \subseteq Contents /\ status \in {"none", "ok", "failed"}
  /\ script # "off" => pod = "running"

BuildInit ==
  /\ opt \in Options /\ lossy \in BOOLEAN /\ ended = FALSE
  /\ at = "create" /\ err = "none" /\ left = {} /\ client = {}
  /\ log = "off" /\ job = "none" /\ pod = "none"
  /\ script = "off" /\ files = {} /\ status = "none"

\* A call fails when the network fails it, or when waitCtx cuts it short.
MayFail == lossy \/ ended
\* An exec reaches the Pod; when it fails it may have had its effect.
Up == pod = "running"
Touched(f) == {files} \cup IF Up THEN {files \cup {f}} ELSE {}

\* Mutant of Quits: the Job of a failed build is left for inspection.
QuitsLeaving(e) == err' = e /\ at' = IF opt.keep \/ e # "none" THEN "returned" ELSE "delete"

\* runBuild returns e: the deferred Delete is still to come, unless the Job
\* is to be kept.
Quits(e) == err' = e /\ at' = IF opt.keep THEN "returned" ELSE "delete"

----------------------------------------------------------------------------
(* The command.                                                            *)

\* The Delete is deferred only after a Create that was answered well.
CreateJob ==
  /\ at = "create"
  /\ \/ ~ended /\ job' = "active" /\ at' = "waitPod" /\ UNCHANGED err
     \/ MayFail /\ job' \in {"none", "active"} /\ at' = "returned" /\ err' = "create"
  /\ UNCHANGED <<opt, lossy, ended, left, log, client, podVars>>

\* waitForBuildPod: a Warning event or a Pod that cannot start is final too.
WaitForPod ==
  /\ at = "waitPod"
  /\ \/ Up /\ ~ended /\ at' = "upload" /\ left' = Uploads /\ UNCHANGED err
     \/ (MayFail \/ ~Up) /\ Quits("start") /\ UNCHANGED left
  /\ UNCHANGED <<opt, lossy, ended, log, client, job, podVars>>

\* The last upload leads on to the start signal.
Uploaded(x) ==
  /\ left' = left \ {x}
  /\ at' = IF left = {x} THEN "signalReady" ELSE "upload"
  /\ UNCHANGED err

\* Mutant of Upload: a failed upload of a named context is passed over.
UploadAnyway ==
  /\ at = "upload"
  /\ \/ \E x \in left : Up /\ ~ended /\ files' = files \cup {x} /\ Uploaded(x)
     \/ MayFail /\ UNCHANGED files /\ \E x \in left : Uploaded(x)
     \/ (MayFail \/ ~Up) /\ Quits("start") /\ UNCHANGED <<files, left>>
  /\ UNCHANGED <<opt, lossy, ended, log, client, job, pod, script, status>>

\* The main context first, then the named ones, then secrets and SSH keys.
Upload ==
  /\ at = "upload"
  /\ \/ \E x \in left :
          /\ x \in NamedContexts => "context" \notin left
          /\ x = "secrets" => left = {"secrets"}
          /\ Up /\ ~ended
          /\ files' = files \cup {x}
          /\ Uploaded(x)
     \/ (MayFail \/ ~Up) /\ Quits("start") /\ UNCHANGED <<files, left>>
  /\ UNCHANGED <<opt, lossy, ended, log, client, job, pod, script, status>>

\* signalBuildReady; the goroutine starts once it has succeeded.
SignalReady ==
  /\ at = "signalReady"
  /\ \/ /\ Up /\ ~ended
        /\ files' = files \cup {"ready"}
        /\ log' = "following"
        /\ at' = IF Collects THEN "waitResult" ELSE "waitJob"
        /\ UNCHANGED err
     \/ (MayFail \/ ~Up) /\ files' \in Touched("ready") /\ Quits("start") /\ UNCHANGED log
  /\ UNCHANGED <<opt, lossy, ended, left, client, job, pod, script, status>>

\* Fetching the results fails: the script is released all the same.
Releases(e) == err' = e /\ at' = "signalCollected"

\* Mutant of WaitForResult: the results are fetched as soon as the Pod answers.
WaitForNoResult ==
  /\ at = "waitResult"
  /\ \/ /\ Up /\ ~ended
        /\ at' = IF opt.metadata THEN "readMetadata" ELSE "outputs"
        /\ left' = opt.outputs
        /\ UNCHANGED err
     \/ (MayFail \/ pod \in Over) /\ Releases("result") /\ UNCHANGED left
  /\ UNCHANGED <<opt, lossy, ended, log, client, job, podVars>>

\* waitForBuildResult: "complete" is there, or the Pod is over.
WaitForResult ==
  /\ at = "waitResult"
  /\ \/ /\ Up /\ ~ended /\ "complete" \in files
        /\ at' = IF opt.metadata THEN "readMetadata" ELSE "outputs"
        /\ left' = opt.outputs
        /\ UNCHANGED err
     \/ (MayFail \/ pod \in Over) /\ Releases("result") /\ UNCHANGED left
  /\ UNCHANGED <<opt, lossy, ended, log, client, job, podVars>>

\* Mutant of ReadMetadata: an error leaves the script unreleased.
ReadMetadataOrQuit ==
  /\ at = "readMetadata"
  /\ \/ Up /\ ~ended /\ "metadata" \in files /\ at' = "outputs" /\ UNCHANGED err
     \/ (MayFail \/ ~Up \/ "metadata" \notin files) /\ err' = "result" /\ at' = "joinLog"
  /\ UNCHANGED <<opt, lossy, ended, left, log, client, job, podVars>>

ReadMetadata ==
  /\ at = "readMetadata"
  /\ \/ Up /\ ~ended /\ "metadata" \in files /\ at' = "outputs" /\ UNCHANGED err
     \/ (MayFail \/ ~Up \/ "metadata" \notin files) /\ Releases("result")
  /\ UNCHANGED <<opt, lossy, ended, left, log, client, job, podVars>>

\* collectBuildOutput, for each output: fetched to a temporary name first.  A
\* directory's destination may exist, or its archive hold what is rejected.
\* When extraction stops, for that or at the end of the archive, before it
\* has read all of the stream, the exec is left writing to a pipe.
CollectOutput ==
  /\ at = "outputs"
  /\ \/ left = {} /\ at' = "signalCollected" /\ UNCHANGED <<left, client, err>>
     \/ \E o \in left :
          \/ /\ Up /\ ~ended /\ o \in files
             /\ client' = client \cup {o} /\ left' = left \ {o}
             /\ UNCHANGED <<at, err>>
          \/ /\ MayFail \/ ~Up \/ o \notin files \/ o \in Directories
             /\ Releases("result") /\ UNCHANGED <<left, client>>
          \/ /\ Up /\ ~ended /\ o \in files \cap Directories
             /\ at' = "piping" /\ UNCHANGED <<left, client, err>>
  /\ UNCHANGED <<opt, lossy, ended, log, job, podVars>>

\* Nobody reads the pipe any more: the exec returns only with waitCtx.
PipeCut ==
  /\ at = "piping" /\ ended
  /\ Releases("result")
  /\ UNCHANGED <<opt, lossy, ended, left, log, client, job, podVars>>

\* Mutant of SignalCollected: a build whose results are there is over.
SignalCollectedDone ==
  /\ at = "signalCollected"
  /\ \/ Up /\ ~ended /\ files' = files \cup {"collected"} /\ UNCHANGED err
     \/ /\ MayFail \/ ~Up
        /\ files' \in Touched("collected")
        /\ err' = IF err = "none" THEN "call" ELSE err
  /\ at' = "joinLog"
  /\ UNCHANGED <<opt, lossy, ended, left, log, client, job, pod, script, status>>

\* signalBuildResultCollected, with waitCtx too; an earlier error stands.
SignalCollected ==
  /\ at = "signalCollected"
  /\ \/ Up /\ ~ended /\ files' = files \cup {"collected"} /\ UNCHANGED err
     \/ /\ MayFail \/ ~Up
        /\ files' \in Touched("collected")
        /\ err' = IF err = "none" THEN "call" ELSE err
  /\ at' = IF err' = "none" THEN "waitJob" ELSE "joinLog"
  /\ UNCHANGED <<opt, lossy, ended, left, log, client, job, pod, script, status>>

\* waitForBuild
WaitForJob ==
  /\ at = "waitJob"
  /\ \/ ~ended /\ job = "complete" /\ UNCHANGED err
     \/ ~ended /\ job = "failed" /\ err' = "job"
     \/ MayFail /\ err' = "call"
  /\ at' = "joinLog"
  /\ UNCHANGED <<opt, lossy, ended, left, log, client, job, podVars>>

\* Mutant of JoinLog: the log's own result is returned.
JoinLogRaw ==
  /\ at = "joinLog" /\ log \in {"eof", "broken"}
  /\ \/ err # "none" /\ Quits(err)
     \/ err = "none" /\ log = "broken" /\ Quits(log)
     \/ err = "none" /\ log = "eof" /\ at' = "write" /\ UNCHANGED err
  /\ UNCHANGED <<opt, lossy, ended, left, log, client, job, podVars>>

\* Receive from logResult; finalBuildError prefers the build's error.
JoinLog ==
  /\ at = "joinLog" /\ log \in {"eof", "broken"}
  /\ \/ err # "none" /\ Quits(err)
     \/ err = "none" /\ log = "broken" /\ Quits("log")
     \/ err = "none" /\ log = "eof" /\ at' = "write" /\ UNCHANGED err
  /\ UNCHANGED <<opt, lossy, ended, left, log, client, job, podVars>>

\* The metadata file and the image ID, which the metadata may lack.
WriteResults ==
  /\ at = "write"
  /\ \/ /\ client' = IF opt.metadata THEN client \cup {"metadata"} ELSE client
        /\ Quits("none")
     \/ opt.metadata /\ Quits("write") /\ client' \in {client, client \cup {"metadata"}}
  /\ UNCHANGED <<opt, lossy, ended, left, log, job, podVars>>

\* The deferred Delete, not bound to waitCtx; its error is dropped.
DeleteJob ==
  /\ at = "delete"
  /\ \/ job' = "deleted" /\ at' = "returned"
     \/ lossy /\ at' = "leftJob" /\ UNCHANGED job
  /\ UNCHANGED <<opt, lossy, ended, err, left, log, client, podVars>>

Command ==
  \/ CreateJob \/ WaitForPod \/ Upload \/ SignalReady
  \/ WaitForResult \/ ReadMetadata \/ CollectOutput \/ PipeCut \/ SignalCollected
  \/ WaitForJob \/ JoinLog \/ WriteResults \/ DeleteJob

\* Mutant of FollowLog: the goroutine does not look at waitCtx.
FollowLogOn ==
  /\ log = "following"
  /\ \/ pod \in Over /\ log' = "eof"
     \/ lossy /\ log' = "broken"
  /\ UNCHANGED <<opt, lossy, ended, cmdVars, job, podVars>>

\* streamBuildLogs: ends with the container, or with waitCtx.
FollowLog ==
  /\ log = "following"
  /\ \/ pod \in Over /\ log' = "eof"
     \/ MayFail /\ log' = "broken"
  /\ UNCHANGED <<opt, lossy, ended, cmdVars, job, podVars>>

\* The deadline, if there is one, counts from the Create on.
Deadline ==
  /\ opt.deadline /\ at \notin {"create"} \cup Ends /\ ~ended
  /\ ended' = TRUE
  /\ UNCHANGED <<opt, lossy, cmdVars, log, job, podVars>>

\* SIGINT or SIGTERM.
Interrupt ==
  /\ at \notin Ends /\ ~ended
  /\ ended' = TRUE
  /\ UNCHANGED <<opt, lossy, cmdVars, log, job, podVars>>

----------------------------------------------------------------------------
(* The Pod and its script.                                                 *)

Outside == <<opt, lossy, ended, cmdVars, log>>

PodCreated ==
  /\ job = "active" /\ pod = "none" /\ pod' = "pending"
  /\ UNCHANGED <<Outside, job, script, files, status>>

PodStarts ==
  /\ pod = "pending" /\ pod' = "running" /\ script' = "waitReady"
  /\ UNCHANGED <<Outside, job, files, status>>

ScriptBuilds ==
  /\ script = "waitReady" /\ "ready" \in files
  /\ script' = "building"
  /\ files' = files \ {"ready"}
  /\ UNCHANGED <<Outside, job, pod, status>>

\* The script, and with it the container, exits as buildctl did.
Exits(s) == script' = "off" /\ pod' = IF s = "ok" THEN "succeeded" ELSE "failed"

\* buildctl writes an output piece by piece.
BuildWrites ==
  /\ script = "building"
  /\ \E o \in opt.outputs \ files : files' = files \cup {o}
  /\ UNCHANGED <<Outside, job, pod, script, status>>

\* A failed build has no metadata, but leaves what it has written.
BuildEnds ==
  /\ script = "building"
  /\ status' \in {"ok", "failed"}
  /\ \/ ~Collects /\ Exits(status') /\ UNCHANGED files
     \/ /\ Collects
        /\ script' = "held" /\ UNCHANGED pod
        /\ files' = files \cup {"complete"} \cup
             IF status' = "ok" THEN opt.outputs \cup (IF opt.metadata THEN {"metadata"} ELSE {})
                               ELSE {}
  /\ UNCHANGED <<Outside, job>>

ScriptReleased ==
  /\ script = "held" /\ "collected" \in files
  /\ Exits(status)
  /\ UNCHANGED <<Outside, job, files, status>>

\* Eviction, memory limit, loss of the node.
PodKilled ==
  /\ lossy /\ pod \in {"pending", "running"}
  /\ pod' = "failed" /\ script' = "off"
  /\ UNCHANGED <<Outside, job, files, status>>

\* backoffLimit 0: the Job ends as its Pod did.
JobEnds ==
  /\ job = "active" /\ pod \in {"succeeded", "failed"}
  /\ job' = IF pod = "succeeded" THEN "complete" ELSE "failed"
  /\ UNCHANGED <<Outside, podVars>>

\* Background propagation of the Job's deletion.
PodCollected ==
  /\ job = "deleted" /\ pod \notin {"none", "gone"}
  /\ pod' = "gone" /\ script' = "off"
  /\ UNCHANGED <<Outside, job, files, status>>

Cluster == PodCreated \/ PodStarts \/ ScriptBuilds \/ BuildWrites \/ BuildEnds
           \/ ScriptReleased \/ PodKilled \/ JobEnds \/ PodCollected

BuildNext == Command \/ FollowLog \/ Deadline \/ Interrupt \/ Cluster

BuildSpec == BuildInit /\ [][BuildNext]_vars

----------------------------------------------------------------------------
(* Properties.                                                             *)

\* When the command reports success the build succeeded, the Job says so, and
\* every requested result is on the client, whatever failed on the way
\* from the script to the client (build.go:1446-1501).
SuccessIsReal ==
  at \in Ends /\ err = "none" =>
    /\ status = "ok" /\ job \in {"complete", "deleted"}
    /\ opt.outputs \cup (IF opt.metadata THEN {"metadata"} ELSE {}) \subseteq client

\* The script does not start buildctl before all it needs is in the Pod,
\* although the marker it waits for can arrive without the command knowing
\* (build.go:1421-1437, 1516-1518).
BuildSeesEverything ==
  script \in {"building", "held"} => Uploads \subseteq files

\* Results are fetched from a build that has ended and whose script stays
\* until the command has them (build.go:1446-1464, 1528-1534).
ReadWhileHeld ==
  [][client' \cap Outputs # client \cap Outputs \/ (at = "readMetadata" /\ at' = "outputs")
       => script = "held" /\ status # "none"]_vars

\* A Job that the command saw created and is not to keep is deleted on every
\* way out, unless the one Delete fails (build.go:1409-1414).
JobDeleted ==
  at = "returned" /\ ~opt.keep /\ err # "create" => job = "deleted"

----------------------------------------------------------------------------
(* The command and its goroutine are scheduled, and a deadline passes; the *)
(* Pod's container, the Job controller and the script do go on, but        *)
(* buildctl need not end.                                                  *)
BuildFairness ==
  /\ WF_vars(Command) /\ WF_vars(FollowLog) /\ WF_vars(Deadline)
  /\ WF_vars(ScriptReleased \/ JobEnds)

BuildFairSpec == BuildSpec /\ BuildFairness

\* A build with a deadline returns, whatever the cluster does or fails to do
\* (build.go:1419, 1465-1471, 1554-1559).
DeadlineHolds == opt.deadline => <>(at \in Ends)

\* In a cluster that answers, the command returns once buildctl has ended:
\* command, script and log do not wait for one another in a circle, also
\* when the results are not there; but it may be left with the pipe of a
\* directory (build.go:1446-1474, 1528-1534, 1942-1951).
BuildAnswered ==
  status # "none" /\ ~lossy ~> at \in Ends \/ at = "piping"

\* A directory that is not extracted to its end, a rejected one among others,
\* ends the build, as a failed output does.
RejectedOutputEnds == at = "piping" ~> at \in Ends
=============================================================================
