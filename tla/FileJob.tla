------------------------------- MODULE FileJob -------------------------------
(***************************************************************************)
(* A resumable download to a file: internal/job/runner.go                  *)
(* (downloadParallelFile and the resume step of runOneJob), the positional *)
(* file sink of internal/sink/file.go and the sidecar manager of           *)
(* internal/sidecar/sidecar.go, under the worker pool of runWorkers.       *)
(*                                                                         *)
(* The process may be killed at any moment, and pget is run again on what  *)
(* is left on disk: the chunks of the destination, of which some are       *)
(* synchronized, and the sidecar, which a rename replaces atomically.      *)
(***************************************************************************)
EXTENDS WorkerPool

CONSTANTS
    NetworkFails,   \* requests may fail without an interrupt
    DiskFails,      \* writes, renames, syncs and removals may fail
    MaxRuns         \* how often pget is run: a bound of the model

ASSUME FileJobAssumption ==
    /\ ~StreamMode
    /\ ResumeSets = (SUBSET Chunks) \ {Chunks}
    /\ NetworkFails \in BOOLEAN /\ DiskFails \in BOOLEAN
    /\ MaxRuns \in Nat \ {0}

VARIABLES
    written,        \* chunks whose bytes are in the destination file
    durable,        \* those of them that a Sync has covered
    sidecarExists,
    sidecarBits,    \* CompletedBitmap of the sidecar on disk
    bitmap,         \* CompletedBitmap of the sidecar manager in memory
    io,             \* how far WriteChunk of each worker is
    resumed,        \* completedChunks, read from the sidecar by this run
    phase,          \* where downloadParallelFile is
    jobExit,        \* its exit code
    runs            \* runs of pget begun

diskVars == <<written, durable, sidecarExists, sidecarBits>>
jobVars  == <<bitmap, io, resumed, phase, jobExit, runs>>
fileVars == <<vars, diskVars, jobVars>>

IoLabels == {"write", "mark", "publish"}
Phases == {"load", "create", "download", "sync", "remove", "over", "dead"}

FileInit ==
    /\ New({})
    /\ Fresh
    /\ written = {} /\ durable = {}
    /\ sidecarExists = FALSE /\ sidecarBits = {}
    /\ bitmap = {}
    /\ io = [w \in Slots |-> "write"]
    /\ resumed = {}
    /\ phase = "load"
    /\ jobExit = "none"
    /\ runs = 1

-----------------------------------------------------------------------------
(* The start of a run *)

Over(code) == phase' = "over" /\ jobExit' = code

\* runOneJob reads the bitmap of an existing sidecar; downloadParallelFile marks
\* those chunks completed, or is done at once when they are all, whether or not
\* the sidecar can be removed.
Load ==
    /\ phase = "load"
    /\ resumed' = IF sidecarExists THEN sidecarBits ELSE {}
    /\ IF resumed' = Chunks
         THEN /\ \/ sidecarExists' = FALSE /\ sidecarBits' = {}
                 \/ DiskFails /\ UNCHANGED <<sidecarExists, sidecarBits>>
              /\ Over("success")
         ELSE /\ phase' = "create"
              /\ UNCHANGED <<sidecarExists, sidecarBits, jobExit>>
    /\ UNCHANGED <<vars, written, durable, bitmap, io, runs>>

\* MUTANT: the new sidecar has an empty bitmap.
CreateEmpty ==
    /\ phase = "create"
    /\ sidecarExists' = TRUE /\ sidecarBits' = {}
    /\ bitmap' = {}
    /\ Renew(resumed) /\ Refresh
    /\ phase' = "download"
    /\ UNCHANGED <<written, durable, io, resumed, jobExit, runs>>

\* Manager.Create renames a new sidecar over the old one; then the scheduler and
\* the workers start.
Create ==
    /\ phase = "create"
    /\ sidecarExists' = TRUE /\ sidecarBits' = resumed
    /\ bitmap' = resumed
    /\ Renew(resumed) /\ Refresh
    /\ phase' = "download"
    /\ UNCHANGED <<written, durable, io, resumed, jobExit, runs>>

\* The sidecar cannot be written, or the destination cannot be opened after it.
CreateFails ==
    /\ DiskFails /\ phase = "create"
    /\ \/ UNCHANGED <<sidecarExists, sidecarBits>>
       \/ sidecarExists' = TRUE /\ sidecarBits' = resumed
    /\ Over("ioError")
    /\ UNCHANGED <<vars, written, durable, bitmap, io, resumed, runs>>

-----------------------------------------------------------------------------
(* workerLoop against the file sink; nothing but a worker moves in them *)

Downloading == phase = "download"
StillDownloading == UNCHANGED <<phase, jobExit, resumed, runs>>

Request(w) ==
    /\ \/ Fetched(w)
       \/ /\ NetworkFails \/ interrupted
          /\ OpenFailed(w) \/ ReadFailed(w)
    /\ UNCHANGED <<diskVars, bitmap, io>>

WriteAt(w) ==
    /\ pc[w] = "deliver" /\ io[w] = "write"
    /\ written' = written \cup {cur[w]}
    /\ io' = [io EXCEPT ![w] = "mark"]
    /\ UNCHANGED <<vars, durable, sidecarExists, sidecarBits, bitmap>>

\* MUTANT: the chunk is recorded before it is written.
MarkBitEarly(w) ==
    /\ pc[w] = "deliver" /\ io[w] = "write" /\ \A v \in Slots : io[v] # "publish"
    /\ bitmap' = bitmap \cup {cur[w]}
    /\ io' = [io EXCEPT ![w] = "publish"]
    /\ UNCHANGED <<vars, diskVars>>

\* Manager.MarkComplete holds m.mu while it sets the bit, writes the temporary
\* file, and renames it over the sidecar.
MarkBit(w) ==
    /\ io[w] = "mark" /\ \A v \in Slots : io[v] # "publish"
    /\ bitmap' = bitmap \cup {cur[w]}
    /\ io' = [io EXCEPT ![w] = "publish"]
    /\ UNCHANGED <<vars, diskVars>>

\* MUTANT: the sidecar is written from what the run resumed with.
PublishStale(w) ==
    /\ io[w] = "publish"
    /\ sidecarExists' = TRUE /\ sidecarBits' = resumed
    /\ io' = [io EXCEPT ![w] = "write"]
    /\ Delivered(w)
    /\ UNCHANGED <<written, durable, bitmap>>

Publish(w) ==
    /\ io[w] = "publish"
    /\ sidecarExists' = TRUE /\ sidecarBits' = bitmap
    /\ io' = [io EXCEPT ![w] = "write"]
    /\ Delivered(w)
    /\ UNCHANGED <<written, durable, bitmap>>

\* WriteAt, the temporary file or the rename fails, and WriteChunk with it.
WriteChunkFails(w) ==
    /\ DiskFails /\ io[w] \in {"write", "publish"}
    /\ io' = [io EXCEPT ![w] = "write"]
    /\ DeliveryFailed(w)
    /\ UNCHANGED <<diskVars, bitmap>>

FileWorker(w) ==
    /\ Downloading
    /\ \/ LoopStep(w) /\ UNCHANGED <<diskVars, bitmap, io>>
       \/ Request(w)
       \/ WriteAt(w) \/ MarkBit(w) \/ Publish(w) \/ WriteChunkFails(w)
    /\ StillDownloading

-----------------------------------------------------------------------------
(* The end of a run *)

\* MUTANT: the workers' exit code is ignored.
WorkersDoneAnyway ==
    /\ Downloading /\ exitCode # "none"
    /\ phase' = "sync"
    /\ UNCHANGED <<vars, diskVars, bitmap, io, resumed, jobExit, runs>>

WorkersDone ==
    /\ Downloading /\ exitCode # "none"
    /\ IF exitCode = "success" THEN phase' = "sync" /\ UNCHANGED jobExit ELSE Over(exitCode)
    /\ UNCHANGED <<vars, diskVars, bitmap, io, resumed, runs>>

\* MUTANT: the file is closed without Sync.
SyncSkipped ==
    /\ phase = "sync"
    /\ phase' = "remove"
    /\ UNCHANGED <<vars, diskVars, bitmap, io, resumed, jobExit, runs>>

\* Finalize: Sync and Close, then Remove.
Sync ==
    /\ phase = "sync"
    /\ durable' = written
    /\ phase' = "remove"
    /\ UNCHANGED <<vars, written, sidecarExists, sidecarBits, bitmap, io, resumed,
                   jobExit, runs>>

Remove ==
    /\ phase = "remove"
    /\ sidecarExists' = FALSE /\ sidecarBits' = {}
    /\ Over("success")
    /\ UNCHANGED <<vars, written, durable, bitmap, io, resumed, runs>>

FinalizeFails ==
    /\ DiskFails /\ phase \in {"sync", "remove"}
    /\ Over("ioError")
    /\ UNCHANGED <<vars, diskVars, bitmap, io, resumed, runs>>

-----------------------------------------------------------------------------
(* Crashes and further runs *)

Alive == phase \notin {"over", "dead"}

\* What dies with the process.
Forget ==
    /\ Renew({}) /\ Refresh
    /\ bitmap' = {} /\ resumed' = {}
    /\ io' = [w \in Slots |-> "write"]

\* The process is killed: the kernel still has all that was written.
Kill ==
    /\ Alive
    /\ Forget
    /\ phase' = "dead"
    /\ UNCHANGED <<diskVars, jobExit, runs>>

\* pget is run again after a crash or a failure.
RunAgain ==
    /\ ~Alive /\ jobExit # "success" /\ runs < MaxRuns
    /\ Forget
    /\ runs' = runs + 1
    /\ phase' = "load" /\ jobExit' = "none"
    /\ UNCHANGED diskVars

Idle == ~Alive /\ UNCHANGED fileVars

FileNext ==
    \/ Load \/ Create \/ CreateFails
    \/ \E w \in Slots : FileWorker(w)
    \/ Downloading /\ (Runner \/ Clock \/ Interrupt)
        /\ UNCHANGED <<diskVars, jobVars>>
    \/ WorkersDone \/ Sync \/ Remove \/ FinalizeFails
    \/ Kill \/ RunAgain
    \/ Idle

FileSpec == FileInit /\ [][FileNext]_fileVars

FileFairness ==
    /\ WF_fileVars(Load \/ Create \/ WorkersDone \/ Sync \/ Remove)
    /\ \A w \in Slots : WF_fileVars(FileWorker(w))
    /\ WF_fileVars(Downloading /\ Runner /\ UNCHANGED <<diskVars, jobVars>>)
    /\ WF_fileVars(Downloading /\ TickStep /\ UNCHANGED <<diskVars, jobVars>>)
    /\ \A c \in Chunks :
        WF_fileVars(Downloading /\ BackoffStep(c) /\ UNCHANGED <<diskVars, jobVars>>)
    /\ \A s \in Slots :
        WF_fileVars(Downloading /\ SuppressionStep(s) /\ UNCHANGED <<diskVars, jobVars>>)

FairFileSpec == FileSpec /\ FileFairness

-----------------------------------------------------------------------------
(* Properties *)

FileTypeOK ==
    /\ PoolTypeOK
    /\ written \subseteq Chunks /\ durable \subseteq Chunks
    /\ sidecarExists \in BOOLEAN /\ sidecarBits \subseteq Chunks
    /\ bitmap \subseteq Chunks
    /\ io \in [Slots -> IoLabels]
    /\ resumed \in SUBSET Chunks
    /\ phase \in Phases
    /\ jobExit \in {"none", "success", "failure", "ioError"}
    /\ runs \in 1 .. MaxRuns

\* What a later run will trust: the sidecar on disk names only chunks whose bytes
\* are in the file, whenever the process is killed and whichever disk write fails.
SidecarIsTruthful == sidecarBits \subseteq written

\* No progress is lost for a later run: what the scheduler counts as completed is
\* in the sidecar on disk at that moment.
CompletedIsRecorded ==
    phase = "download" => sidecarExists /\ InState("completed") \subseteq sidecarBits

\* The set a resume starts from, when chunks were completed in order.
InOrder(set) == \A c \in set : \A d \in Chunks : d < c => d \in set

\* A run that started from a prefix of the chunks, or from nothing, and reports
\* success leaves every chunk in the file.
SuccessMeansInFile == jobExit = "success" /\ InOrder(resumed) => written = Chunks

\* The sidecar of a download that went through Finalize disappears only after all
\* of its data is synchronized.
SyncedBeforeRemoval ==
    phase = "over" /\ exitCode = "success" /\ jobExit = "success" /\ InOrder(resumed)
        => durable = Chunks

\* The job keeps the promise of ResumableDownload over all of its runs: what is recorded is
\* there, stays recorded and is taken over, and every run ends, with an exit code unless it
\* is killed first, whatever failed.
Stage ==
    IF phase = "dead" THEN "killed"
    ELSE IF phase = "load" THEN "starting"
    ELSE IF phase = "over" THEN jobExit ELSE "running"
Resumable == INSTANCE ResumableDownload WITH
    Total <- NumChunks, stored <- written, recorded <- sidecarBits, begun <- resumed,
    stage <- Stage
ImplementsResumable == Resumable!RDSpec

-----------------------------------------------------------------------------
(* What the documents say and the code does not do *)

\* runner.go: "Mark already-completed chunks so the scheduler skips them."  So a
\* resumed download that reports success is complete, whichever chunks it had.
ResumedSuccessIsComplete == jobExit = "success" => written = Chunks

\* ARCHITECTURE.md, 24: "A file sidecar never marks data durable before the
\* destination data is synchronized."
MarkedIsDurable == sidecarBits \subseteq durable

\* ARCHITECTURE.md, 15.4: after every chunk is complete, the destination data is
\* synchronized before the sidecar is removed.
SuccessIsDurable == jobExit = "success" /\ InOrder(resumed) => durable = Chunks
=============================================================================
