------------------------------ MODULE StreamJob ------------------------------
(***************************************************************************)
(* internal/job/runner.go, downloadParallelStream: the worker pool of      *)
(* runWorkers delivering into the ordered stream sink, its writer, and the *)
(* end of the job: Close, the writer's result, the exit code.              *)
(***************************************************************************)
EXTENDS WorkerPool, StreamSink

CONSTANTS
    NetworkFails,   \* requests may fail without an interrupt
    OutputFails     \* writes to the output may fail

ASSUME StreamJobAssumption ==
    /\ StreamMode
    /\ ChunkTotal = NumChunks
    /\ BufferChunks = BufferSize \div SplitSize
    /\ NetworkFails \in BOOLEAN /\ OutputFails \in BOOLEAN

VARIABLES
    jobExit,    \* what downloadParallelStream returned
    asking,     \* who is inside HedgeEligible, between its two calls of the sink
    seen        \* the frontier that the first of them returned, 0 if nobody asks

askVars    == <<asking, seen>>
streamVars == <<vars, sinkVars, jobExit, askVars>>

StreamInit ==
    /\ Init /\ NewStreamSink
    /\ jobExit = "none"
    /\ asking = {} /\ seen = 0

\* HedgeEligible holds the scheduler's mutex meanwhile: what takes it has to wait.
MutexFree == asking = {}

-----------------------------------------------------------------------------
(* workerLoop against the sink *)

\* HedgeEligible asks the sink for the frontier.  Its conditions on the scheduler are
\* tested next and stay as they are until it returns ...
AskFrontier(w) ==
    /\ MutexFree /\ Lockable
    /\ pc[w] = "top" /\ ~interrupted
    /\ HedgeEligible(nextIndex, TRUE)
    /\ asking' = {w} /\ seen' = nextIndex
    /\ UNCHANGED <<vars, sinkVars, jobExit>>

\* ... and last for room for one more chunk, as the sink is by then.
TryHedge(w) ==
    /\ w \in asking /\ Lockable
    /\ IF Room(seen) THEN ConsiderHedge(w, seen, TRUE) ELSE SkipHedge(w)
    /\ asking' = {} /\ seen' = 0
    /\ UNCHANGED sinkVars

\* MUTANT: a refused reservation is not reported.
CallReserveDropped(w) ==
    \/ Reserved(w) /\ Reserve(cur[w])
    \/ Move(w, "reserve", "top") /\ RefuseReserve(cur[w])

CallReserve(w) ==
    \/ Reserved(w) /\ Reserve(cur[w])
    \/ ReserveRefused(w) /\ RefuseReserve(cur[w])

CallSubmit(w) ==
    \/ Delivered(w) /\ Submit(cur[w])
    \/ DeliveryFailed(w) /\ RefuseSubmit

Request(w) ==
    /\ \/ Fetched(w)
       \/ /\ NetworkFails \/ interrupted
          /\ OpenFailed(w) \/ ReadFailed(w)
    /\ UNCHANGED sinkVars

StreamWorker(w) ==
    /\ \/ MutexFree /\ LoopStep(w) /\ UNCHANGED <<sinkVars, askVars>>
       \/ TryHedge(w)
       \/ (CallReserve(w) \/ Request(w) \/ CallSubmit(w)) /\ UNCHANGED askVars
    /\ UNCHANGED jobExit

-----------------------------------------------------------------------------
(* The writer, and the end of the job *)

StreamWriter ==
    /\ WriterStep(interrupted) \/ (OutputFails /\ WriteError)
    /\ UNCHANGED <<vars, jobExit, askVars>>

WakeWriter ==
    /\ SignalContext(interrupted)
    /\ UNCHANGED <<vars, jobExit, askVars>>

\* streamSink.Close once runWorkers has returned.
CloseSink ==
    /\ exitCode # "none" /\ ~closed
    /\ Close
    /\ UNCHANGED <<vars, jobExit, askVars>>

\* MUTANT: the writer's error is lost.
EndJobDeaf ==
    /\ closed /\ writer \in WriterEnded /\ jobExit = "none"
    /\ jobExit' = exitCode
    /\ UNCHANGED <<vars, sinkVars, askVars>>

\* Then the writer's error counts if there was no other.
EndJob ==
    /\ closed /\ writer \in WriterEnded /\ jobExit = "none"
    /\ jobExit' = IF exitCode = "success" /\ writer # "flushed" THEN "ioError" ELSE exitCode
    /\ UNCHANGED <<vars, sinkVars, askVars>>

JobOver == jobExit # "none" /\ UNCHANGED streamVars

\* The runner, the clock and an interrupt act on the scheduler, whose mutex must be free.
\* For an interrupt that is no restriction: the step it would cut in two reads nothing it sets.
Beside == MutexFree /\ UNCHANGED <<sinkVars, jobExit, askVars>>

StreamNext ==
    \/ \E w \in Slots : AskFrontier(w) \/ StreamWorker(w)
    \/ (Runner \/ Clock \/ Interrupt) /\ Beside
    \/ StreamWriter
    \/ WakeWriter
    \/ CloseSink
    \/ EndJob
    \/ JobOver

StreamSpec == StreamInit /\ [][StreamNext]_streamVars

\* Every goroutine runs when it can, requests and writes end, deadlines pass.
StreamFairness ==
    /\ \A w \in Slots : WF_streamVars(StreamWorker(w))
    /\ WF_streamVars(Runner /\ Beside)
    /\ WF_streamVars(TickStep /\ Beside)
    /\ \A c \in Chunks : WF_streamVars(BackoffStep(c) /\ Beside)
    /\ \A s \in Slots : WF_streamVars(SuppressionStep(s) /\ Beside)
    /\ WF_streamVars(StreamWriter)
    /\ WF_streamVars(WakeWriter)
    /\ WF_streamVars(CloseSink)
    /\ WF_streamVars(EndJob)

FairStreamSpec == StreamSpec /\ StreamFairness

-----------------------------------------------------------------------------
(* Properties *)

StreamTypeOK ==
    /\ PoolTypeOK
    /\ SinkTypeOK
    /\ jobExit \in {"none", "success", "failure", "ioError"}
    /\ asking \in {{}} \cup {{w} : w \in Slots}
    /\ seen \in Indices

\* Every step of the job is a step of the pool, whatever network and sink did.
ImplementsPool == Spec

\* The job keeps the promise of OrderedDelivery to the reader of its output.
Promise == INSTANCE OrderedDelivery WITH
    Total <- NumChunks, delivered <- Len(output), verdict <- jobExit
ImplementsPromise == Promise!ODSpec

\* The output is the object's chunks in source order without gap or repetition,
\* through retries, hedges and late duplicates.
OutputInOrder == \A i \in 1 .. Len(output) : output[i] = i - 1

\* A job that reports success has written the last chunk to the output.
SuccessMeansWritten == jobExit = "success" => Len(output) = NumChunks

\* An acknowledged chunk is not lost between the workers and the output: it is in
\* the buffers, in the writer's hands, or written; or the writer has failed.
CompletedIsDelivered ==
    \A c \in InState("completed") : c \in completed \/ c < nextIndex

\* A buffer has the length of its chunk; chunk[b] is the chunk that buffer b holds.
BytesOf(chunk) ==
    {at \in (DOMAIN chunk) \X (0 .. SplitSize - 1) : at[2] < Length(chunk[at[1]])}
Bytes(chunk) == Cardinality(BytesOf(chunk))

\* Buffers of the workers (runner.go makes them before ReadFull), and of the sink.
Fetching      == {w \in Slots : pc[w] \in {"open", "deliver"}}
FetchedBytes  == Bytes([w \in Fetching |-> cur[w]])
ReorderBytes  == Bytes([c \in completed |-> c])

\* What is being fetched or waits in the reorder buffer never exceeds what was
\* reserved, nor that the limit: only the chunk being written comes on top.  Retries
\* and late reports release nothing twice.
Covered == FetchedBytes + ReorderBytes <= reserved /\ reserved <= BufferSize

\* A hedge reserves nothing, so Covered is not promised once one has begun; a job of
\* so few chunks never hedges.
NeverHedges == NumChunks <= HedgeMinDone
MemoryIsReserved == NeverHedges => Covered

-----------------------------------------------------------------------------
(* What the documents say and the code does not do *)

\* DESIGN.md: "When the memory limit is reached, new chunks are not scheduled."
\* So a job with a healthy network and a healthy output, however slow, fails only
\* when it is interrupted.
HealthyJobSucceeds ==
    ~NetworkFails /\ ~OutputFails =>
        (jobExit \in {"failure", "ioError"} => interrupted)

\* ARCHITECTURE.md, 13.3: the slower copy is discarded.  So a late copy cannot
\* spoil a job whose output is complete.
LateCopyIsHarmless ==
    ~OutputFails /\ jobExit = "ioError" /\ ~interrupted => Len(output) < NumChunks

\* ARCHITECTURE.md, 24: "At most one speculative duplicate exists."
OneHedgeAtMost == Cardinality(hedging) <= 1

\* Chunk payloads in memory: read by a worker and not yet submitted, waiting in
\* the reorder buffer, or being written.
PayloadBytes ==
    ReorderBytes
    + Bytes([w \in {v \in Slots : pc[v] = "deliver"} |-> cur[w]])
    + (IF writer = "writing" THEN Length(nextIndex - 1) ELSE 0)

\* ARCHITECTURE.md, 11.1: --buffer-size is a hard limit for the payload of active
\* chunks, of completed chunks, of the chunk being written and of a duplicate.
PayloadBounded == PayloadBytes <= BufferSize

\* What holds instead while no hedge has begun: the writer releases a reservation when it
\* takes the chunk, before it has written it, so one chunk comes on top of the limit.
PayloadNearlyBounded == PayloadBytes <= BufferSize + SplitSize
=============================================================================
