--------------------------- MODULE StreamJobProofs ---------------------------
(***************************************************************************)
(* A parallel download to standard output implements the worker pool, for  *)
(* any sizes of chunks and buffer; its output is in order, and a success   *)
(* is a complete output.                                                   *)
(*                                                                         *)
(* The first theorem carries every result of WorkerPoolProofs over to      *)
(* StreamJob.  DeliveryInv is the inductive invariant of the second part:  *)
(* it follows a chunk from the worker that submits it to the output.       *)
(***************************************************************************)
EXTENDS StreamJob, WorkerPoolProofs

\* Nothing is resumed in stream mode.
LEMMA StreamResumesInOrder == ResumesInOrder
BY ConstantsAssumption, StreamJobAssumption DEF ResumesInOrder

-----------------------------------------------------------------------------
(* The pool inside the job *)

\* HedgeEligible ends in the pool's step for a frontier that may be hedged, or for none.
LEMMA HedgeIsTriedOrSkipped ==
    ASSUME NEW w \in Slots, TryHedge(w)
    PROVE  /\ SkipHedge(w) \/ \E c \in Chunks : ConsiderHedge(w, c, TRUE)
           /\ UNCHANGED sinkVars
<1>1. ConsiderHedge(w, seen, TRUE) => seen \in Chunks
  BY DEF ConsiderHedge, HedgeEligible
<1> QED BY <1>1 DEF TryHedge

\* What the sink decides in StreamJob, it was free to decide in WorkerPool.
LEMMA WorkerStepsImplement ==
    ASSUME NEW w \in Slots, StreamWorker(w)
    PROVE  Worker(w)
<1>1. CASE LoopStep(w)
  BY <1>1 DEF Worker
<1>2. CASE TryHedge(w)
  BY <1>2, HedgeIsTriedOrSkipped DEF Worker, LoopStep, OpenStep
<1>3. CASE CallReserve(w) \/ Request(w) \/ CallSubmit(w)
  BY <1>3 DEF CallReserve, Request, CallSubmit, Worker, OpenStep, RequestStep, SinkStep
<1> QED
  BY <1>1, <1>2, <1>3 DEF StreamWorker

LEMMA StreamStepImplements ==
    ASSUME [StreamNext]_streamVars
    PROVE  [Next]_vars
<1>1. ASSUME NEW w \in Slots, StreamWorker(w) PROVE Next
  BY <1>1, WorkerStepsImplement DEF Next
<1>2. CASE Runner \/ Clock \/ Interrupt
  BY <1>2 DEF Next
<1>5. ASSUME NEW w \in Slots, AskFrontier(w) PROVE UNCHANGED vars
  BY <1>5 DEF AskFrontier
<1>3. CASE StreamWriter \/ WakeWriter \/ CloseSink \/ EndJob \/ JobOver
  BY <1>3 DEF StreamWriter, WakeWriter, CloseSink, EndJob, JobOver, streamVars
<1>4. CASE UNCHANGED streamVars
  BY <1>4 DEF streamVars
<1> QED
  BY <1>1, <1>2, <1>3, <1>4, <1>5 DEF StreamNext

\* downloadParallelStream runs runWorkers as it is: each of its steps is one of the
\* pool's or leaves the pool alone, whatever network, sink and writer do.
THEOREM StreamImplementsPool == StreamSpec => ImplementsPool
<1>1. StreamInit => Init
  BY DEF StreamInit
<1>2. [StreamNext]_streamVars => [Next]_vars
  BY StreamStepImplements
<1> QED
  BY <1>1, <1>2, PTL DEF StreamSpec, Spec, ImplementsPool

\* So the invariants of the pool hold in a stream job, unconditionally.
THEOREM StreamPoolIsConsistent == StreamSpec => [](PoolInv /\ InOrderInv)
<1>1. Spec => [](PoolInv /\ InOrderInv)
  BY StreamResumesInOrder, InOrderJobIsConsistent
<1> QED
  BY <1>1, StreamImplementsPool, PTL DEF ImplementsPool

-----------------------------------------------------------------------------
(* From the worker to the output *)

\* Labels of a worker whose chunk the sink has accepted.
Accepted == {"hedgeWon", "report", "ack"}

\* The sink has the chunk, or is past it.
InSink(c) == c \in completed \/ c < nextIndex

\* The writer's variables agree: the frontier is one ahead of the output exactly
\* while a chunk is being written.
WriterInv ==
    /\ SinkTypeOK
    /\ writer = "writing" => nextIndex = Len(output) + 1
    /\ writer \notin {"writing", "failed"} => nextIndex = Len(output)
    /\ OutputInOrder

\* Accepted and completed chunks are in the sink.
HandoverInv ==
    /\ \A w \in Slots : pc[w] \in Accepted => InSink(cur[w])
    /\ CompletedIsDelivered

\* Close comes after the last worker, so a flushed sink stays empty.
ClosingInv ==
    /\ \A w \in received : pc[w] \in Ended
    /\ exitCode # "none" => received = Slots
    /\ closed => exitCode # "none"
    /\ writer = "flushed" => closed /\ completed = {}
    /\ jobExit # "none" => writer \in WriterEnded
    /\ jobExit = "success" => exitCode = "success" /\ writer = "flushed"

DeliveryInv == WriterInv /\ HandoverInv /\ ClosingInv

LEMMA DeliveryInit == StreamInit => DeliveryInv
<1> SUFFICES ASSUME StreamInit PROVE DeliveryInv
  OBVIOUS
<1>1. PICK done \in ResumeSets : New(done)
  BY DEF StreamInit, Init
<1>2. done = {}
  BY ConstantsAssumption, StreamJobAssumption
<1>3. Fresh /\ NewStreamSink /\ jobExit = "none"
  BY DEF StreamInit, Init
<1>4. sinkErr \in BOOLEAN /\ closed \in BOOLEAN /\ signalled \in BOOLEAN
  BY <1>3, Zenon DEF NewStreamSink
<1>5. WriterInv
  BY <1>3, <1>4, SinkAssumption
     DEF NewStreamSink, WriterInv, SinkTypeOK, WriterLabels, OutputInOrder
<1>6. HandoverInv
  BY <1>1, <1>2, <1>3 DEF New, Fresh, HandoverInv, Accepted, CompletedIsDelivered, InState
<1>7. ClosingInv
  BY <1>3 DEF Fresh, NewStreamSink, ClosingInv
<1> QED
  BY <1>5, <1>6, <1>7 DEF DeliveryInv

\* What a worker's step leaves alone, and what it must have done before a chunk of
\* its is accepted or completed.
WorkerEffectOf(w) ==
    /\ pc[w] \notin Ended
    /\ received' = received /\ exitCode' = exitCode
    /\ \A v \in Slots \ {w} : pc'[v] = pc[v] /\ cur'[v] = cur[v]
    /\ pc'[w] \in Accepted =>
        /\ cur'[w] = cur[w]
        /\ pc[w] \in Accepted \/ Delivered(w)
    /\ \A c \in InState("completed")' :
        c \in InState("completed") \/ (pc[w] \in Accepted /\ c = cur[w])

LEMMA WorkerEffect ==
    ASSUME PoolInv, NEW w \in Slots, Worker(w)
    PROVE  WorkerEffectOf(w)
<1>1. /\ pc \in [Slots -> Labels] /\ cur \in [Slots -> Chunks \cup {NoChunk}]
      /\ state \in [Chunks -> ChunkStates]
      /\ pc[w] \in Holding => cur[w] \in Chunks
  BY DEF PoolInv, PoolTypeOK, SchedTypeOK, LoopsConsistent
<1> USE <1>1 DEF Goto, Hold, Restart, Exit, Ended, Accepted, InState, runVars
<1>2. \* A step to a place where nothing is accepted, with any chunk in hand.
      ASSUME pc[w] \notin Ended, received' = received, exitCode' = exitCode,
             NEW to \in Labels \ Accepted, NEW c \in Chunks \cup {NoChunk},
             pc' = [pc EXCEPT ![w] = to], cur' = [cur EXCEPT ![w] = c],
             \/ state' = state
             \/ \E d \in Chunks, s \in ChunkStates \ {"completed"} :
                    state' = [state EXCEPT ![d] = s]
             \/ pc[w] = "ack" /\ state' = [state EXCEPT ![cur[w]] = "completed"]
      PROVE  WorkerEffectOf(w)
  <2>1. \A v \in Slots \ {w} : pc'[v] = pc[v] /\ cur'[v] = cur[v]
    BY <1>2
  <2>2. pc'[w] \notin Accepted
    BY <1>2
  <2>3. \A d \in InState("completed")' :
            d \in InState("completed") \/ (pc[w] \in Accepted /\ d = cur[w])
    <3>1. CASE state' = state
      BY <3>1
    <3>2. CASE \E d \in Chunks, s \in ChunkStates \ {"completed"} :
                    state' = [state EXCEPT ![d] = s]
      BY <3>2
    <3>3. CASE pc[w] = "ack" /\ state' = [state EXCEPT ![cur[w]] = "completed"]
      BY <3>3 DEF Holding
    <3> QED BY <1>2, <3>1, <3>2, <3>3
  <2> QED BY <1>2, <2>1, <2>2, <2>3 DEF WorkerEffectOf
<1>3. cur = [cur EXCEPT ![w] = cur[w]] /\ cur[w] \in Chunks \cup {NoChunk}
  OBVIOUS
<1> USE DEF Move
<1>4. CASE Leave(w) \/ SkipHedge(w) \/ Reserved(w) \/ ReserveRefused(w) \/ Fetched(w)
           \/ OpenFailed(w) \/ ReadFailed(w) \/ DeliveryFailed(w)
  <2>1. state' = state /\ UNCHANGED <<cur, received, exitCode>>
    BY <1>4 DEF Leave, SkipHedge, Reserved, ReserveRefused, Fetched, OpenFailed, ReadFailed,
                DeliveryFailed, schedVars, chunkVars
  <2>2. /\ pc[w] \in {"top", "reserve", "open", "deliver"}
        /\ \E to \in {"broke", "next", "open", "retry", "deliver", "unhedge", "admission",
                      "abort"} : pc' = [pc EXCEPT ![w] = to]
    BY <1>4 DEF Leave, SkipHedge, Reserved, ReserveRefused, Fetched, OpenFailed, ReadFailed,
                DeliveryFailed
  <2> QED BY <1>2, <1>3, <2>1, <2>2 DEF Labels, Holding
<1>5. CASE BeginHedge(w) \/ NoHedgeSlot(w) \/ AdmissionFailed(w) \/ NoMoreWork(w) \/ Stopped(w)
  <2>1. state' = state /\ UNCHANGED <<received, exitCode>>
    BY <1>5 DEF BeginHedge, NoHedgeSlot, AdmissionFailed, NoMoreWork, Stopped, StartHedge,
                StartHedgeRefused, OnAdmissionFailure, NextComplete, NextStopped, chunkVars
  <2>2. /\ pc[w] \in {"hedge", "admission", "next"}
        /\ cur' = cur \/ cur' = [cur EXCEPT ![w] = NoChunk]
        /\ \E to \in {"open", "next", "retry", "returned", "broke"} :
              pc' = [pc EXCEPT ![w] = to]
    BY <1>5 DEF BeginHedge, NoHedgeSlot, AdmissionFailed, NoMoreWork, Stopped, AtNext
  <2> QED BY <1>2, <1>3, <2>1, <2>2 DEF Labels, Holding
<1>6. CASE Take(w)
  <2>1. PICK c \in Chunks : NextChunk(c, slot[w]) /\ cur' = [cur EXCEPT ![w] = c]
    BY <1>6 DEF Take
  <2>2. state' = [state EXCEPT ![c] = "active"] /\ UNCHANGED <<received, exitCode>>
    BY <1>6, <2>1 DEF Take, NextChunk, Assign
  <2>3. pc[w] = "next" /\ \E to \in {"reserve", "open"} : pc' = [pc EXCEPT ![w] = to]
    BY <1>6 DEF Take, AtNext
  <2> QED BY <1>2, <2>1, <2>2, <2>3 DEF Labels, Holding, ChunkStates
<1>7. CASE Wait(w)
  <2>1. UNCHANGED <<pc, cur, received, exitCode>> /\ pc[w] = "next" /\ state' = state
    BY <1>7 DEF Wait, AtNext, NextWait, chunkVars, poolVars
  <2> QED BY <2>1 DEF WorkerEffectOf
<1>8. CASE Retry(w) \/ Abort(w)
  <2>1. /\ pc[w] \in Holding /\ pc[w] \in {"retry", "abort"}
        /\ cur' = [cur EXCEPT ![w] = NoChunk] /\ UNCHANGED <<received, exitCode>>
        /\ \E to \in {"top", "broke"} : pc' = [pc EXCEPT ![w] = to]
    BY <1>8 DEF Retry, Abort, Holding
  <2>2. MarkFailed(cur[w], TRUE) \/ MarkFailed(cur[w], FALSE)
    BY <1>8 DEF Retry, Abort
  <2>3. \/ state' = state
        \/ \E s \in {"retryWait", "failed"} : state' = [state EXCEPT ![cur[w]] = s]
    BY <2>2 DEF MarkFailed, RetryLater, GiveUp
  <2>4. \/ state' = state
        \/ \E d \in Chunks, s \in ChunkStates \ {"completed"} :
                state' = [state EXCEPT ![d] = s]
    <3>1. cur[w] \in Chunks
      BY <2>1
    <3>2. {"retryWait", "failed"} \subseteq ChunkStates \ {"completed"}
      BY DEF ChunkStates
    <3> QED BY <2>3, <3>1, <3>2, Zenon
  <2>5. PICK to \in {"top", "broke"} : pc' = [pc EXCEPT ![w] = to]
    BY <2>1
  <2>6. to \in Labels \ Accepted /\ pc[w] \notin Ended
    BY <2>1, <2>5 DEF Labels
  <2>7. received' = received /\ exitCode' = exitCode /\ NoChunk \in Chunks \cup {NoChunk}
    BY <2>1
  <2>8. CASE state' = state
    BY <1>2, <2>1, <2>5, <2>6, <2>7, <2>8
  <2>9. CASE \E d \in Chunks, s \in ChunkStates \ {"completed"} :
                state' = [state EXCEPT ![d] = s]
    BY <1>2, <2>1, <2>5, <2>6, <2>7, <2>9
  <2> QED BY <2>4, <2>8, <2>9
<1>9. CASE HedgeFailed(w)
  <2>1. /\ pc[w] = "unhedge" /\ state' = state /\ UNCHANGED <<received, exitCode>>
        /\ pc' = [pc EXCEPT ![w] = "top"] /\ cur' = [cur EXCEPT ![w] = NoChunk]
    BY <1>9 DEF HedgeFailed, CancelHedge, chunkVars
  <2> QED BY <1>2, <2>1 DEF Labels
<1>10. CASE Acknowledge(w)
  <2>1. /\ pc[w] = "ack" /\ UNCHANGED <<received, exitCode>>
        /\ pc' = [pc EXCEPT ![w] = "top"] /\ cur' = [cur EXCEPT ![w] = NoChunk]
    BY <1>10 DEF Acknowledge
  <2>2. state' = state \/ state' = [state EXCEPT ![cur[w]] = "completed"]
    BY <1>10 DEF Acknowledge, MarkComplete
  <2> QED BY <1>2, <2>1, <2>2 DEF Labels
<1>11. CASE HedgeDelivered(w) \/ Report(w)
  <2>1. /\ pc[w] \in {"hedgeWon", "report"} /\ UNCHANGED <<cur, received, exitCode>>
        /\ \E to \in {"report", "ack"} : pc' = [pc EXCEPT ![w] = to]
    BY <1>11 DEF HedgeDelivered, Report
  <2>2. state' = state
    BY <1>11 DEF HedgeDelivered, Report, CancelHedge, OnWorkerSuccess, chunkVars
  <2> QED BY <2>1, <2>2 DEF WorkerEffectOf
<1>12. CASE \E c \in Chunks : ConsiderHedge(w, c, TRUE)
  <2>1. PICK c \in Chunks : ConsiderHedge(w, c, TRUE)
    BY <1>12
  <2>2. /\ pc[w] = "top" /\ state' = state /\ UNCHANGED <<received, exitCode>>
        /\ pc' = [pc EXCEPT ![w] = "hedge"] /\ cur' = [cur EXCEPT ![w] = c]
    BY <2>1 DEF ConsiderHedge, schedVars, chunkVars
  <2> QED BY <1>2, <2>2 DEF Labels
<1>13. CASE Delivered(w)
  <2>1. /\ pc[w] = "deliver" /\ state' = state /\ UNCHANGED <<cur, received, exitCode>>
        /\ \E to \in {"hedgeWon", "report"} : pc' = [pc EXCEPT ![w] = to]
    BY <1>13 DEF Delivered, schedVars, chunkVars
  <2> QED BY <1>13, <2>1 DEF WorkerEffectOf
<1> QED
  BY <1>4, <1>5, <1>6, <1>7, <1>8, <1>9, <1>10, <1>11, <1>12, <1>13
     DEF Worker, LoopStep, OpenStep, RequestStep, SinkStep

-----------------------------------------------------------------------------
(* The sink keeps the order *)

LEMMA SinkVarsApart ==
    ASSUME UNCHANGED sinkVars
    PROVE  UNCHANGED <<reserved, nextIndex, completed, sinkErr, closed, writer, output, signalled>>
BY DEF sinkVars

\* A call from outside the writer can wake it and add a chunk, no more.
SinkCalled ==
    /\ reserved' \in Int
    /\ nextIndex' = nextIndex /\ output' = output /\ sinkErr' = sinkErr
    /\ completed \subseteq completed' /\ completed' \subseteq Indices
    /\ closed' \in BOOLEAN /\ signalled' \in BOOLEAN
    /\ writer' = writer \/ (writer = "parked" /\ writer' = "woken")

LEMMA CallsKeepOrder ==
    ASSUME WriterInv, SinkCalled
    PROVE  WriterInv'
<1>1. sinkErr' \in BOOLEAN
  BY Zenon DEF WriterInv, SinkTypeOK, SinkCalled
<1>2. writer' \in WriterLabels
  BY DEF WriterInv, SinkTypeOK, SinkCalled, WriterLabels, Waits
<1>3. nextIndex' \in 0 .. ChunkTotal /\ output' \in Seq(Indices) /\ completed' \subseteq Indices
      /\ reserved' \in Int /\ closed' \in BOOLEAN /\ signalled' \in BOOLEAN
  BY DEF WriterInv, SinkTypeOK, SinkCalled
<1>4. /\ writer' = "writing" => nextIndex' = Len(output') + 1
      /\ writer' \notin {"writing", "failed"} => nextIndex' = Len(output')
      /\ OutputInOrder'
  BY DEF WriterInv, SinkCalled, OutputInOrder
<1> QED
  BY <1>1, <1>2, <1>3, <1>4 DEF WriterInv, SinkTypeOK

LEMMA QuietSinkIsCalled ==
    ASSUME WriterInv, UNCHANGED sinkVars
    PROVE  SinkCalled
<1>1. closed' \in BOOLEAN /\ signalled' \in BOOLEAN
  BY SinkVarsApart, Zenon DEF WriterInv, SinkTypeOK
<1> QED
  BY <1>1, SinkVarsApart DEF WriterInv, SinkTypeOK, SinkCalled

\* Where a step of the writer leads.
LEMMA WriterKeepsOrder ==
    ASSUME WriterInv, NEW done, WriterStep(done) \/ WriteError
    PROVE  /\ WriterInv'
           /\ closed' = closed
           /\ \A c \in Indices : InSink(c) => InSink(c)'
           /\ writer \notin WriterEnded
           /\ writer' = "flushed" => closed /\ completed' = {}
<1>1. /\ reserved \in Int /\ nextIndex \in 0 .. ChunkTotal /\ completed \subseteq Indices
      /\ writer \in WriterLabels /\ output \in Seq(Indices)
      /\ ChunkTotal \in Nat /\ Len(output) \in Nat
  BY SinkAssumption DEF WriterInv, SinkTypeOK
<1>2. sinkErr \in BOOLEAN /\ closed \in BOOLEAN /\ signalled \in BOOLEAN
  BY Zenon DEF WriterInv, SinkTypeOK
<1>3. \* The writer moves and nothing else.
      ASSUME NEW to \in Waits \cup {"look", "stopped"}, WriterMoves(to),
             writer \notin {"writing", "failed", "flushed", "stopped"}
      PROVE  /\ WriterInv'
             /\ closed' = closed
             /\ \A c \in Indices : InSink(c) => InSink(c)'
             /\ writer' # "flushed"
  <2>1. UNCHANGED <<reserved, nextIndex, completed, sinkErr, closed, output, signalled>>
    BY <1>3 DEF WriterMoves
  <2>2. sinkErr' \in BOOLEAN /\ closed' \in BOOLEAN /\ signalled' \in BOOLEAN
    BY <1>2, <2>1, Zenon
  <2>3. writer' = to /\ to \in WriterLabels /\ to \notin {"writing", "failed", "flushed"}
    BY <1>3 DEF WriterMoves, WriterLabels, Waits, WriterEnded
  <2>4. SinkTypeOK'
    BY <1>1, <2>1, <2>2, <2>3 DEF SinkTypeOK
  <2> QED BY <1>3, <2>1, <2>3, <2>4 DEF WriterInv, OutputInOrder, InSink
<1>4. CASE Park(done) \/ StartWait \/ WokenToStop(done) \/ GoRound
  <2>1. \E to \in Waits \cup {"look", "stopped"} : WriterMoves(to)
    BY <1>4 DEF Park, StartWait, WokenToStop, GoRound, Waits
  <2>2. writer \notin {"writing", "failed", "flushed", "stopped"}
    BY <1>4 DEF Park, StartWait, WokenToStop, GoRound
  <2> QED BY <1>3, <2>1, <2>2 DEF WriterEnded
<1>5. CASE TakeNext(done)
  <2>1. /\ nextIndex \in completed /\ completed' = completed \ {nextIndex}
        /\ nextIndex' = nextIndex + 1 /\ writer' = "writing" /\ output' = output
        /\ UNCHANGED <<sinkErr, closed, signalled>> /\ reserved' = reserved - Length(nextIndex)
        /\ writer \in {"flush", "look", "woken"}
    BY <1>5 DEF TakeNext, Continue, AfterWait
  <2>2. nextIndex' \in 0 .. ChunkTotal
    BY <1>1, <2>1 DEF Indices
  <2>3. reserved' \in Int
    BY <1>1, <2>1, SinkAssumption DEF Length
  <2>4. sinkErr' \in BOOLEAN /\ closed' \in BOOLEAN /\ signalled' \in BOOLEAN
    BY <1>2, <2>1, Zenon
  <2>5. SinkTypeOK'
    BY <1>1, <2>1, <2>2, <2>3, <2>4 DEF SinkTypeOK, WriterLabels
  <2>6. WriterInv'
    BY <1>1, <2>1, <2>5 DEF WriterInv, OutputInOrder
  <2>7. \A c \in Indices : InSink(c) => InSink(c)'
    BY <1>1, <2>1 DEF InSink, Indices
  <2> QED BY <2>1, <2>6, <2>7 DEF WriterEnded
<1>6. CASE Write
  <2>1. /\ writer = "writing" /\ writer' = "flush" /\ output' = Append(output, nextIndex - 1)
        /\ UNCHANGED <<reserved, nextIndex, completed, sinkErr, closed, signalled>>
    BY <1>6 DEF Write
  <2>2. nextIndex = Len(output) + 1 /\ nextIndex - 1 \in Indices
    BY <1>1, <2>1 DEF WriterInv, Indices
  <2>3. output' \in Seq(Indices) /\ Len(output') = nextIndex
    BY <1>1, <2>1, <2>2
  <2>4. sinkErr' \in BOOLEAN /\ closed' \in BOOLEAN /\ signalled' \in BOOLEAN
    BY <1>2, <2>1, Zenon
  <2>5. SinkTypeOK'
    BY <1>1, <2>1, <2>3, <2>4 DEF SinkTypeOK, WriterLabels
  <2>6. OutputInOrder'
    BY <1>1, <2>1, <2>2, <2>3 DEF WriterInv, OutputInOrder
  <2> QED BY <2>1, <2>3, <2>5, <2>6 DEF WriterInv, InSink, WriterEnded
<1>7. CASE WriteError
  <2>1. /\ writer = "writing" /\ writer' = "failed" /\ sinkErr' = TRUE
        /\ UNCHANGED <<reserved, nextIndex, completed, closed, output, signalled>>
    BY <1>7 DEF WriteError
  <2>2. sinkErr' \in BOOLEAN /\ closed' \in BOOLEAN /\ signalled' \in BOOLEAN
    BY <1>2, <2>1, Zenon
  <2>3. SinkTypeOK'
    BY <1>1, <2>1, <2>2 DEF SinkTypeOK, WriterLabels, WriterEnded
  <2> QED BY <2>1, <2>3 DEF WriterInv, OutputInOrder, InSink, WriterEnded
<1>8. CASE FinishClosed(done)
  <2>1. /\ closed /\ writer \in {"flush", "look", "woken"}
        /\ writer' = IF completed = {} THEN "flushed" ELSE "failed"
        /\ UNCHANGED <<reserved, nextIndex, completed, closed, output, signalled>>
    BY <1>8 DEF FinishClosed, Continue, AfterWait
  <2>2. sinkErr' \in BOOLEAN
    BY <1>8, Zenon DEF FinishClosed
  <2>3. closed' \in BOOLEAN /\ signalled' \in BOOLEAN
    BY <1>2, <2>1, Zenon
  <2>4. SinkTypeOK'
    BY <1>1, <2>1, <2>2, <2>3 DEF SinkTypeOK, WriterLabels, WriterEnded
  <2> QED BY <2>1, <2>4 DEF WriterInv, OutputInOrder, InSink, WriterEnded
<1> QED
  BY <1>4, <1>5, <1>6, <1>7, <1>8 DEF WriterStep

-----------------------------------------------------------------------------
(* Each step of the job keeps DeliveryInv *)

\* A worker's step with its call of the sink: what it hands over, the sink has.
LEMMA WorkerKeepsDelivery ==
    ASSUME PoolInv, DeliveryInv, NEW w \in Slots, StreamWorker(w)
    PROVE  DeliveryInv'
<1>1. Worker(w) /\ WorkerEffectOf(w)
  BY WorkerStepsImplement, WorkerEffect
<1>2. /\ nextIndex \in 0 .. ChunkTotal /\ completed \subseteq Indices /\ reserved \in Int
      /\ Chunks = Indices
      /\ pc[w] \in Holding => cur[w] \in Chunks
  BY StreamJobAssumption
     DEF DeliveryInv, WriterInv, SinkTypeOK, Chunks, Indices, PoolInv, LoopsConsistent
<1>3. SinkCalled /\ closed' = closed /\ jobExit' = jobExit
      /\ (Delivered(w) => cur[w] \in completed')
  <2>1. jobExit' = jobExit
    BY DEF StreamWorker
  <2>2. CASE UNCHANGED sinkVars /\ ~Delivered(w)
    BY <2>1, <2>2, SinkVarsApart, QuietSinkIsCalled DEF DeliveryInv
  <2>3. CASE Reserved(w) /\ Reserve(cur[w])
    <3>1. cur[w] \in Chunks /\ ~Delivered(w)
      BY <1>2, <2>3 DEF Reserved, Delivered, Move, Holding
    <3>2. Length(cur[w]) \in Int
      BY SinkAssumption DEF Length
    <3>3. reserved' \in Int
      BY <1>2, <2>3, <3>2 DEF Reserve
    <3>4. closed' \in BOOLEAN /\ signalled' \in BOOLEAN
      BY <2>3, Zenon DEF Reserve, DeliveryInv, WriterInv, SinkTypeOK
    <3> QED BY <1>2, <2>1, <2>3, <3>1, <3>3, <3>4 DEF Reserve, SinkCalled
  <2>4. CASE Delivered(w) /\ Submit(cur[w])
    <3>1. cur[w] \in Indices
      BY <1>2, <2>4 DEF Delivered, Move, Holding
    <3>2. closed' \in BOOLEAN /\ signalled' \in BOOLEAN
      BY <2>4, Zenon DEF Submit, DeliveryInv, WriterInv, SinkTypeOK
    <3> QED BY <1>2, <2>1, <2>4, <3>1, <3>2 DEF Submit, Signal, SinkCalled
  <2>5. LoopStep(w) => ~Delivered(w)
    BY DEF Delivered, Move, LoopStep, Leave, SkipHedge, BeginHedge, NoHedgeSlot, Take, Wait,
           AtNext, NoMoreWork, Stopped, AdmissionFailed, Retry, HedgeFailed, Abort,
           HedgeDelivered, Report, Acknowledge
  <2>6. TryHedge(w) => UNCHANGED sinkVars /\ ~Delivered(w)
    BY HedgeIsTriedOrSkipped DEF SkipHedge, ConsiderHedge, Delivered, Move
  <2>7. ReserveRefused(w) /\ RefuseReserve(cur[w]) => UNCHANGED sinkVars /\ ~Delivered(w)
    BY DEF ReserveRefused, RefuseReserve, Delivered, Move
  <2>8. Request(w) => UNCHANGED sinkVars /\ ~Delivered(w)
    BY DEF Request, Fetched, OpenFailed, ReadFailed, Delivered, Move
  <2>9. ASSUME DeliveryFailed(w), RefuseSubmit PROVE UNCHANGED sinkVars /\ ~Delivered(w)
    <3>1. pc \in [Slots -> Labels] /\ pc'[w] = "abort"
      BY <2>9 DEF PoolInv, PoolTypeOK, DeliveryFailed, Move, Goto
    <3> QED BY <2>9, <3>1 DEF RefuseSubmit, Delivered, Move, Goto
  <2> QED
    BY <2>2, <2>3, <2>4, <2>5, <2>6, <2>7, <2>8, <2>9
       DEF StreamWorker, CallReserve, CallSubmit
<1>4. WriterInv'
  BY <1>3, CallsKeepOrder DEF DeliveryInv
<1>5. \A c : InSink(c) => InSink(c)'
  BY <1>3 DEF SinkCalled, InSink
<1>6. HandoverInv'
  <2>1. ASSUME NEW v \in Slots, pc'[v] \in Accepted PROVE InSink(cur[v])' 
    <3>1. CASE v # w
      BY <1>1, <1>5, <2>1, <3>1 DEF WorkerEffectOf, DeliveryInv, HandoverInv, InSink
    <3>2. CASE v = w /\ pc[w] \in Accepted
      BY <1>1, <1>5, <2>1, <3>2 DEF WorkerEffectOf, DeliveryInv, HandoverInv, InSink
    <3>3. CASE v = w /\ Delivered(w)
      BY <1>1, <1>3, <2>1, <3>3 DEF WorkerEffectOf, InSink
    <3> QED BY <1>1, <2>1, <3>1, <3>2, <3>3 DEF WorkerEffectOf
  <2>2. ASSUME NEW c \in InState("completed")' PROVE InSink(c)'
    <3>1. c \in InState("completed") \/ (pc[w] \in Accepted /\ c = cur[w])
      BY <1>1, <2>2 DEF WorkerEffectOf
    <3>2. InSink(c)
      BY <3>1 DEF DeliveryInv, HandoverInv, CompletedIsDelivered, InSink
    <3> QED BY <1>5, <3>2
  <2> QED BY <2>1, <2>2 DEF HandoverInv, CompletedIsDelivered, InSink
<1>7. ClosingInv'
  <2>1. /\ pc[w] \notin Ended /\ received' = received /\ exitCode' = exitCode
        /\ \A v \in Slots \ {w} : pc'[v] = pc[v]
    BY <1>1 DEF WorkerEffectOf
  <2>2. received \subseteq Slots /\ w \notin received
    BY <2>1 DEF PoolInv, PoolTypeOK, DeliveryInv, ClosingInv
  <2>3. exitCode = "none" /\ ~closed /\ writer # "flushed" /\ jobExit # "success"
    BY <2>2 DEF DeliveryInv, ClosingInv
  <2> QED BY <1>3, <2>1, <2>2, <2>3 DEF SinkCalled, DeliveryInv, ClosingInv, WriterEnded
<1> QED
  BY <1>4, <1>6, <1>7 DEF DeliveryInv

\* A step of runWorkers, the clock or a signal changes neither what the goroutines
\* hold nor the completed chunks.
LEMMA RunnerKeepsDelivery ==
    ASSUME PoolInv, DeliveryInv, Runner \/ Clock \/ Interrupt, UNCHANGED <<sinkVars, jobExit>>
    PROVE  DeliveryInv'
<1>1. UNCHANGED <<reserved, nextIndex, completed, sinkErr, closed, writer, output, signalled, jobExit>>
  BY SinkVarsApart
<1>2. WriterInv'
  BY QuietSinkIsCalled, CallsKeepOrder DEF DeliveryInv
<1>3. UNCHANGED <<pc, cur, state>>
  BY DEF Runner, Receive, Conclude, PropagateInterrupt, Clock, TickStep, CooldownStep,
         BackoffStep, SuppressionStep, WhileRunning, Interrupt, ParentCancelled, Cancel, Tick,
         CooldownExpires, BackoffExpires, SuppressionExpires, poolVars, schedVars, chunkVars
<1>4. HandoverInv'
  BY <1>1, <1>3 DEF DeliveryInv, HandoverInv, CompletedIsDelivered, InSink, InState
<1>5. ClosingInv'
  <2>1. CASE \E w \in Slots : Receive(w)
    BY <1>1, <1>3, <2>1 DEF Receive, DeliveryInv, ClosingInv, PoolInv, PoolTypeOK
  <2>2. CASE Conclude
    BY <1>1, <1>3, <2>2 DEF Conclude, DeliveryInv, ClosingInv
  <2>3. CASE PropagateInterrupt \/ Clock \/ Interrupt
    <3>1. received' = received /\ exitCode' = exitCode
      BY <2>3 DEF PropagateInterrupt, Clock, TickStep, CooldownStep, BackoffStep,
                  SuppressionStep, WhileRunning, Interrupt, runVars
    <3> QED BY <1>1, <1>3, <3>1 DEF DeliveryInv, ClosingInv
  <2> QED BY <2>1, <2>2, <2>3 DEF Runner
<1> QED
  BY <1>2, <1>4, <1>5 DEF DeliveryInv

LEMMA DeliveryStep ==
    ASSUME PoolInv, DeliveryInv, [StreamNext]_streamVars
    PROVE  DeliveryInv'
<1>1. ASSUME NEW w \in Slots, StreamWorker(w) PROVE DeliveryInv'
  BY <1>1, WorkerKeepsDelivery
<1>2. CASE (Runner \/ Clock \/ Interrupt) /\ Beside
  BY <1>2, RunnerKeepsDelivery DEF Beside
<1>3. UNCHANGED vars => UNCHANGED <<pc, cur, state, received, exitCode>>
  BY DEF vars, poolVars, runVars, schedVars, chunkVars
<1>4. \* Steps of the sink alone, handing nothing back.
      ASSUME UNCHANGED vars, WriterInv', \A c \in Indices : InSink(c) => InSink(c)'
      PROVE  HandoverInv'
  <2>1. Chunks = Indices /\ \A w \in Slots : pc[w] \in Accepted => cur[w] \in Chunks
    BY StreamJobAssumption
       DEF Chunks, Indices, Accepted, PoolInv, LoopsConsistent, Holding
  <2>2. InState("completed")' = InState("completed") /\ InState("completed") \subseteq Chunks
    BY <1>3, <1>4 DEF InState
  <2> QED
    BY <1>3, <1>4, <2>1, <2>2 DEF DeliveryInv, HandoverInv, CompletedIsDelivered, InSink
<1>5. CASE StreamWriter
  <2>1. UNCHANGED vars /\ jobExit' = jobExit
    BY <1>5 DEF StreamWriter
  <2>2. /\ WriterInv' /\ closed' = closed
        /\ \A c \in Indices : InSink(c) => InSink(c)'
        /\ writer \notin WriterEnded
        /\ writer' = "flushed" => closed /\ completed' = {}
    BY <1>5, WriterKeepsOrder DEF StreamWriter, DeliveryInv
  <2>3. ClosingInv'
    BY <1>3, <2>1, <2>2 DEF DeliveryInv, ClosingInv, WriterEnded
  <2> QED BY <1>4, <2>1, <2>2, <2>3 DEF DeliveryInv
<1>6. CASE WakeWriter \/ CloseSink
  <2>1. UNCHANGED vars /\ jobExit' = jobExit
    BY <1>6 DEF WakeWriter, CloseSink
  <2>2. /\ UNCHANGED <<reserved, nextIndex, completed, sinkErr, output>>
        /\ writer' = writer \/ (writer = "parked" /\ writer' = "woken")
        /\ closed' = closed \/ (CloseSink /\ closed' = TRUE)
        /\ signalled' = signalled \/ signalled' = TRUE
    BY <1>6 DEF WakeWriter, CloseSink, SignalContext, Close, Signal
  <2>3. closed' \in BOOLEAN /\ signalled' \in BOOLEAN
    BY <2>2, Zenon DEF DeliveryInv, WriterInv, SinkTypeOK
  <2>4. SinkCalled
    BY <2>2, <2>3 DEF DeliveryInv, WriterInv, SinkTypeOK, SinkCalled
  <2>5. WriterInv'
    BY <2>4, CallsKeepOrder DEF DeliveryInv
  <2>6. \A c \in Indices : InSink(c) => InSink(c)'
    BY <2>2 DEF InSink
  <2>7. ClosingInv'
    BY <1>3, <2>1, <2>2 DEF DeliveryInv, ClosingInv, CloseSink, WriterEnded
  <2> QED BY <1>4, <2>1, <2>5, <2>6, <2>7 DEF DeliveryInv
<1>7. CASE EndJob \/ JobOver \/ (\E w \in Slots : AskFrontier(w)) \/ UNCHANGED streamVars
  <2>1. UNCHANGED vars /\ UNCHANGED sinkVars
    BY <1>7 DEF EndJob, JobOver, AskFrontier, streamVars
  <2>2. WriterInv'
    BY <2>1, QuietSinkIsCalled, CallsKeepOrder DEF DeliveryInv
  <2>3. \A c \in Indices : InSink(c) => InSink(c)'
    BY <2>1, SinkVarsApart DEF InSink
  <2>4. \/ jobExit' = jobExit
        \/ writer \in WriterEnded /\ (jobExit' = "success" => exitCode = "success" /\ writer = "flushed")
    BY <1>7 DEF EndJob, JobOver, AskFrontier, streamVars
  <2>5. ClosingInv'
    BY <1>3, <2>1, <2>4, SinkVarsApart DEF DeliveryInv, ClosingInv
  <2> QED BY <1>4, <2>1, <2>2, <2>3, <2>5 DEF DeliveryInv
<1> QED
  BY <1>1, <1>2, <1>5, <1>6, <1>7 DEF StreamNext

-----------------------------------------------------------------------------
(* What the job promises *)

\* The inductive invariant of the job, on top of the pool's.
THEOREM DeliveryIsConsistent == StreamSpec => []DeliveryInv
<1>1. StreamInit => DeliveryInv
  BY DeliveryInit
<1>2. PoolInv /\ DeliveryInv /\ [StreamNext]_streamVars => DeliveryInv'
  BY DeliveryStep
<1> QED
  BY <1>1, <1>2, StreamPoolIsConsistent, PTL DEF StreamSpec

\* The writer's output is the object's chunks in source order, each once, at every
\* moment, whatever the workers, their retries and their hedges do.
THEOREM OutputIsInOrder == StreamSpec => []OutputInOrder
<1>1. DeliveryInv => OutputInOrder
  BY DEF DeliveryInv, WriterInv
<1> QED
  BY <1>1, DeliveryIsConsistent, PTL

\* No chunk that the scheduler counts as completed is lost between the worker that
\* submitted it and the output.
THEOREM NothingIsLost == StreamSpec => []CompletedIsDelivered
<1>1. DeliveryInv => CompletedIsDelivered
  BY DEF DeliveryInv, HandoverInv
<1> QED
  BY <1>1, DeliveryIsConsistent, PTL

\* downloadParallelStream reports success only when every chunk is on the output.
THEOREM SuccessIsWritten == StreamSpec => []SuccessMeansWritten
<1>1. PoolInv /\ InOrderInv /\ DeliveryInv => SuccessMeansWritten
  <2> SUFFICES ASSUME PoolInv, InOrderInv, DeliveryInv, jobExit = "success"
               PROVE  Len(output) = NumChunks
    BY DEF SuccessMeansWritten
  <2>1. exitCode = "success" /\ writer = "flushed" /\ completed = {}
    BY DEF DeliveryInv, ClosingInv
  <2>2. InState("completed") = Chunks
    BY <2>1 DEF InOrderInv, SuccessMeansComplete
  <2>3. NumChunks - 1 \in Chunks /\ NumChunks \in Nat
    BY ConstantsAssumption DEF Chunks
  <2>4. NumChunks - 1 < nextIndex
    BY <2>1, <2>2, <2>3 DEF DeliveryInv, HandoverInv, CompletedIsDelivered
  <2>5. nextIndex \in 0 .. NumChunks /\ nextIndex = Len(output)
    BY <2>1, StreamJobAssumption DEF DeliveryInv, WriterInv, SinkTypeOK
  <2> QED BY <2>3, <2>4, <2>5
<1> QED
  BY <1>1, DeliveryIsConsistent, StreamPoolIsConsistent, PTL

\* The safety part of OrderedDelivery: the job starts as it does, and each of its
\* steps delivers the next chunk, gives a verdict, or is none of the reader's
\* business.  No verdict is followed by a chunk, and success by none missing.
THEOREM PromiseIsKept ==
    StreamSpec => Promise!ODInit /\ [][Promise!ODNext]_<<Len(output), jobExit>>
<1> DEFINE Inv == PoolInv /\ DeliveryInv /\ SuccessMeansWritten'
<1>1. StreamInit => Promise!ODInit
  BY DEF StreamInit, NewStreamSink, Promise!ODInit
<1>2. Inv /\ [StreamNext]_streamVars => [Promise!ODNext]_<<Len(output), jobExit>>
  <2> SUFFICES ASSUME Inv, [StreamNext]_streamVars
               PROVE  Promise!ODNext \/ UNCHANGED <<Len(output), jobExit>>
    OBVIOUS
  <2>1. output \in Seq(Indices) /\ Len(output) \in Nat /\ nextIndex \in 0 .. ChunkTotal
        /\ ChunkTotal \in Nat /\ ChunkTotal = NumChunks
    BY SinkAssumption, StreamJobAssumption DEF DeliveryInv, WriterInv, SinkTypeOK
  <2>2. ASSUME NEW w \in Slots, StreamWorker(w) \/ AskFrontier(w)
        PROVE  UNCHANGED <<output, jobExit>>
    BY <2>2 DEF StreamWorker, AskFrontier, TryHedge, CallReserve, Request, CallSubmit, Reserve, RefuseReserve,
                Submit, RefuseSubmit, sinkVars
  <2>3. CASE (Runner \/ Clock \/ Interrupt) /\ Beside
    BY <2>3 DEF Beside, sinkVars
  <2>4. CASE StreamWriter
    <3>1. jobExit' = jobExit
      BY <2>4 DEF StreamWriter
    <3>2. CASE Write
      <4>1. writer = "writing" /\ nextIndex = Len(output) + 1 /\ Len(output') = Len(output) + 1
        BY <2>1, <3>2 DEF Write, DeliveryInv, WriterInv
      <4>2. jobExit = "none"
        BY <4>1 DEF DeliveryInv, ClosingInv, WriterEnded
      <4> QED BY <2>1, <3>1, <4>1, <4>2 DEF Promise!ODNext, Promise!DeliverNext
    <3>3. CASE UNCHANGED output
      BY <3>1, <3>3
    <3>4. Write \/ UNCHANGED output
      BY <2>4 DEF StreamWriter, WriterStep, Park, StartWait, WokenToStop, TakeNext, GoRound,
                  FinishClosed, WriteError, WriterMoves
    <3> QED BY <3>2, <3>3, <3>4
  <2>5. CASE WakeWriter \/ CloseSink \/ JobOver \/ UNCHANGED streamVars
    BY <2>5 DEF WakeWriter, CloseSink, SignalContext, Close, JobOver, streamVars, sinkVars
  <2>6. CASE EndJob
    <3>1. /\ jobExit = "none" /\ output' = output /\ closed
          /\ jobExit' = "ioError" \/ jobExit' = exitCode
      BY <2>6 DEF EndJob, sinkVars
    <3>2. exitCode \in {"success", "failure"}
      BY <3>1 DEF DeliveryInv, ClosingInv, PoolInv, PoolTypeOK
    <3>3. jobExit' = "success" => Len(output) = NumChunks
      BY <3>1 DEF SuccessMeansWritten
    <3> QED
      BY <3>1, <3>2, <3>3 DEF Promise!ODNext, Promise!Succeed, Promise!Fail
  <2> QED
    BY <2>2, <2>3, <2>4, <2>5, <2>6 DEF StreamNext
<1>3. StreamSpec => [](PoolInv /\ DeliveryInv) /\ []SuccessMeansWritten
  BY StreamPoolIsConsistent, DeliveryIsConsistent, SuccessIsWritten, PTL
<1> QED
  BY <1>1, <1>2, <1>3, PTL DEF StreamSpec

-----------------------------------------------------------------------------
(* Memory *)

\* Bytes adds up: one more buffer adds the length of its chunk.
LEMMA BytesAdd ==
    ASSUME NEW S, NEW x \in S, IsFiniteSet(S), NEW f \in [S -> Indices]
    PROVE  LET g == [b \in S \ {x} |-> f[b]]
           IN  /\ Bytes(f) \in Nat /\ Bytes(g) \in Nat
               /\ Bytes(f) = Bytes(g) + Length(f[x])
<1> DEFINE g == [b \in S \ {x} |-> f[b]]
           Offsets == 0 .. Length(f[x]) - 1
           Part == {x} \X Offsets
<1>1. /\ SplitSize \in Nat \ {0} /\ Length(f[x]) \in 1 .. SplitSize
      /\ \A b \in S : Length(f[b]) \in 1 .. SplitSize
  BY SinkAssumption DEF Length
<1>2. IsFiniteSet(Offsets) /\ Cardinality(Offsets) = Length(f[x])
  <2>1. 0 \in Int /\ Length(f[x]) - 1 \in Int
    BY <1>1
  <2>2. IsFiniteSet(Offsets)
        /\ Cardinality(Offsets) = IF 0 > Length(f[x]) - 1 THEN 0 ELSE (Length(f[x]) - 1) - 0 + 1
    BY <2>1, FS_Interval
  <2> QED BY <1>1, <2>2
<1>3. IsFiniteSet(Part) /\ Cardinality(Part) = Length(f[x])
  <2>1. IsFiniteSet({x}) /\ Cardinality({x}) = 1
    BY FS_Singleton
  <2> HIDE DEF Offsets
  <2>2. IsFiniteSet(Part) /\ Cardinality(Part) = Cardinality({x}) * Cardinality(Offsets)
    BY <1>2, <2>1, FS_Product
  <2> QED BY <1>1, <1>2, <2>1, <2>2
<1>4. IsFiniteSet(BytesOf(g))
  <2>1. IsFiniteSet(S \ {x}) /\ IsFiniteSet(0 .. SplitSize - 1)
    <3>1. 0 \in Int /\ SplitSize - 1 \in Int
      BY <1>1
    <3> QED BY <3>1, FS_Interval, FS_RemoveElement
  <2>2. IsFiniteSet((S \ {x}) \X (0 .. SplitSize - 1))
    BY <2>1, FS_Product
  <2>3. BytesOf(g) \in SUBSET ((S \ {x}) \X (0 .. SplitSize - 1))
    BY DEF BytesOf
  <2> QED BY <2>2, <2>3, FS_Subset
<1>5. BytesOf(f) = BytesOf(g) \cup Part /\ BytesOf(g) \cap Part = {}
  BY <1>1 DEF BytesOf
<1> HIDE DEF g, Part
<1>6. Cardinality({}) = 0
  BY FS_EmptySet
<1>7. Cardinality(BytesOf(f)) = Cardinality(BytesOf(g)) + Cardinality(Part)
                                - Cardinality(BytesOf(g) \cap Part)
  BY <1>3, <1>4, <1>5, FS_Union
<1>8. Cardinality(BytesOf(g)) \in Nat
  BY <1>4, FS_CardinalityType
<1>9. Cardinality(BytesOf(f)) = Cardinality(BytesOf(g)) + Length(f[x])
  BY <1>1, <1>3, <1>5, <1>6, <1>7, <1>8
<1> QED BY <1>1, <1>8, <1>9 DEF Bytes, g

LEMMA BytesAreNat ==
    \A S : IsFiniteSet(S) => \A f \in [S -> Indices] : Bytes(f) \in Nat
<1> SUFFICES ASSUME NEW S, IsFiniteSet(S), NEW f \in [S -> Indices] PROVE Bytes(f) \in Nat
  OBVIOUS
<1>1. CASE S = {}
  <2>1. BytesOf(f) = {}
    BY <1>1 DEF BytesOf
  <2> QED BY <2>1, FS_EmptySet DEF Bytes
<1>2. CASE S # {}
  <2>1. PICK x \in S : TRUE
    BY <1>2
  <2> QED BY BytesAdd
<1> QED BY <1>1, <1>2

\* What the buffers hold, in a state of the job.
BuffersTyped ==
    /\ cur \in [Slots -> Chunks \cup {NoChunk}] /\ \A w \in Fetching : cur[w] \in Indices
    /\ completed \subseteq Indices
    /\ reserved \in Int

LEMMA BuffersFinite ==
    ASSUME BuffersTyped
    PROVE  /\ IsFiniteSet(Fetching) /\ IsFiniteSet(completed)
           /\ [w \in Fetching |-> cur[w]] \in [Fetching -> Indices]
           /\ [c \in completed |-> c] \in [completed -> Indices]
           /\ FetchedBytes \in Nat /\ ReorderBytes \in Nat
<1>1. IsFiniteSet(Fetching)
  <2>1. Fetching \in SUBSET Slots
    BY DEF Fetching
  <2> QED BY <2>1, SlotsFinite
<1>2. IsFiniteSet(completed)
  <2>1. IsFiniteSet(Indices)
    <3>1. 0 \in Int /\ ChunkTotal - 1 \in Int
      BY SinkAssumption
    <3> QED BY <3>1, FS_Interval DEF Indices
  <2> QED BY <2>1, FS_Subset DEF BuffersTyped
<1>3. /\ [w \in Fetching |-> cur[w]] \in [Fetching -> Indices]
      /\ [c \in completed |-> c] \in [completed -> Indices]
  BY DEF BuffersTyped
<1>4. FetchedBytes \in Nat /\ ReorderBytes \in Nat
  BY <1>1, <1>2, <1>3, BytesAreNat DEF FetchedBytes, ReorderBytes
<1> QED BY <1>1, <1>2, <1>3, <1>4

\* A worker starts to fetch, or stops.
LEMMA FetchBegins ==
    ASSUME BuffersTyped, BuffersTyped', NEW w \in Slots, w \notin Fetching,
           Fetching' = Fetching \cup {w}, \A v \in Fetching : cur'[v] = cur[v]
    PROVE  FetchedBytes' = FetchedBytes + Length(cur'[w])
<1> DEFINE S == Fetching \cup {w}
           f == [v \in S |-> cur'[v]]
           g == [v \in S \ {w} |-> f[v]]
<1>1. f \in [S -> Indices]
  BY DEF BuffersTyped
<1>2. IsFiniteSet(S)
  BY BuffersFinite, FS_AddElement
<1>3. Bytes(f) = Bytes(g) + Length(f[w])
  <2>1. w \in S
    OBVIOUS
  <2> HIDE DEF S, f
  <2> QED BY <1>1, <1>2, <2>1, BytesAdd
<1>4. f[w] = cur'[w]
  OBVIOUS
<1>5. g = [v \in Fetching |-> cur[v]]
  OBVIOUS
<1>6. f = [v \in Fetching |-> cur[v]]'
  OBVIOUS
<1> HIDE DEF f, g
<1> QED BY <1>3, <1>4, <1>5, <1>6 DEF FetchedBytes

LEMMA FetchEnds ==
    ASSUME BuffersTyped, NEW w \in Fetching,
           Fetching' = Fetching \ {w}, \A v \in Fetching \ {w} : cur'[v] = cur[v]
    PROVE  FetchedBytes = FetchedBytes' + Length(cur[w])
<1> DEFINE f == [v \in Fetching |-> cur[v]]
           g == [v \in Fetching \ {w} |-> f[v]]
<1>1. f \in [Fetching -> Indices] /\ IsFiniteSet(Fetching)
  BY BuffersFinite
<1>2. Bytes(f) = Bytes(g) + Length(f[w])
  BY <1>1, BytesAdd
<1>3. f[w] = cur[w]
  OBVIOUS
<1>4. g = [v \in Fetching |-> cur[v]]'
  OBVIOUS
<1> HIDE DEF f, g
<1> QED BY <1>2, <1>3, <1>4 DEF FetchedBytes, f

LEMMA FetchGoesOn ==
    ASSUME Fetching' = Fetching, \A v \in Fetching : cur'[v] = cur[v]
    PROVE  FetchedBytes' = FetchedBytes
<1>1. [v \in Fetching |-> cur[v]] = [v \in Fetching |-> cur[v]]'
  OBVIOUS
<1> QED BY <1>1 DEF FetchedBytes

\* The sink buffers a chunk, or the writer takes one out.
LEMMA ReorderChanges ==
    ASSUME BuffersTyped, NEW c \in Indices
    PROVE  /\ completed' = completed \cup {c} => ReorderBytes' <= ReorderBytes + Length(c)
           /\ completed' = completed \ {c} /\ c \in completed => ReorderBytes = ReorderBytes' + Length(c)
           /\ completed' = completed => ReorderBytes' = ReorderBytes
<1> DEFINE Id(S) == [d \in S |-> d]
<1>1. /\ IsFiniteSet(completed) /\ completed \subseteq Indices
      /\ ReorderBytes \in Nat /\ Length(c) \in Nat
  BY BuffersFinite, SinkAssumption DEF BuffersTyped, Length
<1>2. ReorderBytes = Bytes(Id(completed)) /\ ReorderBytes' = Bytes(Id(completed'))
  BY DEF ReorderBytes
<1>3. ASSUME NEW S \in SUBSET Indices, IsFiniteSet(S), c \in S
      PROVE  Bytes(Id(S)) = Bytes(Id(S \ {c})) + Length(c)
  <2> DEFINE f == Id(S)
             g == [d \in S \ {c} |-> f[d]]
  <2>1. f \in [S -> Indices] /\ g = Id(S \ {c}) /\ f[c] = c
    BY <1>3
  <2>2. Bytes(f) = Bytes(g) + Length(f[c])
    BY <1>3, <2>1, BytesAdd
  <2> HIDE DEF g
  <2> QED BY <2>1, <2>2
<1> HIDE DEF Id
<1>4. CASE completed' = completed
  BY <1>1, <1>2, <1>4
<1>5. CASE completed' = completed \ {c} /\ c \in completed
  BY <1>1, <1>2, <1>3, <1>5
<1>6. CASE completed' = completed \cup {c} /\ c \notin completed
  <2>1. completed' \in SUBSET Indices /\ IsFiniteSet(completed') /\ completed' \ {c} = completed
    BY <1>1, <1>6, FS_AddElement
  <2>2. Bytes(Id(completed')) = Bytes(Id(completed)) + Length(c)
    BY <1>3, <1>6, <2>1
  <2> QED BY <1>1, <1>2, <1>6, <2>2
<1>7. completed' = completed \cup {c} /\ c \in completed => completed' = completed
  OBVIOUS
<1> QED BY <1>1, <1>4, <1>5, <1>6, <1>7

\* The buffers of the pool and the sink, whatever happens.
LEMMA BuffersAreTyped ==
    ASSUME PoolInv, DeliveryInv
    PROVE  BuffersTyped
<1>1. Chunks = Indices
  BY StreamJobAssumption DEF Chunks, Indices
<1>2. \A w \in Fetching : cur[w] \in Chunks
  BY DEF Fetching, PoolInv, LoopsConsistent, Holding
<1> QED
  BY <1>1, <1>2 DEF BuffersTyped, PoolInv, PoolTypeOK, DeliveryInv, WriterInv, SinkTypeOK

\* What a worker's own steps do to its buffer: unless it begins a hedge, it does not
\* begin to fetch.
LEMMA LoopStepBuffers ==
    ASSUME PoolInv, NEW w \in Slots, LoopStep(w), hedging' = {}
    PROVE  Fetching' = Fetching /\ \A v \in Fetching : cur'[v] = cur[v]
<1>1. LoopTypeOK /\ LoopsConsistent
  BY DEF PoolInv, PoolTypeOK, LoopTypeOK
<1>2. ~BeginHedge(w)
  BY DEF BeginHedge
<1>3. \A v \in Slots : v # w => pc'[v] = pc[v] /\ cur'[v] = cur[v]
  BY <1>1, OthersKeep DEF Worker
<1>4. CASE Wait(w)
  BY <1>4 DEF Wait, poolVars, Fetching
<1>5. CASE Take(w)
  <2>1. pc[w] = "next" /\ pc' = [pc EXCEPT ![w] = "reserve"]
    BY <1>5, StreamJobAssumption DEF Take, AtNext, Goto
  <2> QED BY <1>1, <1>3, <2>1 DEF LoopTypeOK, Fetching
<1>6. CASE ~Wait(w) /\ ~Take(w)
  <2>1. /\ pc[w] \notin {"open", "deliver"}
        /\ \E to \in Labels \ {"open", "deliver"} : pc' = [pc EXCEPT ![w] = to]
    BY <1>2, <1>6
       DEF LoopStep, Leave, SkipHedge, NoHedgeSlot, NoMoreWork, Stopped, AtNext, AdmissionFailed,
           Retry, HedgeFailed, Abort, HedgeDelivered, Report, Acknowledge, Move, Goto, Restart,
           Exit, Labels, Ended, Holding
  <2> QED BY <1>1, <1>3, <2>1 DEF LoopTypeOK, Fetching
<1> QED BY <1>4, <1>5, <1>6

\* The worker pc and cur after a Move.
LEMMA MoveBuffers ==
    ASSUME PoolInv, NEW w \in Slots, NEW from, NEW to, Move(w, from, to)
    PROVE  /\ cur' = cur
           /\ from \notin {"open", "deliver"} /\ to \in {"open", "deliver"} =>
                w \notin Fetching /\ Fetching' = Fetching \cup {w}
           /\ from \in {"open", "deliver"} /\ to \in {"open", "deliver"} => Fetching' = Fetching
           /\ from \notin {"open", "deliver"} /\ to \notin {"open", "deliver"} => Fetching' = Fetching
           /\ from \in {"open", "deliver"} /\ to \notin {"open", "deliver"} =>
                w \in Fetching /\ Fetching' = Fetching \ {w}
BY DEF PoolInv, PoolTypeOK, Move, Goto, Fetching

\* Sums that fit still fit when the first part shrinks, or hands its share to the second.
LEMMA LessFits ==
    /\ \A a, b, x \in Nat : \A r \in Int : a + b <= r /\ x <= a => x + b <= r
    /\ \A a, b, x, y, n \in Nat : \A r \in Int :
        a + b <= r /\ a = x + n /\ y <= b + n => x + y <= r
OBVIOUS

LEMMA WorkerKeepsCovered ==
    ASSUME PoolInv, DeliveryInv, BuffersTyped', Covered, hedging' = {},
           NEW w \in Slots, StreamWorker(w)
    PROVE  Covered'
<1>1. BuffersTyped /\ FetchedBytes \in Nat /\ ReorderBytes \in Nat /\ reserved \in Int
      /\ BufferSize \in Nat
  BY BuffersAreTyped, BuffersFinite, SinkAssumption DEF BuffersTyped
<1>2. FetchedBytes' \in Nat /\ ReorderBytes' \in Nat
  <2>1. (BuffersTyped => FetchedBytes \in Nat /\ ReorderBytes \in Nat)'
    BY BuffersFinite, PTL
  <2> QED BY <2>1
<1>3. \A c \in Indices : Length(c) \in Nat
  BY SinkAssumption DEF Length
<1>4. ASSUME UNCHANGED <<completed, reserved>>, FetchedBytes' <= FetchedBytes
      PROVE  Covered'
  <2>1. ReorderBytes' = ReorderBytes
    BY <1>4 DEF ReorderBytes
  <2>2. FetchedBytes' + ReorderBytes' <= reserved /\ reserved <= BufferSize
    BY <1>1, <1>2, <1>4, <2>1, LessFits DEF Covered
  <2> QED BY <1>4, <2>2 DEF Covered
<1>5. ASSUME Fetching' = Fetching \ {w}, w \in Fetching, cur' = cur
      PROVE  FetchedBytes = FetchedBytes' + Length(cur[w]) /\ cur[w] \in Indices
  BY <1>1, <1>5, FetchEnds DEF BuffersTyped
<1>6. CASE LoopStep(w) /\ UNCHANGED sinkVars
  <2>1. FetchedBytes' = FetchedBytes
    BY <1>6, LoopStepBuffers, FetchGoesOn
  <2> QED BY <1>1, <1>4, <1>6, <2>1 DEF sinkVars
<1>7. CASE TryHedge(w)
  <2>1. /\ pc[w] = "top" /\ UNCHANGED sinkVars
        /\ pc' = [pc EXCEPT ![w] = "hedge"] \/ pc' = [pc EXCEPT ![w] = "next"]
        /\ cur' = cur \/ \E c \in Chunks : cur' = [cur EXCEPT ![w] = c]
    BY <1>7, HedgeIsTriedOrSkipped DEF SkipHedge, Move, ConsiderHedge, Goto, Hold
  <2>2. Fetching' = Fetching /\ \A v \in Fetching : cur'[v] = cur[v]
    BY <2>1 DEF PoolInv, PoolTypeOK, Fetching
  <2>3. FetchedBytes' = FetchedBytes
    BY <2>2, FetchGoesOn
  <2> QED BY <1>1, <1>4, <2>1, <2>3 DEF sinkVars
<1>8. CASE Reserved(w) /\ Reserve(cur[w])
  <2>1. cur' = cur /\ w \notin Fetching /\ Fetching' = Fetching \cup {w}
    BY <1>8, MoveBuffers DEF Reserved
  <2>2. FetchedBytes' = FetchedBytes + Length(cur[w])
    BY <1>1, <2>1, FetchBegins
  <2>3. cur[w] \in Indices
    BY <2>1 DEF BuffersTyped
  <2>4. /\ reserved' = reserved + Length(cur[w]) /\ reserved + Length(cur[w]) <= BufferSize
        /\ completed' = completed
    BY <1>8 DEF Reserve, Room
  <2>5. ReorderBytes' = ReorderBytes
    BY <2>4 DEF ReorderBytes
  <2> QED BY <1>1, <1>3, <2>2, <2>3, <2>4, <2>5 DEF Covered
<1>9. CASE ReserveRefused(w) /\ RefuseReserve(cur[w])
  <2>1. Fetching' = Fetching /\ cur' = cur
    BY <1>9, MoveBuffers DEF ReserveRefused
  <2>2. FetchedBytes' = FetchedBytes
    BY <2>1, FetchGoesOn
  <2> QED BY <1>1, <1>4, <1>9, <2>2 DEF RefuseReserve, sinkVars
<1>10. CASE Request(w)
  <2>1. UNCHANGED <<completed, reserved>>
    BY <1>10 DEF Request, sinkVars
  <2>2. CASE Fetched(w)
    <3>1. Fetching' = Fetching /\ cur' = cur
      BY <2>2, MoveBuffers DEF Fetched
    <3>2. FetchedBytes' = FetchedBytes
      BY <3>1, FetchGoesOn
    <3> QED BY <1>1, <1>4, <2>1, <3>2
  <2>3. CASE OpenFailed(w) \/ ReadFailed(w)
    <3>1. \E to \in {"unhedge", "admission", "retry"} : Move(w, "open", to)
      BY <2>3 DEF OpenFailed, ReadFailed
    <3>2. w \in Fetching /\ Fetching' = Fetching \ {w} /\ cur' = cur
      BY <3>1, MoveBuffers
    <3> QED BY <1>1, <1>2, <1>3, <1>4, <1>5, <2>1, <3>2
  <2> QED BY <1>10, <2>2, <2>3 DEF Request
<1>11. CASE Delivered(w) /\ Submit(cur[w])
  <2>1. \E to \in {"hedgeWon", "report"} : Move(w, "deliver", to)
    BY <1>11 DEF Delivered
  <2>2. w \in Fetching /\ Fetching' = Fetching \ {w} /\ cur' = cur
    BY <2>1, MoveBuffers
  <2>3. FetchedBytes = FetchedBytes' + Length(cur[w]) /\ cur[w] \in Indices
    BY <1>5, <2>2
  <2>4. completed' = completed \cup {cur[w]} /\ reserved' = reserved
    BY <1>11 DEF Submit
  <2>5. ReorderBytes' <= ReorderBytes + Length(cur[w])
    BY <1>1, <2>3, <2>4, ReorderChanges
  <2>6. Length(cur[w]) \in Nat
    BY <1>3, <2>3
  <2>7. FetchedBytes + ReorderBytes <= reserved /\ reserved <= BufferSize
    BY DEF Covered
  <2>8. FetchedBytes' + ReorderBytes' <= reserved
    <3> DEFINE a == FetchedBytes
               b == ReorderBytes
               x == FetchedBytes'
               y == ReorderBytes'
               n == Length(cur[w])
    <3>1. a \in Nat /\ b \in Nat /\ x \in Nat /\ y \in Nat /\ n \in Nat /\ reserved \in Int
      BY <1>1, <1>2, <2>6, Zenon
    <3>2. a = x + n /\ y <= b + n /\ a + b <= reserved
      BY <2>3, <2>5, <2>7, Zenon
    <3> HIDE DEF a, b, x, y, n
    <3>3. x + y <= reserved
      BY <3>1, <3>2
    <3> QED BY <3>3, Zenon DEF x, y
  <2> QED BY <2>4, <2>7, <2>8 DEF Covered
<1>12. CASE DeliveryFailed(w) /\ RefuseSubmit
  <2>1. w \in Fetching /\ Fetching' = Fetching \ {w} /\ cur' = cur
    BY <1>12, MoveBuffers DEF DeliveryFailed
  <2> QED BY <1>1, <1>2, <1>3, <1>4, <1>5, <1>12, <2>1 DEF RefuseSubmit, sinkVars
<1> QED
  BY <1>6, <1>7, <1>8, <1>9, <1>10, <1>11, <1>12 DEF StreamWorker, CallReserve, CallSubmit

LEMMA CoveredInit == StreamInit => Covered
<1> SUFFICES ASSUME StreamInit PROVE Covered
  OBVIOUS
<1>1. completed = {} /\ reserved = 0 /\ Fetching = {}
  BY DEF StreamInit, Init, Fresh, NewStreamSink, Fetching
<1>2. BytesOf([w \in Fetching |-> cur[w]]) = {} /\ BytesOf([c \in completed |-> c]) = {}
  BY <1>1 DEF BytesOf
<1>3. FetchedBytes = 0 /\ ReorderBytes = 0
  BY <1>2, FS_EmptySet DEF FetchedBytes, ReorderBytes, Bytes
<1>4. BufferSize \in Nat
  BY SinkAssumption
<1> QED BY <1>1, <1>3, <1>4 DEF Covered

\* Every other step leaves the workers' buffers alone, and only the writer touches what
\* waits or is reserved.
LEMMA CoveredStep ==
    ASSUME PoolInv, DeliveryInv, PoolInv', DeliveryInv', Covered, hedging' = {},
           [StreamNext]_streamVars
    PROVE  Covered'
<1>1. BuffersTyped /\ BuffersTyped'
  <2>1. BuffersTyped
    BY BuffersAreTyped
  <2>2. (PoolInv /\ DeliveryInv => BuffersTyped)'
    BY BuffersAreTyped, PTL
  <2> QED BY <2>1, <2>2
<1>2. ASSUME NEW w \in Slots, StreamWorker(w) PROVE Covered'
  BY <1>1, <1>2, WorkerKeepsCovered
<1>3. ASSUME UNCHANGED <<pc, cur, completed, reserved>> PROVE Covered'
  <2>1. Fetching' = Fetching /\ \A v \in Fetching : cur'[v] = cur[v]
    BY <1>3 DEF Fetching
  <2>2. FetchedBytes' = FetchedBytes /\ ReorderBytes' = ReorderBytes
    BY <1>3, <2>1, FetchGoesOn DEF ReorderBytes
  <2> QED BY <1>3, <2>2 DEF Covered
<1>4. CASE (Runner \/ Clock \/ Interrupt) /\ Beside
  <2>1. UNCHANGED poolVars
    BY <1>4 DEF Runner, Receive, Conclude, PropagateInterrupt, Clock, TickStep, CooldownStep,
                BackoffStep, SuppressionStep, WhileRunning, Interrupt
  <2> QED BY <1>3, <1>4, <2>1 DEF Beside, poolVars, sinkVars
<1>5. CASE StreamWriter
  <2>1. UNCHANGED <<pc, cur>>
    BY <1>5 DEF StreamWriter, vars, poolVars
  <2>2. CASE TakeNext(interrupted)
    <3>1. /\ nextIndex \in completed /\ completed' = completed \ {nextIndex}
          /\ reserved' = reserved - Length(nextIndex)
      BY <2>2 DEF TakeNext
    <3>2. nextIndex \in Indices /\ Length(nextIndex) \in Nat
      BY <1>1, <3>1, SinkAssumption DEF BuffersTyped, Length
    <3>3. ReorderBytes = ReorderBytes' + Length(nextIndex)
      BY <1>1, <3>1, <3>2, ReorderChanges
    <3>4. FetchedBytes' = FetchedBytes
      <4>1. Fetching' = Fetching /\ \A v \in Fetching : cur'[v] = cur[v]
        BY <2>1 DEF Fetching
      <4> QED BY <4>1, FetchGoesOn
    <3>5. /\ FetchedBytes \in Nat /\ ReorderBytes' \in Nat /\ reserved \in Int
          /\ BufferSize \in Nat
      <4>1. (BuffersTyped => ReorderBytes \in Nat)'
        BY BuffersFinite, PTL
      <4> QED BY <1>1, <4>1, BuffersFinite, SinkAssumption DEF BuffersTyped
    <3>6. FetchedBytes + (ReorderBytes' + Length(nextIndex)) <= reserved /\ reserved <= BufferSize
      BY <3>3 DEF Covered
    <3>7. \A a, b, n \in Nat : \A r \in Int : \A m \in Nat :
            a + (b + n) <= r /\ r <= m => a + b <= r - n /\ r - n <= m
      OBVIOUS
    <3>8. /\ FetchedBytes + ReorderBytes' <= reserved - Length(nextIndex)
          /\ reserved - Length(nextIndex) <= BufferSize
      BY <3>2, <3>5, <3>6, <3>7, Zenon
    <3> QED BY <3>1, <3>4, <3>8 DEF Covered
  <2>3. CASE UNCHANGED <<completed, reserved>>
    BY <1>3, <2>1, <2>3
  <2>4. TakeNext(interrupted) \/ UNCHANGED <<completed, reserved>>
    BY <1>5 DEF StreamWriter, WriterStep, Park, StartWait, WokenToStop, Write, GoRound,
                FinishClosed, WriteError, WriterMoves
  <2> QED BY <2>2, <2>3, <2>4
<1>6. CASE \/ WakeWriter \/ CloseSink \/ EndJob \/ JobOver
           \/ (\E w \in Slots : AskFrontier(w)) \/ UNCHANGED streamVars
  <2>1. UNCHANGED <<pc, cur, completed, reserved>>
    BY <1>6 DEF AskFrontier, WakeWriter, CloseSink, SignalContext, Close, EndJob, JobOver, streamVars,
                sinkVars, vars, poolVars
  <2> QED BY <1>3, <2>1
<1> QED
  BY <1>2, <1>4, <1>5, <1>6 DEF StreamNext

\* While no hedge has begun, whatever else happens, every byte that is being fetched or
\* waits for its turn is reserved, and no more is reserved than --buffer-size allows:
\* failed, repeated and late requests release nothing twice.
THEOREM ReservationsCover == StreamSpec /\ [](hedging = {}) => []Covered
<1>1. StreamInit => Covered
  BY CoveredInit
<1>2. /\ PoolInv /\ DeliveryInv /\ PoolInv' /\ DeliveryInv' /\ Covered
      /\ (hedging = {})' /\ [StreamNext]_streamVars
      => Covered'
  BY CoveredStep
<1> QED
  BY <1>1, <1>2, StreamPoolIsConsistent, DeliveryIsConsistent, PTL DEF StreamSpec

\* A job of no more chunks than must be complete before the first hedge has none.
LEMMA FewChunksNeverHedge ==
    ASSUME NeverHedges
    PROVE  StreamSpec => [](hedging = {})
<1> DEFINE Calm == hedging = {} /\ \A w \in Slots : pc[w] # "hedge"
<1>1. StreamInit => Calm
  BY DEF StreamInit, Init, Fresh
<1>2. PoolInv /\ InOrderInv /\ Calm /\ [StreamNext]_streamVars => Calm'
  <2> SUFFICES ASSUME PoolInv, InOrderInv, Calm, [Next]_vars PROVE Calm'
    BY StreamStepImplements
  <2>1. LoopTypeOK
    BY DEF PoolInv, PoolTypeOK, LoopTypeOK
  <2>2. ASSUME NEW w \in Slots, Worker(w) PROVE Calm'
    <3>1. ~\E c \in Chunks : ConsiderHedge(w, c, TRUE)
      <4> SUFFICES ASSUME NEW c \in Chunks, ConsiderHedge(w, c, TRUE) PROVE FALSE
        OBVIOUS
      <4>1. state[c] = "active" /\ completedCount >= HedgeMinDone
        BY DEF ConsiderHedge, HedgeEligible
      <4>2. JobComplete
        <5>1. completedCount \in Nat /\ NumChunks \in Nat /\ HedgeMinDone \in Nat
          BY ConstantsAssumption DEF PoolInv, PoolTypeOK, SchedTypeOK
        <5> QED BY <4>1, <5>1 DEF JobComplete, NeverHedges
      <4>3. InState("completed") = Chunks
        BY <4>2, CompleteMeansAll DEF InOrderInv
      <4> QED BY <4>1, <4>3 DEF InState
    <3>2. ~BeginHedge(w)
      BY DEF BeginHedge
    <3>3. hedging' = {}
      BY <2>2, <3>1, <3>2
         DEF Worker, LoopStep, OpenStep, RequestStep, SinkStep, Leave, SkipHedge, NoHedgeSlot,
             Take, Wait, NoMoreWork, Stopped, Reserved, ReserveRefused, Fetched, OpenFailed,
             ReadFailed, Delivered, DeliveryFailed, AdmissionFailed, Retry, HedgeFailed, Abort,
             HedgeDelivered, Report, Acknowledge, Move, poolVars
    <3>4. pc' = pc \/ \E to \in Labels \ {"hedge"} : pc' = [pc EXCEPT ![w] = to]
      BY <2>2, <3>1, <3>2
         DEF Worker, LoopStep, OpenStep, RequestStep, SinkStep, Leave, SkipHedge, NoHedgeSlot,
             Take, Wait, NoMoreWork, Stopped, Reserved, ReserveRefused, Fetched, OpenFailed,
             ReadFailed, Delivered, DeliveryFailed, AdmissionFailed, Retry, HedgeFailed, Abort,
             HedgeDelivered, Report, Acknowledge, Move, Goto, Restart, Exit, poolVars, Labels,
             Holding, Ended
    <3> QED BY <2>1, <3>3, <3>4 DEF LoopTypeOK
  <2>3. CASE ~\E w \in Slots : Worker(w)
    <3>1. UNCHANGED poolVars
      BY <2>3 DEF Next, Runner, Receive, Conclude, PropagateInterrupt, Clock, TickStep,
           CooldownStep, BackoffStep, SuppressionStep, WhileRunning, Interrupt, Pressure,
           Finished, vars
    <3> QED BY <3>1 DEF poolVars
  <2> QED BY <2>2, <2>3
<1>3. Calm => hedging = {}
  OBVIOUS
<1> HIDE DEF Calm
<1> QED
  BY <1>1, <1>2, <1>3, StreamPoolIsConsistent, PTL DEF StreamSpec

\* So a job too short to hedge keeps what it buffers within its reservations and the limit.
THEOREM MemoryStaysReserved == StreamSpec => []MemoryIsReserved
<1>1. CASE NeverHedges
  <2>1. StreamSpec => []Covered
    BY <1>1, FewChunksNeverHedge, ReservationsCover, PTL
  <2>2. Covered => MemoryIsReserved
    BY DEF MemoryIsReserved
  <2> QED BY <2>1, <2>2, PTL
<1>2. CASE ~NeverHedges
  <2>1. MemoryIsReserved
    BY <1>2 DEF MemoryIsReserved
  <2> QED BY <2>1, PTL
<1> QED BY <1>1, <1>2

\* What has been read and not submitted yet is part of what is being fetched.
LEMMA ReadIsFetched ==
    ASSUME IsFiniteSet(Fetching), [w \in Fetching |-> cur[w]] \in [Fetching -> Indices]
    PROVE  LET read == Bytes([w \in {v \in Slots : pc[v] = "deliver"} |-> cur[w]])
           IN  read \in Nat /\ read <= FetchedBytes
<1> DEFINE Read == {v \in Slots : pc[v] = "deliver"}
           f == [w \in Fetching |-> cur[w]]
           g == [w \in Read |-> cur[w]]
<1>1. Read \subseteq Fetching /\ \A w \in Read : g[w] = f[w]
  BY DEF Fetching
<1>2. IsFiniteSet(BytesOf(f))
  <2>1. IsFiniteSet(0 .. SplitSize - 1)
    <3>1. 0 \in Int /\ SplitSize - 1 \in Int
      BY SinkAssumption
    <3> QED BY <3>1, FS_Interval
  <2>2. IsFiniteSet(Fetching \X (0 .. SplitSize - 1))
    BY <2>1, FS_Product
  <2>3. BytesOf(f) \in SUBSET (Fetching \X (0 .. SplitSize - 1))
    BY DEF BytesOf
  <2> QED BY <2>2, <2>3, FS_Subset
<1>3. DOMAIN f = Fetching /\ DOMAIN g = Read
  OBVIOUS
<1> HIDE DEF f, g, Read
<1>4. BytesOf(g) \in SUBSET BytesOf(f)
  BY <1>1, <1>3 DEF BytesOf
<1>5. /\ Cardinality(BytesOf(g)) <= Cardinality(BytesOf(f))
      /\ Cardinality(BytesOf(g)) \in Nat
  BY <1>2, <1>4, FS_Subset, FS_CardinalityType
<1> QED BY <1>5 DEF Bytes, FetchedBytes, f, g, Read

\* Until a hedge begins, the payload that is in memory exceeds --buffer-size by at most the
\* one chunk that the writer is writing, whose reservation it has already released.
THEOREM OneChunkAboveTheLimit ==
    StreamSpec /\ [](hedging = {}) => []PayloadNearlyBounded
<1>1. PoolInv /\ DeliveryInv /\ Covered => PayloadNearlyBounded
  <2> SUFFICES ASSUME PoolInv, DeliveryInv, Covered PROVE PayloadNearlyBounded
    OBVIOUS
  <2> DEFINE Read == {v \in Slots : pc[v] = "deliver"}
             read == Bytes([w \in Read |-> cur[w]])
             writing == IF writer = "writing" THEN Length(nextIndex - 1) ELSE 0
  <2>1. /\ IsFiniteSet(Fetching) /\ [w \in Fetching |-> cur[w]] \in [Fetching -> Indices]
        /\ FetchedBytes \in Nat /\ ReorderBytes \in Nat /\ reserved \in Int
    BY BuffersAreTyped, BuffersFinite DEF BuffersTyped
  <2>2. /\ read \in Nat /\ read <= FetchedBytes
    BY <2>1, ReadIsFetched
  <2>3. writing \in Nat /\ writing <= SplitSize /\ SplitSize \in Nat /\ BufferSize \in Nat
    BY SinkAssumption DEF Length
  <2>4. FetchedBytes + ReorderBytes <= reserved /\ reserved <= BufferSize
    BY DEF Covered
  <2>5. PayloadBytes = ReorderBytes + read + writing
    BY DEF PayloadBytes
  <2> DEFINE a == FetchedBytes
             b == ReorderBytes
  <2>6. /\ a \in Nat /\ b \in Nat /\ a + b <= reserved /\ reserved \in Int /\ read <= a
        /\ PayloadBytes = b + read + writing
    BY <2>1, <2>2, <2>4, <2>5, Zenon
  <2> HIDE DEF read, writing, a, b
  <2>7. PayloadBytes <= BufferSize + SplitSize
    BY <2>2, <2>3, <2>4, <2>6
  <2> QED BY <2>7 DEF PayloadNearlyBounded
<1> QED
  BY <1>1, ReservationsCover, StreamPoolIsConsistent, DeliveryIsConsistent, PTL
===============================================================================
