---------------------------- MODULE FileJobProofs ----------------------------
(***************************************************************************)
(* The sidecar of a download to a file tells the truth, for any number of  *)
(* connections, chunks, runs and failures: it names no chunk whose bytes   *)
(* are not in the file, and while a job runs it names every chunk the      *)
(* scheduler counts as completed.                                          *)
(*                                                                         *)
(* DiskInv is the inductive invariant.  It follows a chunk from WriteAt    *)
(* through the bitmap in memory to the sidecar on disk and only then to    *)
(* the scheduler; a goroutine's place in WriteChunk says how far its chunk *)
(* has come.  It rests on the pool's invariants, which survive a restart   *)
(* because a restarted pool is a fresh one.                                *)
(***************************************************************************)
EXTENDS FileJob, WorkerPoolProofs

-----------------------------------------------------------------------------
(***************************************************************************)
(* A download to a file has no hedges.  Then every active chunk belongs to *)
(* exactly one goroutine, no chunk is requested too often, and a job fails *)
(* for a cause, for any number of connections, chunks, tries and failures, *)
(* and whatever set of chunks the job resumes from.                        *)
(*                                                                         *)
(* SoloInv is the inductive invariant beside PoolInv: a goroutine holds a  *)
(* chunk while it is in the part of its loop that works on one, and that   *)
(* chunk is active and was handed out.                                     *)
(***************************************************************************)

SoloHolding == Holding \ {"unhedge", "hedgeWon"}
Idling == {"top", "next", "returned", "broke"}

HoldsActive(w) ==
    IF cur[w] = NoChunk
      THEN pc[w] \in Idling
      ELSE pc[w] \in SoloHolding /\ state[cur[w]] = "active" /\ cur[w] < nextUndispatched

Exclusive == \A v, w \in Slots : v # w /\ cur[v] # NoChunk => cur[v] # cur[w]

Owned == \A c \in InState("active") : \E w \in Slots : cur[w] = c

SoloInv ==
    /\ hedging = {}
    /\ \A w \in Slots : HoldsActive(w)
    /\ Exclusive
    /\ Owned

Budget ==
    \A c \in Chunks :
        /\ attempts[c] <= MaxTries
        /\ c >= nextUndispatched => attempts[c] = 0
        /\ state[c] = "retryWait" => attempts[c] < MaxTries

Cause == interrupted \/ InState("failed") # {}

CauseInv ==
    /\ cancelled \/ firstErr \/ exitCode = "failure" => Cause
    /\ \A w \in Slots : pc[w] = "broke" => Cause
    /\ \A w \in Slots : pc[w] = "returned" => JobComplete
    /\ \A w \in received : pc[w] \in Ended

-----------------------------------------------------------------------------
(* Initial states *)

\* At the start nobody holds a chunk.
LEMMA SoloInit == Init => SoloInv /\ Budget /\ CauseInv
<1> SUFFICES ASSUME Init PROVE SoloInv /\ Budget /\ CauseInv
  OBVIOUS
<1>1. PICK done \in ResumeSets : New(done)
  BY DEF Init
<1>2. SoloInv
  BY <1>1 DEF Init, Fresh, New, SoloInv, HoldsActive, Idling, Exclusive, Owned, InState
<1>3. Budget
  BY <1>1, ConstantsAssumption DEF New, Budget
<1>4. CauseInv
  BY <1>1 DEF Init, Fresh, New, CauseInv
<1> QED BY <1>2, <1>3, <1>4

-----------------------------------------------------------------------------
(* What a goroutine does to its chunk *)

\* A goroutine moves within the part of the loop where it is.
LEMMA MoveKeepsSolo ==
    ASSUME PoolInv, SoloInv, NEW w \in Slots, NEW to,
           pc' = [pc EXCEPT ![w] = to] \/ (pc' = pc /\ to = pc[w]),
           to \in SoloHolding <=> pc[w] \in SoloHolding,
           to \in SoloHolding \cup Idling,
           UNCHANGED <<state, nextUndispatched, hedging, cur>>
    PROVE  SoloInv'
<1>1. pc \in [Slots -> Labels] /\ cur \in [Slots -> Chunks \cup {NoChunk}]
  BY DEF PoolInv, PoolTypeOK
<1>2. pc[w] \in SoloHolding => pc[w] \notin Idling
  BY DEF SoloHolding, Holding, Idling
<1>3. to \in SoloHolding => to \notin Idling
  BY DEF SoloHolding, Holding, Idling
<1>4. \A v \in Slots : HoldsActive(v)'
  BY <1>1, <1>2, <1>3 DEF SoloInv, HoldsActive
<1>5. Exclusive' /\ Owned'
  BY DEF SoloInv, Exclusive, Owned, InState
<1> QED BY <1>4, <1>5 DEF SoloInv

\* A goroutine takes a chunk that is not active.
LEMMA TakeKeepsSolo ==
    ASSUME PoolInv, SoloInv, NEW w \in Slots, NEW c \in Chunks,
           pc[w] = "next", pc' = [pc EXCEPT ![w] = "open"],
           cur' = [cur EXCEPT ![w] = c], hedging' = hedging,
           state[c] # "active" \/ c = nextUndispatched,
           state' = [state EXCEPT ![c] = "active"],
           nextUndispatched' \in Int, nextUndispatched' >= nextUndispatched,
           c < nextUndispatched'
    PROVE  SoloInv'
<1>1. /\ pc \in [Slots -> Labels] /\ cur \in [Slots -> Chunks \cup {NoChunk}]
      /\ state \in [Chunks -> ChunkStates] /\ nextUndispatched \in Int
      /\ NoChunk \notin Chunks /\ Chunks \subseteq Int
  BY ConstantsAssumption DEF PoolInv, PoolTypeOK, SchedTypeOK, Chunks, NoChunk
<1>2. cur[w] = NoChunk
  BY DEF SoloInv, HoldsActive, SoloHolding, Holding
<1>3. \A v \in Slots : cur[v] # c
  BY <1>1 DEF SoloInv, HoldsActive
<1>4. \A v \in Slots : HoldsActive(v)'
  <2> TAKE v \in Slots
  <2>1. CASE v = w
    BY <1>1, <2>1 DEF HoldsActive, SoloHolding, Holding
  <2>2. CASE v # w /\ cur[v] = NoChunk
    BY <1>1, <2>2 DEF SoloInv, HoldsActive
  <2>3. CASE v # w /\ cur[v] # NoChunk
    <3>1. cur'[v] = cur[v] /\ pc'[v] = pc[v] /\ cur[v] \in Chunks /\ cur[v] # c
      BY <1>1, <1>3, <2>3
    <3>2. pc[v] \in SoloHolding /\ state[cur[v]] = "active" /\ cur[v] < nextUndispatched
      BY <2>3 DEF SoloInv, HoldsActive
    <3>3. state'[cur[v]] = state[cur[v]]
      BY <1>1, <3>1
    <3>4. cur[v] < nextUndispatched'
      <4>1. cur[v] \in Int /\ nextUndispatched \in Int /\ nextUndispatched' \in Int
        BY <1>1, <3>1
      <4> QED BY <3>2, <4>1
    <3> QED BY <2>3, <3>1, <3>2, <3>3, <3>4 DEF HoldsActive
  <2> QED BY <2>1, <2>2, <2>3
<1>5. Exclusive'
  BY <1>1, <1>3 DEF SoloInv, Exclusive
<1>6. Owned'
  <2> SUFFICES ASSUME NEW d \in InState("active")' PROVE \E v \in Slots : cur'[v] = d
    BY DEF Owned
  <2>1. CASE d = c
    BY <1>1, <2>1
  <2>2. CASE d # c
    <3>1. d \in InState("active")
      BY <1>1, <2>2 DEF InState
    <3>2. PICK v \in Slots : cur[v] = d
      BY <3>1 DEF SoloInv, Owned
    <3>3. v # w
      BY <1>1, <1>2, <3>1, <3>2 DEF InState
    <3> QED BY <1>1, <3>2, <3>3
  <2> QED BY <2>1, <2>2
<1> QED BY <1>4, <1>5, <1>6 DEF SoloInv

\* A goroutine reports on its chunk and lets go of it.
LEMMA ReleaseKeepsSolo ==
    ASSUME PoolInv, SoloInv, NEW w \in Slots, NEW to \in Idling, NEW s \in ChunkStates,
           cur[w] \in Chunks, s # "active",
           pc' = [pc EXCEPT ![w] = to], cur' = [cur EXCEPT ![w] = NoChunk],
           hedging' = hedging, nextUndispatched' = nextUndispatched,
           state' = [state EXCEPT ![cur[w]] = s]
    PROVE  SoloInv'
<1>1. /\ pc \in [Slots -> Labels] /\ cur \in [Slots -> Chunks \cup {NoChunk}]
      /\ state \in [Chunks -> ChunkStates] /\ cur[w] # NoChunk
  BY ConstantsAssumption DEF PoolInv, PoolTypeOK, SchedTypeOK, Chunks, NoChunk
<1>2. \A v \in Slots : v # w => cur[v] # cur[w]
  BY <1>1 DEF SoloInv, Exclusive
<1>3. \A v \in Slots : HoldsActive(v)'
  BY <1>1, <1>2 DEF SoloInv, HoldsActive
<1>4. Exclusive'
  BY <1>1 DEF SoloInv, Exclusive
<1>5. Owned'
  <2> SUFFICES ASSUME NEW d \in InState("active")' PROVE \E v \in Slots : cur'[v] = d
    BY DEF Owned
  <2>1. d # cur[w] /\ d \in InState("active")
    BY <1>1 DEF InState
  <2>2. PICK v \in Slots : cur[v] = d
    BY <2>1 DEF SoloInv, Owned
  <2> QED BY <1>1, <2>1, <2>2
<1> QED BY <1>3, <1>4, <1>5 DEF SoloInv

-----------------------------------------------------------------------------
(* Every step *)

\* Without hedging the steps of a hedge are never taken.
LEMMA NoHedgeSteps ==
    ASSUME ~StreamMode, SoloInv, NEW w \in Slots
    PROVE  /\ ~BeginHedge(w) /\ ~NoHedgeSlot(w) /\ ~HedgeFailed(w) /\ ~HedgeDelivered(w)
           /\ \A c \in Chunks : ~ConsiderHedge(w, c, TRUE)
<1>1. pc[w] \in SoloHolding \cup Idling
  BY DEF SoloInv, HoldsActive
<1>2. pc[w] \notin {"hedge", "unhedge", "hedgeWon"}
  BY <1>1 DEF SoloHolding, Holding, Idling
<1> QED
  BY <1>2 DEF BeginHedge, NoHedgeSlot, HedgeFailed, HedgeDelivered, ConsiderHedge, HedgeEligible

\* Every step of a goroutine keeps ownership exclusive and tries bounded.
LEMMA WorkerKeepsSolo ==
    ASSUME ~StreamMode, PoolInv, SoloInv, Budget, NEW w \in Slots, Worker(w)
    PROVE  SoloInv' /\ Budget'
<1> USE DEF Goto, Hold, Restart, Exit, Move
<1>0. /\ pc \in [Slots -> Labels] /\ cur \in [Slots -> Chunks \cup {NoChunk}]
      /\ state \in [Chunks -> ChunkStates] /\ attempts \in [Chunks -> Nat]
      /\ nextUndispatched \in Nat /\ MaxTries \in Nat \ {0} /\ Chunks \subseteq Int
      /\ NumChunks \in Nat
  BY ConstantsAssumption DEF PoolInv, PoolTypeOK, SchedTypeOK, Chunks
<1>1. HoldsActive(w) /\ hedging = {}
  BY DEF SoloInv
<1>2. pc[w] = "next" => cur = [cur EXCEPT ![w] = NoChunk]
  BY <1>0, <1>1 DEF HoldsActive, SoloHolding, Holding
<1>3. pc[w] \in SoloHolding => cur[w] \in Chunks /\ state[cur[w]] = "active"
  BY <1>0, <1>1 DEF HoldsActive, SoloHolding, Holding, Idling
<1>4. ASSUME UNCHANGED <<state, attempts, nextUndispatched>> PROVE Budget'
  BY <1>4 DEF Budget
<1>5. CASE Leave(w) \/ SkipHedge(w) \/ Wait(w) \/ NoMoreWork(w) \/ Stopped(w)
  <2>1. UNCHANGED <<state, attempts, nextUndispatched, hedging>> /\ cur' = cur
    BY <1>2, <1>5 DEF Leave, SkipHedge, Wait, NoMoreWork, Stopped, AtNext, NextWait, NextComplete,
                      NextStopped, schedVars, chunkVars, countVars, poolVars
  <2>2. \E to \in Idling : pc' = [pc EXCEPT ![w] = to] \/ (pc' = pc /\ to = pc[w])
    BY <1>5 DEF Leave, SkipHedge, Wait, NoMoreWork, Stopped, AtNext, poolVars, Idling
  <2>3. pc[w] \in Idling
    BY <1>5 DEF Leave, SkipHedge, Wait, NoMoreWork, Stopped, AtNext, Idling
  <2>4. \A to \in Idling : to \notin SoloHolding
    BY DEF Idling, SoloHolding, Holding
  <2> QED BY <1>4, <2>1, <2>2, <2>3, <2>4, MoveKeepsSolo
<1>6. CASE AdmissionFailed(w) \/ Report(w) \/ RequestStep(w) \/ SinkStep(w)
  <2>1. UNCHANGED <<state, attempts, nextUndispatched, hedging, cur>>
    BY <1>6 DEF AdmissionFailed, Report, OnAdmissionFailure, OnWorkerSuccess, RequestStep, SinkStep,
                Reserved, ReserveRefused, Fetched, OpenFailed, ReadFailed, Delivered,
                DeliveryFailed, schedVars, chunkVars, countVars
  <2>2. \E to \in SoloHolding : pc' = [pc EXCEPT ![w] = to]
    BY <1>1, <1>6 DEF AdmissionFailed, Report, RequestStep, SinkStep, Reserved, ReserveRefused,
                Fetched, OpenFailed, ReadFailed, Delivered, DeliveryFailed, SoloHolding, Holding
  <2>3. pc[w] \in SoloHolding
    BY <1>6 DEF AdmissionFailed, Report, RequestStep, SinkStep, Reserved, ReserveRefused,
                Fetched, OpenFailed, ReadFailed, Delivered, DeliveryFailed, SoloHolding, Holding
  <2> QED BY <1>4, <2>1, <2>2, <2>3, MoveKeepsSolo
<1>7. CASE Take(w)
  <2>1. PICK c \in Chunks : NextChunk(c, slot[w]) /\ cur' = [cur EXCEPT ![w] = c]
    BY <1>7 DEF Take
  <2>2. /\ pc[w] = "next" /\ pc' = [pc EXCEPT ![w] = "open"] /\ hedging' = hedging
    BY <1>7 DEF Take, AtNext
  <2>3. /\ state' = [state EXCEPT ![c] = "active"]
        /\ attempts' = [attempts EXCEPT ![c] = @ + 1]
    BY <2>1 DEF NextChunk, Assign
  <2>4. /\ NextNew(c) => c = nextUndispatched /\ nextUndispatched' = c + 1
        /\ ~NextNew(c) => RipeRetry(c) /\ nextUndispatched' = nextUndispatched
    BY <2>1 DEF NextChunk, Assignable, NextNew
  <2>5. RipeRetry(c) => state[c] = "retryWait"
    BY DEF RipeRetry, PoolInv, PoolTypeOK, SchedTypeOK, InState
  <2>6. RipeRetry(c) => c < nextUndispatched
    BY <1>0, <2>5 DEF PoolInv, Dispatched
  <2>7. SoloInv'
    <3>1. state[c] # "active" \/ c = nextUndispatched
      BY <2>4, <2>5
    <3>2. nextUndispatched' \in Int /\ nextUndispatched' >= nextUndispatched
          /\ c < nextUndispatched'
      BY <1>0, <2>4, <2>6
    <3> QED BY <2>1, <2>2, <2>3, <3>1, <3>2, TakeKeepsSolo
  <2>8. Budget'
    BY <1>0, <2>3, <2>4, <2>5, <2>6 DEF Budget
  <2> QED BY <2>7, <2>8
<1>8. CASE Retry(w) \/ Abort(w) \/ Acknowledge(w)
  <2>1. pc[w] \in SoloHolding
    BY <1>8 DEF Retry, Abort, Acknowledge, SoloHolding, Holding
  <2>2. PICK s \in {"retryWait", "failed", "completed"} :
          /\ state' = [state EXCEPT ![cur[w]] = s]
          /\ s = "retryWait" => attempts[cur[w]] < MaxTries
    BY <1>3, <1>8, <2>1 DEF Retry, Abort, Acknowledge, MarkFailed, MarkComplete, RetryLater, GiveUp
  <2>3. \E to \in Idling : pc' = [pc EXCEPT ![w] = to]
    BY <1>8 DEF Retry, Abort, Acknowledge, Idling
  <2>4. /\ cur' = [cur EXCEPT ![w] = NoChunk]
        /\ UNCHANGED <<hedging, nextUndispatched, attempts>>
    BY <1>8 DEF Retry, Abort, Acknowledge, MarkFailed, MarkComplete
  <2>5. SoloInv'
    BY <1>3, <2>1, <2>2, <2>3, <2>4, ReleaseKeepsSolo DEF ChunkStates
  <2>6. Budget'
    BY <1>0, <1>3, <2>1, <2>2, <2>4 DEF Budget
  <2> QED BY <2>5, <2>6
<1> QED
  BY <1>5, <1>6, <1>7, <1>8, NoHedgeSteps DEF Worker, LoopStep, OpenStep
\* So does every step of the pool.
LEMMA SoloStep ==
    ASSUME ~StreamMode, PoolInv, SoloInv, Budget, [Next]_vars
    PROVE  SoloInv' /\ Budget'
<1>1. CASE \E w \in Slots : Worker(w)
  BY <1>1, WorkerKeepsSolo
<1>2. CASE ~\E w \in Slots : Worker(w)
  <2>1. UNCHANGED <<state, attempts, nextUndispatched, pc, cur, hedging>>
    BY <1>2 DEF Next, Runner, Receive, Conclude, PropagateInterrupt, Cancel, Clock, TickStep,
         CooldownStep, BackoffStep, SuppressionStep, WhileRunning, Tick, CooldownExpires,
         BackoffExpires, SuppressionExpires, Interrupt, ParentCancelled, Pressure, OnPressure,
         Finished, vars, schedVars, chunkVars, countVars, poolVars
  <2>2. SoloInv'
    BY <2>1 DEF SoloInv, HoldsActive, Exclusive, Owned, InState
  <2>3. Budget'
    BY <2>1 DEF Budget
  <2> QED BY <2>2, <2>3
<1> QED BY <1>1, <1>2

\* A goroutine whose loop has ended takes no step.
LEMMA EndedStays ==
    ASSUME PoolInv, NEW w \in Slots, Worker(w)
    PROVE  /\ pc[w] \notin Ended /\ received' = received
           /\ \A v \in Slots : v # w => pc'[v] = pc[v]
<1>1. pc[w] \notin Ended
  BY DEF Worker, LoopStep, OpenStep, RequestStep, SinkStep, Leave, SkipHedge, ConsiderHedge,
         BeginHedge, NoHedgeSlot, AtNext, Take, Wait, NoMoreWork, Stopped, Reserved, ReserveRefused,
         Fetched, OpenFailed, ReadFailed, Delivered, DeliveryFailed, AdmissionFailed, Retry,
         HedgeFailed, Abort, HedgeDelivered, Report, Acknowledge, Move, Ended
<1>2. received' = received /\ (\E to : pc' = [pc EXCEPT ![w] = to] \/ pc' = pc)
  BY DEF Worker, LoopStep, OpenStep, RequestStep, SinkStep, Leave, SkipHedge, ConsiderHedge,
         BeginHedge, NoHedgeSlot, Take, Wait, NoMoreWork, Stopped, Reserved, ReserveRefused,
         Fetched, OpenFailed, ReadFailed, Delivered, DeliveryFailed, AdmissionFailed, Retry,
         HedgeFailed, Abort, HedgeDelivered, Report, Acknowledge, Move, Goto, Restart, Exit,
         runVars, poolVars
<1>3. pc \in [Slots -> Labels]
  BY DEF PoolInv, PoolTypeOK
<1> QED BY <1>1, <1>2, <1>3

\* A goroutine that breaks off or returns has the cause for it.
LEMMA CauseAfterWorker ==
    ASSUME PoolInv, CauseInv, NEW w \in Slots, Worker(w),
           UNCHANGED <<interrupted, firstErr, exitCode>>,
           Cause => Cause', JobComplete => JobComplete',
           cancelled' => cancelled \/ Cause',
           pc'[w] = "broke" => Cause', pc'[w] = "returned" => JobComplete'
    PROVE  CauseInv'
<1>1. cancelled' \/ firstErr' \/ exitCode' = "failure" => Cause'
  BY DEF CauseInv
<1>2. \A v \in Slots : pc'[v] = "broke" => Cause'
  BY EndedStays DEF CauseInv
<1>3. \A v \in Slots : pc'[v] = "returned" => JobComplete'
  BY EndedStays DEF CauseInv
<1>4. \A v \in received' : pc'[v] \in Ended
  <2>1. received' = received /\ w \notin received /\ received \subseteq Slots
    BY EndedStays DEF CauseInv, PoolInv, PoolTypeOK
  <2> QED BY <2>1, EndedStays DEF CauseInv
<1> QED BY <1>1, <1>2, <1>3, <1>4 DEF CauseInv

\* A failure never loses its cause: no chunk leaves the state "failed", and the counter
\* of completed chunks never falls.
\* Every step of the pool keeps the causes of what has ended.
LEMMA CauseStep ==
    ASSUME ~StreamMode, PoolInv, SoloInv, CauseInv, [Next]_vars
    PROVE  CauseInv'
<1> USE DEF Goto, Hold, Restart, Exit, Move
<1>0. /\ pc \in [Slots -> Labels] /\ cur \in [Slots -> Chunks \cup {NoChunk}]
      /\ state \in [Chunks -> ChunkStates] /\ completedCount \in Nat /\ NumChunks \in Nat
      /\ exitCode \in {"none", "success", "failure"}
  BY ConstantsAssumption DEF PoolInv, PoolTypeOK, SchedTypeOK
<1>1. ASSUME \A c \in Chunks : state[c] = "failed" => state'[c] = "failed",
             interrupted => interrupted'
      PROVE  Cause => Cause'
  BY <1>1 DEF Cause, InState
<1>2. ASSUME NEW w \in Slots, Worker(w) PROVE CauseInv'
  <2>1. UNCHANGED <<interrupted, firstErr, exitCode>>
    BY <1>2 DEF Worker, LoopStep, OpenStep, RequestStep, SinkStep, Leave, SkipHedge, ConsiderHedge,
         BeginHedge, NoHedgeSlot, Take, Wait, NoMoreWork, Stopped, Reserved, ReserveRefused,
         Fetched, OpenFailed, ReadFailed, Delivered, DeliveryFailed, AdmissionFailed, Retry,
         HedgeFailed, Abort, HedgeDelivered, Report, Acknowledge, runVars
  <2>2. CASE Take(w)
    <3>1. PICK c \in Chunks : NextChunk(c, slot[w])
      BY <2>2 DEF Take
    <3>2. ~cancelled /\ InState("failed") = {} /\ cancelled' = cancelled
          /\ completedCount' = completedCount
      BY <3>1 DEF NextChunk, fatalErr
    <3>3. pc' = [pc EXCEPT ![w] = IF StreamMode THEN "reserve" ELSE "open"]
      BY <2>2 DEF Take
    <3>4. interrupted => Cause'
      BY <2>1 DEF Cause
    <3>5. Cause <=> interrupted
      BY <3>2 DEF Cause
    <3>6. pc'[w] \notin {"broke", "returned"}
      BY <1>0, <3>3
    <3> QED BY <1>2, <2>1, <3>2, <3>4, <3>5, <3>6, CauseAfterWorker DEF JobComplete
  <2>3. CASE Retry(w) \/ Abort(w) \/ Acknowledge(w)
    <3>1. pc[w] \in SoloHolding /\ HoldsActive(w)
      BY <2>3 DEF Retry, Abort, Acknowledge, SoloHolding, Holding, SoloInv
    <3>2. cur[w] \in Chunks /\ state[cur[w]] = "active"
      BY <1>0, <3>1 DEF HoldsActive, SoloHolding, Holding, Idling
    <3>3. PICK s \in {"retryWait", "failed", "completed"} :
            /\ state' = [state EXCEPT ![cur[w]] = s]
            /\ s # "failed" => cancelled' = cancelled
            /\ Abort(w) => s = "failed"
      BY <2>3, <3>2 DEF Retry, Abort, Acknowledge, MarkFailed, MarkComplete, RetryLater, GiveUp
    <3>4. Cause => Cause'
      BY <1>0, <1>1, <2>1, <3>2, <3>3
    <3>5. s = "failed" => Cause'
      BY <1>0, <3>2, <3>3 DEF Cause, InState
    <3>6. completedCount' \in {completedCount, completedCount + 1}
      BY <2>3, <3>2 DEF Retry, Abort, Acknowledge, MarkFailed, MarkComplete
    <3>7. JobComplete => JobComplete'
      BY <1>0, <3>6 DEF JobComplete
    <3>8. /\ pc' = [pc EXCEPT ![w] = IF Abort(w) THEN "broke" ELSE "top"]
      BY <2>3 DEF Retry, Abort, Acknowledge
    <3>9. pc'[w] # "returned" /\ (pc'[w] = "broke" => Abort(w))
      BY <1>0, <3>8
    <3> QED BY <1>2, <2>1, <3>3, <3>4, <3>5, <3>7, <3>9, CauseAfterWorker
  <2>4. CASE Leave(w) \/ Stopped(w) \/ NoMoreWork(w)
    <3>1. UNCHANGED <<state, completedCount, cancelled>>
      BY <2>4 DEF Leave, Stopped, NoMoreWork, NextStopped, NextComplete, schedVars, chunkVars,
                  countVars
    <3>2. Cause' <=> Cause
      BY <2>1, <3>1 DEF Cause, InState
    <3>3. \/ pc' = [pc EXCEPT ![w] = "broke"] /\ (interrupted \/ cancelled \/ fatalErr)
          \/ pc' = [pc EXCEPT ![w] = "returned"] /\ JobComplete
      BY <2>4 DEF Leave, Stopped, NoMoreWork, NextStopped, NextComplete
    <3>4. interrupted \/ fatalErr => Cause
      BY DEF Cause, fatalErr
    <3>5. cancelled => Cause
      BY DEF CauseInv
    <3>6. /\ pc'[w] = "broke" => interrupted \/ cancelled \/ fatalErr
          /\ pc'[w] = "returned" => JobComplete
      BY <1>0, <3>3
    <3> QED BY <1>2, <2>1, <3>1, <3>2, <3>4, <3>5, <3>6, CauseAfterWorker DEF JobComplete
  <2>5. CASE SkipHedge(w) \/ Wait(w) \/ AdmissionFailed(w) \/ Report(w) \/ RequestStep(w)
             \/ SinkStep(w)
    <3>1. UNCHANGED <<state, completedCount, cancelled>>
      BY <2>5 DEF SkipHedge, Wait, NextWait, AdmissionFailed, OnAdmissionFailure, Report,
                  OnWorkerSuccess, RequestStep, SinkStep, Reserved, ReserveRefused, Fetched,
                  OpenFailed, ReadFailed, Delivered, DeliveryFailed, schedVars, chunkVars, countVars
    <3>2. Cause' <=> Cause
      BY <2>1, <3>1 DEF Cause, InState
    <3>3. PICK to \in {"next"} \cup Holding : pc' = [pc EXCEPT ![w] = to] \/ pc' = pc
      BY <2>5 DEF SkipHedge, Wait, AdmissionFailed, Report, RequestStep, SinkStep, Reserved,
                  ReserveRefused, Fetched, OpenFailed, ReadFailed, Delivered, DeliveryFailed,
                  poolVars, Holding
    <3>4. to \notin {"broke", "returned"}
      BY <3>3 DEF Holding
    <3>5. \/ pc'[w] \notin {"broke", "returned"}
          \/ pc' = pc
      BY <1>0, <3>3, <3>4
    <3> QED BY <1>2, <2>1, <3>1, <3>2, <3>5, CauseAfterWorker DEF CauseInv, JobComplete
  <2> QED
    BY <1>2, <2>2, <2>3, <2>4, <2>5, NoHedgeSteps DEF Worker, LoopStep, OpenStep
<1>3. CASE Conclude
  <2>1. UNCHANGED <<state, completedCount, cancelled, pc, interrupted, firstErr, received>>
    BY <1>3 DEF Conclude, schedVars, chunkVars, countVars, poolVars
  <2>2. received = Slots /\ exitCode' = IF firstErr \/ ~JobComplete THEN "failure" ELSE "success"
    BY <1>3 DEF Conclude
  <2>3. ~JobComplete => Cause
    <3>1. 0 \in Slots
      BY ConstantsAssumption DEF Slots
    <3>2. pc[0] \in Ended
      BY <2>2, <3>1 DEF CauseInv
    <3> QED BY <3>1, <3>2 DEF CauseInv, Ended
  <2>4. Cause' <=> Cause
    BY <2>1 DEF Cause, InState
  <2> QED BY <2>1, <2>2, <2>3, <2>4 DEF CauseInv, JobComplete
<1>4. ASSUME NEW w \in Slots, Receive(w) PROVE CauseInv'
  <2>1. UNCHANGED <<state, completedCount, pc, interrupted, exitCode>>
        /\ received' = received \cup {w} /\ pc[w] \in Ended
    BY <1>4 DEF Receive, Cancel, schedVars, chunkVars, countVars, poolVars
  <2>2. (cancelled' = cancelled /\ firstErr' = firstErr) \/ pc[w] = "broke"
    BY <1>4 DEF Receive, schedVars
  <2>3. Cause' <=> Cause
    BY <2>1 DEF Cause, InState
  <2> QED BY <2>1, <2>2, <2>3 DEF CauseInv, JobComplete
<1>5. CASE Interrupt \/ PropagateInterrupt
  <2>1. UNCHANGED <<state, completedCount, pc, exitCode, firstErr, received>> /\ interrupted'
    BY <1>5 DEF Interrupt, ParentCancelled, PropagateInterrupt, Cancel, chunkVars, countVars,
                poolVars, runVars
  <2> QED BY <2>1 DEF CauseInv, Cause, JobComplete
<1>6. CASE Clock \/ Pressure \/ Finished \/ UNCHANGED vars
  <2>1. UNCHANGED <<state, completedCount, cancelled, pc, interrupted, firstErr, received, exitCode>>
    BY <1>6 DEF Clock, TickStep, CooldownStep, BackoffStep, SuppressionStep, WhileRunning, Tick,
         CooldownExpires, BackoffExpires, SuppressionExpires, Pressure, OnPressure, Finished, vars,
         schedVars, chunkVars, countVars, poolVars, runVars
  <2> QED BY <2>1 DEF CauseInv, Cause, InState, JobComplete
<1> QED BY <1>2, <1>3, <1>4, <1>5, <1>6 DEF Next, Runner

-----------------------------------------------------------------------------
(* Theorems *)

\* The invariant of a download without hedges.
THEOREM SoloIsConsistent ==
    ASSUME ~StreamMode
    PROVE  Spec => [](PoolInv /\ SoloInv /\ Budget /\ CauseInv)
<1>1. Init => PoolInv /\ SoloInv /\ Budget /\ CauseInv
  BY PoolInit, SoloInit
<1>2. PoolInv /\ SoloInv /\ Budget /\ CauseInv /\ [Next]_vars
        => (PoolInv /\ SoloInv /\ Budget /\ CauseInv)'
  BY PoolStep, SoloStep, CauseStep
<1> QED BY <1>1, <1>2, PTL DEF Spec

\* No chunk is downloaded by two goroutines at once: tryAssign hands out a chunk only when
\* nobody works on it, retries and failures that are reported late included.
THEOREM OneDownloadAtATime == Spec => []OneGoroutinePerChunk
<1>1. SoloInv => OneGoroutinePerChunk
  BY DEF SoloInv, Exclusive, OneGoroutinePerChunk
<1>2. CASE ~StreamMode
  BY <1>1, <1>2, SoloIsConsistent, PTL
<1>3. CASE StreamMode
  <2>1. OneGoroutinePerChunk
    BY <1>3 DEF OneGoroutinePerChunk
  <2> QED BY <2>1, PTL
<1> QED BY <1>2, <1>3

\* A download to a file requests no chunk more than MaxTries times, whatever fails.
THEOREM RetriesAreBounded == Spec => []RetryBudget
<1>1. Budget => RetryBudget
  BY DEF Budget, RetryBudget
<1>2. CASE ~StreamMode
  BY <1>1, <1>2, SoloIsConsistent, PTL
<1>3. CASE StreamMode
  <2>1. RetryBudget
    BY <1>3 DEF RetryBudget
  <2> QED BY <2>1, PTL
<1> QED BY <1>2, <1>3

\* Of a download to a file, runWorkers reports a failure only for an interrupt or a chunk
\* that was given up, never because the goroutines end in an unlucky order.
THEOREM FailuresHaveCauses == Spec => []FailureHasCause
<1>1. CauseInv => FailureHasCause
  BY DEF CauseInv, Cause, FailureHasCause
<1>2. CASE ~StreamMode
  BY <1>1, <1>2, SoloIsConsistent, PTL
<1>3. CASE StreamMode
  <2>1. FailureHasCause
    BY <1>3 DEF FailureHasCause
  <2> QED BY <2>1, PTL
<1> QED BY <1>2, <1>3

\* With at most 35 tries, 20 by default, every retry of a download to a file waits between
\* one and 30 seconds: the shift in retryBackoff does not overflow.
THEOREM BackoffStaysInRange ==
    ASSUME ~StreamMode, MaxTries <= 35
    PROVE  Spec => []RetriesWait
<1>1. PoolInv /\ Budget => RetriesWait
  <2> SUFFICES ASSUME PoolInv, Budget, NEW c \in Chunks, state[c] = "retryWait"
               PROVE  RetryBackoff(attempts[c]) \in 1 .. 30
    BY DEF RetriesWait
  <2>1. attempts[c] \in Nat /\ attempts[c] <= 34
    BY ConstantsAssumption DEF PoolInv, PoolTypeOK, SchedTypeOK, Budget
  <2> DEFINE n == IF attempts[c] <= 0 THEN 1 ELSE attempts[c]
  <2>2. n \in 1 .. 34
    BY <2>1
  <2>3. RetryBackoff(attempts[c]) = IF n <= 5 THEN <<1, 2, 4, 8, 16>>[n] ELSE 30
    BY <2>1, <2>2 DEF RetryBackoff
  <2>4. n <= 5 => n = 1 \/ n = 2 \/ n = 3 \/ n = 4 \/ n = 5
    BY <2>2
  <2> QED BY <2>2, <2>3, <2>4
<1> QED BY <1>1, SoloIsConsistent, PTL

-----------------------------------------------------------------------------
(* The file and its sidecar *)

DiskTypeOK ==
    /\ written \subseteq Chunks
    /\ sidecarBits \subseteq Chunks
    /\ bitmap \subseteq Chunks
    /\ io \in [Slots -> IoLabels]
    /\ resumed \subseteq Chunks

\* How far the chunk of a goroutine inside WriteChunk, or past it, has come.
InWriteChunk ==
    \A w \in Slots :
        /\ io[w] # "write" => pc[w] = "deliver" /\ cur[w] \in written
        /\ io[w] = "publish" => cur[w] \in bitmap

Recorded ==
    /\ sidecarExists
    /\ sidecarBits \subseteq bitmap
    /\ InState("completed") \subseteq sidecarBits
    /\ \A w \in Slots : pc[w] \in {"report", "ack"} => cur[w] \in sidecarBits

DiskInv ==
    /\ DiskTypeOK
    /\ InWriteChunk
    /\ sidecarBits \subseteq written /\ bitmap \subseteq written
    /\ phase = "create" => resumed \subseteq written
    /\ phase \in {"load", "create"} => \A w \in Slots : io[w] = "write"
    /\ phase = "download" => Recorded

FilePoolInv == PoolInv /\ SoloInv /\ Budget /\ CauseInv

-----------------------------------------------------------------------------
(* The pool of a process that is started again *)

FreshPool == (\E done \in SUBSET Chunks : New(done)) /\ Fresh

\* A pool just created satisfies the pool's invariants ...
LEMMA FreshIsConsistent == FreshPool => FilePoolInv
<1> SUFFICES ASSUME FreshPool PROVE FilePoolInv
  OBVIOUS
<1>1. PICK done \in SUBSET Chunks : New(done)
  BY DEF FreshPool
<1>2. SchedInv /\ Surplus = 0
  BY <1>1, NewCounts
<1>3. PoolInv
  BY <1>2, FS_EmptySet DEF SchedInv, PoolInv, PoolTypeOK, FreshPool, Fresh, Labels, LoopsConsistent,
                           Holding
<1>4. SoloInv
  BY <1>1 DEF FreshPool, Fresh, New, SoloInv, HoldsActive, Idling, Exclusive, Owned, InState
<1>5. Budget
  BY <1>1, ConstantsAssumption DEF New, Budget
<1>6. CauseInv
  BY <1>1 DEF FreshPool, Fresh, New, CauseInv
<1> QED BY <1>3, <1>4, <1>5, <1>6 DEF FilePoolInv

\* ... and so does one that is created for a further run.
LEMMA RenewedIsFresh ==
    ASSUME NEW done \in SUBSET Chunks, Renew(done), Refresh
    PROVE  FreshPool'
BY DEF Renew, Refresh, FreshPool, New, Fresh

\* While the workers run, every step of the job is one of the pool's ...
LEMMA WorkerStepOfPool == ASSUME NEW w \in Slots, FileWorker(w) PROVE [Next]_vars
<1>1. CASE LoopStep(w)
  BY <1>1 DEF Next, Worker
<1>2. CASE Request(w) \/ Publish(w) \/ WriteChunkFails(w)
  BY <1>2 DEF Request, Publish, WriteChunkFails, Next, Worker, OpenStep, RequestStep, SinkStep
<1>3. CASE WriteAt(w) \/ MarkBit(w)
  BY <1>3 DEF WriteAt, MarkBit
<1> QED BY <1>1, <1>2, <1>3 DEF FileWorker

\* ... and so is every other step of that phase.
LEMMA DownloadStepOfPool ==
    ASSUME phase = "download", phase' = "download", [FileNext]_fileVars
    PROVE  [Next]_vars /\ resumed' = resumed
<1>1. \/ \E w \in Slots : FileWorker(w)
      \/ Downloading /\ (Runner \/ Clock \/ Interrupt) /\ UNCHANGED <<diskVars, jobVars>>
      \/ UNCHANGED fileVars
  BY DEF FileNext, Load, Create, CreateFails, WorkersDone, Sync, Remove, FinalizeFails, Kill, RunAgain,
         Idle, Over, Alive
<1>2. ASSUME NEW w \in Slots, FileWorker(w) PROVE [Next]_vars /\ resumed' = resumed
  BY <1>2, WorkerStepOfPool DEF FileWorker, StillDownloading
<1>3. CASE (Runner \/ Clock \/ Interrupt) /\ UNCHANGED <<diskVars, jobVars>>
  BY <1>3 DEF Next, jobVars
<1>4. CASE UNCHANGED fileVars
  BY <1>4 DEF fileVars, jobVars
<1> QED BY <1>1, <1>2, <1>3, <1>4

\* ... and every other one leaves the pool alone or starts it afresh.
LEMMA FileStepOfPool ==
    ASSUME DiskTypeOK, [FileNext]_fileVars
    PROVE  [Next]_vars \/ FreshPool'
<1>1. CASE Create
  BY <1>1, RenewedIsFresh DEF Create, DiskTypeOK
<1>2. CASE Kill \/ RunAgain
  BY <1>2, RenewedIsFresh DEF Kill, RunAgain, Forget
<1>3. ASSUME NEW w \in Slots, FileWorker(w) PROVE [Next]_vars
  BY <1>3, WorkerStepOfPool
<1>4. CASE Runner \/ Clock \/ Interrupt
  BY <1>4 DEF Next
<1>5. CASE Load \/ CreateFails \/ WorkersDone \/ Sync \/ Remove \/ FinalizeFails \/ Idle
           \/ UNCHANGED fileVars
  BY <1>5 DEF Load, CreateFails, WorkersDone, Sync, Remove, FinalizeFails, Idle, fileVars
<1> QED BY <1>1, <1>2, <1>3, <1>4, <1>5 DEF FileNext

\* The pool's invariants survive every step of a job, and the next run.
LEMMA FilePoolStep == FilePoolInv /\ DiskTypeOK /\ [FileNext]_fileVars => FilePoolInv'
<1>1. ~StreamMode
  BY FileJobAssumption
<1>2. FilePoolInv /\ [Next]_vars => FilePoolInv'
  BY <1>1, PoolStep, SoloStep, CauseStep DEF FilePoolInv
<1>3. FreshPool' => FilePoolInv'
  BY FreshIsConsistent, PTL
<1> QED BY <1>2, <1>3, FileStepOfPool

-----------------------------------------------------------------------------
(* A chunk on its way to the sidecar *)

\* A first run finds an empty disk.
LEMMA DiskInit == FileInit => DiskInv
BY DEF FileInit, DiskInv, DiskTypeOK, InWriteChunk, IoLabels

\* A step of a goroutine that does not touch the disk: it holds no chunk inside
\* WriteChunk, and does not pass one to the scheduler that is not recorded.
LEMMA LoopKeepsDisk ==
    ASSUME FilePoolInv, DiskInv, phase = "download", NEW w \in Slots,
           LoopStep(w) \/ OpenFailed(w) \/ ReadFailed(w) \/ Fetched(w),
           UNCHANGED <<diskVars, jobVars>>
    PROVE  DiskInv'
<1> USE DEF Goto, Hold, Restart, Exit, Move
<1>0. /\ pc \in [Slots -> Labels] /\ cur \in [Slots -> Chunks \cup {NoChunk}]
      /\ state \in [Chunks -> ChunkStates] /\ SoloInv /\ HoldsActive(w) /\ hedging = {}
      /\ ~StreamMode
  BY FileJobAssumption DEF FilePoolInv, SoloInv, PoolInv, PoolTypeOK, SchedTypeOK
<1>1. UNCHANGED <<written, sidecarExists, sidecarBits, bitmap, io, resumed, phase>>
  BY DEF diskVars, jobVars
<1>2. ~BeginHedge(w) /\ ~NoHedgeSlot(w) /\ ~HedgeFailed(w) /\ ~HedgeDelivered(w)
  BY <1>0, NoHedgeSteps
<1>3. pc[w] # "deliver"
  BY <1>2 DEF LoopStep, Leave, SkipHedge, AtNext, Take, Wait, NoMoreWork, Stopped, AdmissionFailed,
              Retry, Abort, Report, Acknowledge, OpenFailed, ReadFailed, Fetched
<1>4. \A v \in Slots : v # w => pc'[v] = pc[v] /\ cur'[v] = cur[v]
  <2>1. /\ \E to : pc' = [pc EXCEPT ![w] = to] \/ pc' = pc
        /\ \E c : cur' = [cur EXCEPT ![w] = c] \/ cur' = cur
    BY <1>2 DEF LoopStep, Leave, SkipHedge, AtNext, Take, Wait, NoMoreWork, Stopped, AdmissionFailed,
              Retry, Abort, Report, Acknowledge, OpenFailed, ReadFailed, Fetched, poolVars
  <2> QED BY <1>0, <2>1
<1>5. InWriteChunk'
  BY <1>1, <1>3, <1>4 DEF DiskInv, InWriteChunk
<1>6. pc'[w] \in {"report", "ack"} => pc[w] = "report" /\ cur' = cur
  BY <1>0, <1>2 DEF LoopStep, Leave, SkipHedge, AtNext, Take, Wait, NoMoreWork, Stopped,
              AdmissionFailed, Retry, Abort, Report, Acknowledge, OpenFailed, ReadFailed, Fetched,
              poolVars
<1>7. \A v \in Slots : pc'[v] \in {"report", "ack"} => cur'[v] \in sidecarBits'
  BY <1>1, <1>4, <1>6 DEF DiskInv, Recorded
<1>8. InState("completed")' \subseteq sidecarBits'
  <2>1. CASE Acknowledge(w)
    <3>1. /\ cur[w] \in Chunks
          /\ state' = [state EXCEPT ![cur[w]] = "completed"] \/ state' = state
      BY <1>0, <2>1 DEF Acknowledge, MarkComplete, HoldsActive, Idling
    <3>2. cur[w] \in sidecarBits
      BY <2>1 DEF Acknowledge, DiskInv, Recorded
    <3> QED BY <1>0, <1>1, <3>1, <3>2 DEF DiskInv, Recorded, InState
  <2>2. CASE ~Acknowledge(w)
    <3>1. \A c \in Chunks : state'[c] = "completed" => state[c] = "completed"
      BY <1>0, <1>2, <2>2 DEF LoopStep, Leave, SkipHedge, Take, NextChunk, Assign, Wait, NextWait,
         NoMoreWork, NextComplete, Stopped, NextStopped, AdmissionFailed, OnAdmissionFailure, Retry,
         Abort, MarkFailed, RetryLater, GiveUp, Report, OnWorkerSuccess, OpenFailed, ReadFailed,
         Fetched, schedVars, chunkVars, ChunkStates
    <3> QED BY <1>1, <3>1 DEF DiskInv, Recorded, InState
  <2> QED BY <2>1, <2>2
<1> QED
  BY <1>1, <1>5, <1>7, <1>8 DEF DiskInv, DiskTypeOK, Recorded

\* The steps inside WriteChunk.
LEMMA WriteChunkKeepsDisk ==
    ASSUME FilePoolInv, DiskInv, phase = "download", NEW w \in Slots,
           WriteAt(w) \/ MarkBit(w) \/ Publish(w) \/ WriteChunkFails(w),
           StillDownloading
    PROVE  DiskInv'
<1>0. /\ pc \in [Slots -> Labels] /\ cur \in [Slots -> Chunks \cup {NoChunk}]
      /\ HoldsActive(w) /\ hedging = {} /\ io \in [Slots -> IoLabels]
  BY DEF FilePoolInv, SoloInv, PoolInv, PoolTypeOK, DiskInv, DiskTypeOK
<1>1. pc[w] = "deliver" => cur[w] \in Chunks
  BY <1>0 DEF HoldsActive, Idling
<1>2. io[w] # "write" => pc[w] = "deliver" /\ cur[w] \in Chunks /\ cur[w] \in written
  BY <1>1 DEF DiskInv, InWriteChunk
<1>3. UNCHANGED <<phase, resumed>>
  BY DEF StillDownloading
<1>4. CASE WriteAt(w)
  <2>1. UNCHANGED <<pc, cur, state, sidecarExists, sidecarBits, bitmap>>
        /\ written' = written \cup {cur[w]} /\ io' = [io EXCEPT ![w] = "mark"]
        /\ pc[w] = "deliver" /\ io[w] = "write"
    BY <1>4 DEF WriteAt, vars, schedVars, chunkVars, poolVars
  <2>2. DiskTypeOK' /\ InWriteChunk'
    BY <1>0, <1>1, <1>3, <2>1 DEF DiskInv, DiskTypeOK, InWriteChunk, IoLabels
  <2> QED BY <1>3, <2>1, <2>2 DEF DiskInv, Recorded, InState
<1>5. CASE MarkBit(w)
  <2>1. UNCHANGED <<pc, cur, state, written, sidecarExists, sidecarBits>>
        /\ bitmap' = bitmap \cup {cur[w]} /\ io' = [io EXCEPT ![w] = "publish"]
        /\ io[w] = "mark"
    BY <1>5 DEF MarkBit, vars, schedVars, chunkVars, poolVars, diskVars
  <2>2. DiskTypeOK' /\ InWriteChunk'
    BY <1>0, <1>2, <1>3, <2>1 DEF DiskInv, DiskTypeOK, InWriteChunk, IoLabels
  <2> QED BY <1>2, <1>3, <2>1, <2>2 DEF DiskInv, Recorded, InState
<1>6. CASE Publish(w)
  <2>1. UNCHANGED <<cur, state, written, bitmap>> /\ sidecarExists' /\ sidecarBits' = bitmap
        /\ io' = [io EXCEPT ![w] = "write"] /\ io[w] = "publish"
        /\ pc' = [pc EXCEPT ![w] = "report"]
    BY <1>0, <1>6 DEF Publish, Delivered, Move, Goto, schedVars, chunkVars
  <2>2. DiskTypeOK' /\ InWriteChunk'
    BY <1>0, <1>3, <2>1 DEF DiskInv, DiskTypeOK, InWriteChunk, IoLabels
  <2>3. \A v \in Slots : pc'[v] \in {"report", "ack"} => cur'[v] \in sidecarBits'
    BY <1>0, <2>1 DEF DiskInv, InWriteChunk, Recorded
  <2> QED BY <1>3, <2>1, <2>2, <2>3 DEF DiskInv, Recorded, InState
<1>7. CASE WriteChunkFails(w)
  <2>1. UNCHANGED <<cur, state, diskVars, bitmap>> /\ io' = [io EXCEPT ![w] = "write"]
        /\ pc' = [pc EXCEPT ![w] = "abort"]
    BY <1>7 DEF WriteChunkFails, DeliveryFailed, Move, Goto, schedVars, chunkVars
  <2>2. DiskTypeOK' /\ InWriteChunk'
    BY <1>0, <1>3, <2>1 DEF DiskInv, DiskTypeOK, InWriteChunk, IoLabels, diskVars
  <2> QED BY <1>0, <1>3, <2>1, <2>2 DEF DiskInv, Recorded, InState, diskVars
<1> QED BY <1>4, <1>5, <1>6, <1>7

\* Every step of a job, a kill or a new run keeps the disk as the invariant says.
LEMMA DiskStep ==
    ASSUME FilePoolInv, DiskInv, [FileNext]_fileVars
    PROVE  DiskInv'
<1>1. ASSUME NEW w \in Slots, FileWorker(w) PROVE DiskInv'
  <2>1. phase = "download" /\ StillDownloading
    BY <1>1 DEF FileWorker, Downloading
  <2>2. CASE (LoopStep(w) \/ Request(w)) /\ UNCHANGED <<diskVars, bitmap, io>>
    BY <2>1, <2>2, LoopKeepsDisk DEF Request, StillDownloading, jobVars
  <2>3. CASE ~((LoopStep(w) \/ Request(w)) /\ UNCHANGED <<diskVars, bitmap, io>>)
    BY <1>1, <2>1, <2>3, WriteChunkKeepsDisk DEF FileWorker, Request
  <2> QED BY <2>2, <2>3
<1>2. CASE Load
  <2>1. /\ UNCHANGED <<pc, cur, written, bitmap, io>>
        /\ phase = "load" /\ phase' \in {"over", "create"}
    BY <1>2 DEF Load, Over, vars, poolVars
  <2>2. sidecarBits' = sidecarBits \/ sidecarBits' = {}
    BY <1>2 DEF Load
  <2>3. resumed' = sidecarBits \/ resumed' = {}
    BY <1>2 DEF Load
  <2>4. sidecarBits' \subseteq written' /\ resumed' \subseteq written'
    BY <2>1, <2>2, <2>3 DEF DiskInv
  <2>5. DiskTypeOK'
    BY <2>1, <2>2, <2>3 DEF DiskInv, DiskTypeOK
  <2> QED BY <2>1, <2>4, <2>5 DEF DiskInv, InWriteChunk
<1>3. CASE Create
  <2>1. /\ phase = "create" /\ sidecarExists' /\ sidecarBits' = resumed /\ bitmap' = resumed
        /\ UNCHANGED <<written, io, resumed>> /\ phase' = "download"
        /\ pc' = [w \in Slots |-> "top"]
        /\ state' = [c \in Chunks |-> IF c \in resumed THEN "completed" ELSE "pending"]
    BY <1>3 DEF Create, Renew, Refresh
  <2>2. \A w \in Slots : io[w] = "write"
    BY <2>1 DEF DiskInv
  <2> QED BY <2>1, <2>2 DEF DiskInv, DiskTypeOK, InWriteChunk, Recorded, InState
<1>4. CASE CreateFails
  <2>1. UNCHANGED <<pc, cur, written, bitmap, io, resumed>> /\ phase = "create" /\ phase' = "over"
        /\ sidecarBits' \in {sidecarBits, resumed}
    BY <1>4 DEF CreateFails, Over, vars, poolVars
  <2> QED BY <2>1 DEF DiskInv, DiskTypeOK, InWriteChunk
<1>5. CASE Downloading /\ (Runner \/ Clock \/ Interrupt) /\ UNCHANGED <<diskVars, jobVars>>
  <2>1. UNCHANGED <<pc, cur>> /\ InState("completed")' = InState("completed")
    BY <1>5 DEF Runner, Receive, Conclude, PropagateInterrupt, Cancel, Clock, TickStep,
         CooldownStep, BackoffStep, SuppressionStep, WhileRunning, Tick, CooldownExpires,
         BackoffExpires, SuppressionExpires, Interrupt, ParentCancelled, schedVars, chunkVars,
         poolVars, InState
  <2> QED BY <1>5, <2>1 DEF DiskInv, DiskTypeOK, InWriteChunk, Recorded, diskVars, jobVars
<1>6. CASE WorkersDone \/ Sync \/ FinalizeFails
  <2>1. UNCHANGED <<pc, cur, written, sidecarBits, bitmap, io, resumed>>
        /\ phase' \in {"sync", "remove", "over"}
    BY <1>6 DEF WorkersDone, Sync, FinalizeFails, Over, vars, poolVars, diskVars
  <2> QED BY <2>1 DEF DiskInv, DiskTypeOK, InWriteChunk
<1>7. CASE Remove
  <2>1. UNCHANGED <<pc, cur, written, bitmap, io, resumed>> /\ sidecarBits' = {} /\ phase' = "over"
    BY <1>7 DEF Remove, Over, vars, poolVars
  <2> QED BY <2>1 DEF DiskInv, DiskTypeOK, InWriteChunk
<1>8. CASE Kill \/ RunAgain
  <2>1. UNCHANGED <<written, sidecarBits>> /\ phase' \in {"dead", "load"}
        /\ bitmap' = {} /\ resumed' = {} /\ io' = [w \in Slots |-> "write"]
    BY <1>8 DEF Kill, RunAgain, Forget, diskVars
  <2> QED BY <2>1 DEF DiskInv, DiskTypeOK, InWriteChunk, IoLabels
<1>9. CASE Idle \/ UNCHANGED fileVars
  <2>1. UNCHANGED <<pc, cur, state, diskVars, jobVars>>
    BY <1>9 DEF Idle, fileVars, vars, schedVars, chunkVars, poolVars
  <2> QED BY <2>1 DEF DiskInv, DiskTypeOK, InWriteChunk, Recorded, InState, diskVars, jobVars
<1> QED BY <1>1, <1>2, <1>3, <1>4, <1>5, <1>6, <1>7, <1>8, <1>9 DEF FileNext

-----------------------------------------------------------------------------
(* Success *)

SuccessInv ==
    /\ phase \in {"load", "create"} => exitCode = "none"
    /\ phase = "download" /\ InOrder(resumed) => InOrderInv
    /\ phase \in {"sync", "remove"} /\ InOrder(resumed) => written = Chunks
    /\ phase = "remove" /\ InOrder(resumed) => durable = Chunks
    /\ jobExit = "success" =>
        /\ phase = "over"
        /\ InOrder(resumed) => written = Chunks /\ (exitCode = "success" => durable = Chunks)

FreshInOrder == (\E done \in SUBSET Chunks : InOrder(done) /\ New(done)) /\ Fresh

\* A pool created from a prefix starts in order.
LEMMA FreshStartsInOrder == FreshInOrder => InOrderInv
<1> SUFFICES ASSUME FreshInOrder PROVE InOrderInv
  OBVIOUS
<1>1. PICK done \in SUBSET Chunks : InOrder(done) /\ New(done)
  BY DEF FreshInOrder
<1>2. \A c \in done : 0 .. c \subseteq done
  BY <1>1, ConstantsAssumption DEF InOrder, Chunks
<1>3. DispatchedInOrder /\ Excess = 0
  BY <1>1, <1>2, NewCounts
<1> QED BY <1>3 DEF InOrderInv, SuccessMeansComplete, FreshInOrder, Fresh

\* Nothing is claimed before the first run.
LEMMA SuccessInit == FileInit => SuccessInv
BY DEF FileInit, SuccessInv, Fresh

\* Every step keeps what a success is going to rest on.
LEMMA SuccessStep ==
    ASSUME FilePoolInv, DiskInv, SuccessInv, [FileNext]_fileVars
    PROVE  SuccessInv'
<1>1. CASE Load
  <2>1. UNCHANGED <<exitCode, written>> /\ phase = "load" /\ phase' \in {"over", "create"}
    BY <1>1 DEF Load, Over, vars, runVars
  <2>2. jobExit' = "success" => phase' = "over" /\ resumed' = Chunks
    BY <1>1 DEF Load, Over, SuccessInv
  <2>3. resumed' = Chunks => written = Chunks
    BY <1>1 DEF Load, DiskInv, DiskTypeOK
  <2> QED BY <2>1, <2>2, <2>3 DEF SuccessInv
<1>2. CASE Create
  <2>1. UNCHANGED <<resumed, jobExit>> /\ phase = "create" /\ phase' = "download"
    BY <1>2 DEF Create
  <2>2. ASSUME InOrder(resumed) PROVE InOrderInv'
    <3>1. FreshInOrder'
      BY <1>2, <2>1, <2>2 DEF Create, Renew, Refresh, FreshInOrder, New, Fresh, InOrder, DiskInv,
                              DiskTypeOK
    <3> QED BY <3>1, FreshStartsInOrder, PTL
  <2>3. InOrder(resumed)' <=> InOrder(resumed)
    BY <2>1 DEF InOrder
  <2> QED BY <2>1, <2>2, <2>3 DEF SuccessInv
<1>3. CASE phase = "download" /\ phase' = "download"
  <2>1. [Next]_vars /\ resumed' = resumed
    BY <1>3, DownloadStepOfPool
  <2>2. jobExit' = jobExit
    BY <1>3 DEF FileNext, Load, Create, CreateFails, FileWorker, StillDownloading, WorkersDone, Sync,
                Remove, FinalizeFails, Kill, RunAgain, Idle, Over, Alive, fileVars, jobVars
  <2>3. InOrder(resumed)' => InOrder(resumed)
    BY <2>1 DEF InOrder
  <2> QED BY <1>3, <2>1, <2>2, <2>3, InOrderStep DEF SuccessInv, FilePoolInv
<1>4. CASE WorkersDone
  <2>1. /\ UNCHANGED <<exitCode, written, durable, resumed>> /\ phase = "download"
        /\ \/ phase' = "sync" /\ exitCode = "success" /\ jobExit' = jobExit
           \/ phase' = "over" /\ jobExit' # "success"
    BY <1>4 DEF WorkersDone, Downloading, Over, vars, runVars, diskVars
  <2>2. exitCode = "success" /\ InOrder(resumed) => written = Chunks
    BY <2>1 DEF SuccessInv, InOrderInv, SuccessMeansComplete, DiskInv, Recorded, DiskTypeOK
  <2>3. InOrder(resumed)' <=> InOrder(resumed)
    BY <2>1 DEF InOrder
  <2> QED BY <2>1, <2>2, <2>3 DEF SuccessInv
<1>5. CASE Sync \/ Remove
  <2>1. UNCHANGED <<exitCode, written, resumed>>
        /\ (InOrder(resumed)' <=> InOrder(resumed))
    BY <1>5 DEF Sync, Remove, vars, runVars, InOrder
  <2>2. CASE Sync
    BY <2>1, <2>2 DEF Sync, SuccessInv
  <2>3. CASE Remove
    BY <2>1, <2>3 DEF Remove, Over, SuccessInv
  <2> QED BY <1>5, <2>2, <2>3
<1>6. CASE CreateFails \/ FinalizeFails \/ Kill \/ RunAgain
  <2>1. jobExit' # "success"
    BY <1>6 DEF CreateFails, FinalizeFails, Kill, RunAgain, Over, Alive, SuccessInv
  <2>2. phase' \in {"over", "dead"} \/ (phase' = "load" /\ exitCode' = "none")
    BY <1>6 DEF CreateFails, FinalizeFails, Kill, RunAgain, Over, Forget, Refresh
  <2> QED BY <2>1, <2>2 DEF SuccessInv
<1>7. CASE Idle \/ UNCHANGED fileVars
  <2>1. \/ UNCHANGED <<phase, jobExit, exitCode, written, durable, resumed>> /\ phase # "download"
        \/ phase = "download" /\ phase' = "download"
    BY <1>7 DEF Idle, Alive, fileVars, vars, runVars, diskVars, jobVars
  <2>2. CASE UNCHANGED <<phase, jobExit, exitCode, written, durable, resumed>> /\ phase # "download"
    BY <2>2 DEF SuccessInv, InOrder
  <2> QED BY <1>3, <2>1, <2>2
<1>8. ASSUME NEW w \in Slots, FileWorker(w) PROVE phase = "download" /\ phase' = "download"
  BY <1>8 DEF FileWorker, Downloading, StillDownloading
<1>9. CASE Downloading /\ (Runner \/ Clock \/ Interrupt) /\ UNCHANGED <<diskVars, jobVars>>
  BY <1>3, <1>9 DEF Downloading, jobVars
<1> QED BY <1>1, <1>2, <1>3, <1>4, <1>5, <1>6, <1>7, <1>8, <1>9 DEF FileNext

-----------------------------------------------------------------------------
(* Theorems *)

\* The pool's and the disk's invariants, through crashes, failures and further runs.
THEOREM FileJobIsConsistent == FileSpec => [](FilePoolInv /\ DiskInv)
<1>1. FileInit => FilePoolInv /\ DiskInv
  <2>1. FileInit => FreshPool
    BY DEF FileInit, FreshPool
  <2> QED BY <2>1, FreshIsConsistent, DiskInit
<1>2. FilePoolInv /\ DiskInv /\ [FileNext]_fileVars => (FilePoolInv /\ DiskInv)'
  BY FilePoolStep, DiskStep DEF DiskInv
<1> QED BY <1>1, <1>2, PTL DEF FileSpec

\* The sidecar on disk names only chunks whose bytes are in the file, whenever the process
\* is killed and whichever disk write fails.
THEOREM SidecarTellsTheTruth == FileSpec => []SidecarIsTruthful
<1>1. DiskInv => SidecarIsTruthful
  BY DEF DiskInv, SidecarIsTruthful
<1> QED BY <1>1, FileJobIsConsistent, PTL

\* No progress is lost: what the scheduler counts as completed is in the sidecar on disk.
THEOREM ProgressIsRecorded == FileSpec => []CompletedIsRecorded
<1>1. DiskInv => CompletedIsRecorded
  BY DEF DiskInv, Recorded, CompletedIsRecorded
<1> QED BY <1>1, FileJobIsConsistent, PTL

\* The invariant about the end of a run holds: what Sync covered, and when the sidecar goes.
THEOREM FileSuccessIsConsistent == FileSpec => []SuccessInv
<1>1. FilePoolInv /\ DiskInv /\ SuccessInv /\ [FileNext]_fileVars => SuccessInv'
  BY SuccessStep
<1> QED BY <1>1, SuccessInit, FileJobIsConsistent, PTL DEF FileSpec

\* A run that starts from nothing, or from a prefix of the chunks, and reports success
\* leaves every chunk in the file.
THEOREM SuccessIsInFile == FileSpec => []SuccessMeansInFile
<1>1. SuccessInv => SuccessMeansInFile
  BY DEF SuccessInv, SuccessMeansInFile
<1> QED BY <1>1, FileSuccessIsConsistent, PTL

\* The sidecar of a download that went through Finalize is removed only after its data is
\* synchronized.
THEOREM RemovedAfterSync == FileSpec => []SyncedBeforeRemoval
<1>1. SuccessInv => SyncedBeforeRemoval
  BY DEF SuccessInv, SyncedBeforeRemoval
<1> QED BY <1>1, FileSuccessIsConsistent, PTL

-----------------------------------------------------------------------------
(* All runs together *)

\* What a run finds beside the file, and has read of it.
RecordInv ==
    /\ sidecarExists \/ sidecarBits = {}
    /\ phase = "create" => resumed = sidecarBits
    /\ jobExit \in {"none", "success", "failure", "ioError"}
    /\ phase = "over" => jobExit # "none"

LEMMA RecordInit == FileInit => RecordInv
BY DEF FileInit, RecordInv

\* Sidecars are written from what the run took over and has added, and removed with
\* their bits.
LEMMA RecordStep ==
    ASSUME PoolTypeOK, RecordInv, [FileNext]_fileVars
    PROVE  RecordInv'
<1>1. ASSUME NEW w \in Slots, FileWorker(w) PROVE RecordInv'
  <2>1. phase = "download" /\ UNCHANGED <<phase, jobExit>>
    BY <1>1 DEF FileWorker, Downloading, StillDownloading
  <2>2. UNCHANGED <<sidecarExists, sidecarBits>> \/ sidecarExists'
    BY <1>1 DEF FileWorker, Request, WriteAt, MarkBit, Publish, WriteChunkFails, diskVars
  <2> QED BY <2>1, <2>2 DEF RecordInv
<1>2. CASE Load
  BY <1>2 DEF Load, Over, RecordInv
<1>3. CASE Create \/ CreateFails
  BY <1>3 DEF Create, CreateFails, Over, RecordInv
<1>4. CASE WorkersDone
  BY <1>4 DEF WorkersDone, Downloading, Over, RecordInv, PoolTypeOK, diskVars
<1>5. CASE Sync \/ Remove \/ FinalizeFails
  BY <1>5 DEF Sync, Remove, FinalizeFails, Over, RecordInv, diskVars
<1>6. CASE Kill \/ RunAgain
  BY <1>6 DEF Kill, RunAgain, RecordInv, diskVars
<1>7. CASE Idle \/ (Downloading /\ (Runner \/ Clock \/ Interrupt) /\ UNCHANGED <<diskVars, jobVars>>)
           \/ UNCHANGED fileVars
  BY <1>7 DEF Idle, RecordInv, fileVars, diskVars, jobVars
<1> QED BY <1>1, <1>2, <1>3, <1>4, <1>5, <1>6, <1>7 DEF FileNext

\* The chunks and the prefixes of ResumableDownload are those of the job.
LEMMA SameChunks ==
    /\ Resumable!All = Chunks
    /\ \A set : Resumable!Prefix(set) <=> InOrder(set)
BY DEF Resumable!All, Resumable!Prefix, Chunks, InOrder

\* While the chunks are downloaded, one is stored, or what is stored is recorded.
LEMMA WorkerStoresOrRecords ==
    ASSUME FilePoolInv, DiskInv, NEW w \in Slots, FileWorker(w)
    PROVE  [Resumable!Store \/ Resumable!Record]_<<written, sidecarBits, resumed, Stage>>
<1>1. /\ phase = "download" /\ UNCHANGED <<phase, jobExit, resumed>>
      /\ Stage = "running" /\ Stage' = "running"
  BY DEF FileWorker, Downloading, StillDownloading, Stage
<1>2. CASE WriteAt(w)
  <2>1. pc[w] = "deliver" /\ HoldsActive(w) /\ cur \in [Slots -> Chunks \cup {NoChunk}]
    BY <1>2 DEF WriteAt, FilePoolInv, SoloInv, PoolInv, PoolTypeOK
  <2>2. cur[w] \in Resumable!All
    <3>1. cur[w] \in Chunks
      BY <2>1 DEF HoldsActive, Idling
    <3> QED BY <3>1, SameChunks, Zenon
  <2>3. written' = written \cup {cur[w]} /\ sidecarBits' = sidecarBits
    BY <1>2 DEF WriteAt
  <2>4. Resumable!Store
    BY <1>1, <2>2, <2>3 DEF Resumable!Store
  <2> QED BY <2>4
<1>3. CASE Publish(w)
  <2>1. written' = written /\ sidecarBits' = bitmap
    BY <1>3 DEF Publish
  <2>2. bitmap \subseteq written /\ sidecarBits \subseteq bitmap
    BY <1>1 DEF DiskInv, Recorded
  <2>3. Resumable!Record
    BY <1>1, <2>1, <2>2 DEF Resumable!Record
  <2> QED BY <2>3
<1>4. CASE UNCHANGED <<written, sidecarBits>>
  BY <1>1, <1>4
<1>5. WriteAt(w) \/ Publish(w) \/ UNCHANGED <<written, sidecarBits>>
  BY DEF FileWorker, Request, MarkBit, WriteChunkFails, diskVars
<1> QED BY <1>2, <1>3, <1>4, <1>5

\* The safety part of ResumableDownload: over all its runs a job stores and records chunks,
\* takes over what was recorded, ends and dies as that says, and does nothing else that
\* its user could see.
THEOREM RunsKeepTheirPromise ==
    FileSpec => /\ Resumable!RDInit
                /\ [][Resumable!RDNext]_<<written, sidecarBits, resumed, Stage>>
<1> DEFINE Inv == FilePoolInv /\ DiskInv /\ SuccessInv /\ RecordInv
<1>1. FileInit => Resumable!RDInit
  BY DEF FileInit, Stage, Resumable!RDInit
<1>2. Inv /\ [FileNext]_fileVars => [Resumable!RDNext]_<<written, sidecarBits, resumed, Stage>>
  <2> SUFFICES ASSUME Inv, [FileNext]_fileVars
               PROVE  Resumable!RDNext \/ UNCHANGED <<written, sidecarBits, resumed, Stage>>
    OBVIOUS
  <2>1. ASSUME NEW w \in Slots, FileWorker(w)
        PROVE  Resumable!RDNext \/ UNCHANGED <<written, sidecarBits, resumed, Stage>>
    BY <2>1, WorkerStoresOrRecords DEF Resumable!RDNext
  <2>2. CASE Load
    <3>1. /\ phase = "load" /\ Stage = "starting" /\ written' = written
          /\ resumed' = sidecarBits
      BY <2>2 DEF Load, Stage, RecordInv
    <3>2. CASE resumed' = Chunks
      <4>1. sidecarBits' \in {{}, sidecarBits} /\ Stage' = "success"
        BY <2>2, <3>2 DEF Load, Over, Stage
      <4>2. Resumable!NothingLeft
        BY <3>1, <3>2, <4>1, SameChunks DEF Resumable!NothingLeft
      <4> QED BY <4>2 DEF Resumable!RDNext
    <3>3. CASE resumed' # Chunks
      <4>1. sidecarBits' = sidecarBits /\ Stage' = "running"
        BY <2>2, <3>3 DEF Load, Stage
      <4>2. Resumable!TakeOver
        BY <3>1, <3>3, <4>1, SameChunks DEF Resumable!TakeOver
      <4> QED BY <4>2 DEF Resumable!RDNext
    <3> QED BY <3>2, <3>3
  <2>3. CASE Create
    BY <2>3 DEF Create, Stage, RecordInv
  <2>4. CASE CreateFails \/ FinalizeFails \/ (WorkersDone /\ exitCode # "success")
    <3>1. /\ Stage = "running" /\ Stage' = jobExit' /\ jobExit' \in {"failure", "ioError"}
          /\ UNCHANGED <<written, resumed>>
      BY <2>4 DEF CreateFails, FinalizeFails, WorkersDone, Downloading, Over, Stage, diskVars,
                  FilePoolInv, PoolInv, PoolTypeOK
    <3>2. sidecarBits' = sidecarBits
      BY <2>4 DEF CreateFails, FinalizeFails, WorkersDone, RecordInv, diskVars
    <3>3. Resumable!Fail
      BY <3>1, <3>2 DEF Resumable!Fail
    <3> QED BY <3>3 DEF Resumable!RDNext
  <2>5. CASE Remove
    <3>1. /\ phase = "remove" /\ Stage = "running" /\ Stage' = "success"
          /\ UNCHANGED <<written, resumed>> /\ sidecarBits' = {}
      BY <2>5 DEF Remove, Over, Stage
    <3>2. Resumable!Prefix(resumed) => written = Resumable!All
      BY <3>1, SameChunks DEF SuccessInv
    <3>3. Resumable!Succeed
      BY <3>1, <3>2 DEF Resumable!Succeed
    <3> QED BY <3>3 DEF Resumable!RDNext
  <2>6. CASE Kill
    <3>1. Resumable!Going
      BY <2>6 DEF Kill, Alive, Resumable!Going, Stage
    <3>2. Stage' = "killed" /\ resumed' = {} /\ UNCHANGED <<written, sidecarBits>>
      BY <2>6 DEF Kill, Forget, Stage, diskVars
    <3>3. Resumable!Die
      BY <3>1, <3>2 DEF Resumable!Die
    <3> QED BY <3>3 DEF Resumable!RDNext
  <2>7. CASE RunAgain
    <3>1. Stage \in {"failure", "ioError", "killed"}
      BY <2>7 DEF RunAgain, Alive, Stage, RecordInv
    <3>2. Stage' = "starting" /\ resumed' = {} /\ UNCHANGED <<written, sidecarBits>>
      BY <2>7 DEF RunAgain, Forget, Stage, diskVars
    <3>3. Resumable!RunAgain
      BY <3>1, <3>2 DEF Resumable!RunAgain
    <3> QED BY <3>3 DEF Resumable!RDNext
  <2>8. CASE Sync \/ (WorkersDone /\ exitCode = "success")
    BY <2>8 DEF Sync, WorkersDone, Downloading, Stage, diskVars
  <2>9. CASE Idle \/ (Downloading /\ (Runner \/ Clock \/ Interrupt) /\ UNCHANGED <<diskVars, jobVars>>)
             \/ UNCHANGED fileVars
    BY <2>9 DEF Idle, fileVars, diskVars, jobVars, Stage
  <2> QED
    BY <2>1, <2>2, <2>3, <2>4, <2>5, <2>6, <2>7, <2>8, <2>9 DEF FileNext
<1>3. FileSpec => []Inv
  <2>1. FileInit => RecordInv
    BY RecordInit
  <2>2. RecordInv /\ PoolTypeOK /\ [FileNext]_fileVars => RecordInv'
    BY RecordStep
  <2>3. FilePoolInv => PoolTypeOK
    BY DEF FilePoolInv, PoolInv
  <2> QED BY <2>1, <2>2, <2>3, FileJobIsConsistent, FileSuccessIsConsistent, PTL DEF FileSpec
<1> QED
  BY <1>1, <1>2, <1>3, PTL DEF FileSpec

\* What was recorded stays recorded, over failures, kills and new runs, until a run succeeds.
THEOREM ProgressIsKept ==
    FileSpec => [][sidecarBits \subseteq sidecarBits' \/ Stage' = "success"]_<<sidecarBits, Stage>>
<1>1. [Resumable!RDNext]_<<written, sidecarBits, resumed, Stage>>
        => [sidecarBits \subseteq sidecarBits' \/ Stage' = "success"]_<<sidecarBits, Stage>>
  BY DEF Resumable!RDNext, Resumable!TakeOver, Resumable!NothingLeft, Resumable!Store,
         Resumable!Record, Resumable!Succeed, Resumable!Fail, Resumable!Die, Resumable!RunAgain
<1> QED BY <1>1, RunsKeepTheirPromise, PTL
===============================================================================
