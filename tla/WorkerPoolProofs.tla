--------------------------- MODULE WorkerPoolProofs ---------------------------
(***************************************************************************)
(* The counters of the scheduler are exact and a successful job is         *)
(* complete, for any number of connections, chunks, tries and failures.    *)
(*                                                                         *)
(* PoolInv is the inductive invariant.  It needs no assumption on what a   *)
(* resume starts from.  InOrderInv strengthens it for jobs that start from *)
(* a prefix of the chunks, or from nothing.                                *)
(***************************************************************************)
EXTENDS WorkerPool, FiniteSetTheorems, TLAPS

-----------------------------------------------------------------------------
(***************************************************************************)
(* What each method of the Scheduler does to its two counters.             *)
(*                                                                         *)
(* activeCount and completedCount are kept by hand in the code, beside the *)
(* chunk states they count.  Surplus and Excess are how far they are off.  *)
(* One lemma per method says that it keeps the type invariant and moves    *)
(* Surplus by exactly what its caller is told: +1 for a hedge begun, -1    *)
(* for a hedge withdrawn, 0 otherwise; and that it moves Excess only if a  *)
(* chunk beyond the frontier was already complete.                         *)
(***************************************************************************)

Surplus == activeCount - Cardinality(InState("active"))
Excess  == completedCount - Cardinality(InState("completed"))

\* Chunks not handed out yet are pending, or completed before the job began.
Dispatched ==
    \A c \in Chunks : c >= nextUndispatched => state[c] \in {"pending", "completed"}

\* The same when no chunk beyond the completed prefix was completed before.
DispatchedInOrder ==
    \A c \in Chunks : c >= nextUndispatched => state[c] = "pending"

SchedInv == SchedTypeOK /\ Dispatched

\* What a step that hands out or reports on chunks in order may do to the
\* completed ones: count each of them once, and leave them completed.
CountsInOrder ==
    DispatchedInOrder =>
        /\ DispatchedInOrder'
        /\ Excess' = Excess
        /\ \A c \in Chunks : state[c] = "completed" => state'[c] = "completed"

\* The chunks are finitely many, and NumChunks of them.
LEMMA ChunksFinite == IsFiniteSet(Chunks) /\ Cardinality(Chunks) = NumChunks
<1>1. 0 \in Int /\ NumChunks - 1 \in Int
  BY ConstantsAssumption
<1> QED
  BY <1>1, ConstantsAssumption, FS_Interval DEF Chunks

\* How the number of chunks in state t changes when one chunk c moves to state s.
LEMMA CountAfterMove ==
    ASSUME NEW f \in [Chunks -> ChunkStates], NEW c \in Chunks,
           NEW s \in ChunkStates, NEW t \in ChunkStates
    PROVE  LET before == {d \in Chunks : f[d] = t}
               after  == {d \in Chunks : [f EXCEPT ![c] = s][d] = t}
           IN  /\ Cardinality(before) \in Nat
               /\ Cardinality(after) \in Nat
               /\ s = t /\ f[c] # t => Cardinality(after) = Cardinality(before) + 1
               /\ s # t /\ f[c] = t => Cardinality(after) = Cardinality(before) - 1
               /\ (s = t <=> f[c] = t) => after = before
<1> DEFINE before == {d \in Chunks : f[d] = t}
           after  == {d \in Chunks : [f EXCEPT ![c] = s][d] = t}
<1>1. IsFiniteSet(before) /\ IsFiniteSet(after)
  BY ChunksFinite, FS_Subset
<1>2. Cardinality(before) \in Nat /\ Cardinality(after) \in Nat
  BY <1>1, FS_CardinalityType
<1>3. ASSUME s = t, f[c] # t PROVE Cardinality(after) = Cardinality(before) + 1
  <2>1. after = before \cup {c} /\ c \notin before
    BY <1>3
  <2> QED BY <2>1, <1>1, FS_AddElement
<1>4. ASSUME s # t, f[c] = t PROVE Cardinality(after) = Cardinality(before) - 1
  <2>1. after = before \ {c} /\ c \in before
    BY <1>4
  <2> HIDE DEF before, after
  <2> QED BY <2>1, <1>1, FS_RemoveElement
<1>5. ASSUME s = t <=> f[c] = t PROVE after = before
  BY <1>5
<1> QED BY <1>2, <1>3, <1>4, <1>5

\* The same for the scheduler's chunk states.
LEMMA InStateAfterMove ==
    ASSUME SchedTypeOK, NEW c \in Chunks, NEW s \in ChunkStates, NEW t \in ChunkStates,
           state' = [state EXCEPT ![c] = s]
    PROVE  /\ Cardinality(InState(t)) \in Nat
           /\ Cardinality(InState(t)') \in Nat
           /\ s = t /\ state[c] # t => Cardinality(InState(t)') = Cardinality(InState(t)) + 1
           /\ s # t /\ state[c] = t => Cardinality(InState(t)') = Cardinality(InState(t)) - 1
           /\ (s = t <=> state[c] = t) => InState(t)' = InState(t)
<1>1. state \in [Chunks -> ChunkStates]
  BY DEF SchedTypeOK
<1>2. /\ InState(t) = {d \in Chunks : state[d] = t}
      /\ InState(t)' = {d \in Chunks : [state EXCEPT ![c] = s][d] = t}
  BY DEF InState
<1> QED
  BY <1>1, <1>2, CountAfterMove

LEMMA InStateIsNat ==
    ASSUME SchedTypeOK, NEW t \in ChunkStates
    PROVE  Cardinality(InState(t)) \in Nat
<1>1. InState(t) \in SUBSET Chunks
  BY DEF InState
<1> QED
  BY <1>1, ChunksFinite, FS_Subset, FS_CardinalityType

-----------------------------------------------------------------------------
(* One lemma per method *)

\* A method that moves no chunk and leaves both counters alone.
LEMMA NoMove ==
    ASSUME UNCHANGED <<state, nextUndispatched, activeCount, completedCount>>, Dispatched
    PROVE  Dispatched' /\ Surplus' = Surplus /\ CountsInOrder
BY DEF Dispatched, DispatchedInOrder, Surplus, Excess, CountsInOrder, InState

LEMMA CleanupType ==
    ASSUME SchedTypeOK, Cleanup
    PROVE  effectiveTarget' \in 1 .. Connections /\ cooling' \in BOOLEAN
<1>1. effectiveTarget < Connections => effectiveTarget + 1 \in 1 .. Connections
  BY ConstantsAssumption DEF SchedTypeOK
<1> QED
  BY <1>1 DEF SchedTypeOK, Cleanup, TargetAfterCleanup, MayRestore

\* NextAssignment that hands out chunk c on slot s.
LEMMA NextChunkCounts ==
    ASSUME SchedInv, NEW c \in Chunks, NEW s \in Slots, NextChunk(c, s)
    PROVE  SchedInv' /\ Surplus' = Surplus /\ CountsInOrder
<1> USE DEF SchedInv
<1>1. state' = [state EXCEPT ![c] = "active"] /\ activeCount' = activeCount + 1
      /\ completedCount' = completedCount
  BY DEF NextChunk, Assign
<1>2. state[c] \in {"pending", "completed", "retryWait"}
  BY DEF NextChunk, Assignable, RipeRetry, NextNew, Dispatched, SchedTypeOK, InState, Chunks
<1>3. SchedTypeOK'
  <2>1. effectiveTarget' \in 1 .. Connections /\ cooling' \in BOOLEAN
    BY CleanupType DEF NextChunk
  <2>2. state' \in [Chunks -> ChunkStates]
    BY <1>1 DEF SchedTypeOK, ChunkStates
  <2>3. ripe' \subseteq InState("retryWait")'
    BY <1>1 DEF SchedTypeOK, InState, NextChunk, Assign
  <2>4. nextUndispatched' \in 0 .. NumChunks
    BY ConstantsAssumption DEF SchedTypeOK, NextChunk, NextNew, Chunks
  <2>5. attempts' \in [Chunks -> Nat] /\ workerSlot' \in [Chunks -> Slots \cup {-1}]
    BY DEF SchedTypeOK, NextChunk, Assign
  <2>6. activeCount' \in Int
    BY <1>1 DEF SchedTypeOK
  <2> QED
    BY <2>1, <2>2, <2>3, <2>4, <2>5, <2>6 DEF SchedTypeOK, NextChunk, Cleanup, hedgeVars
<1>4. Dispatched' /\ (DispatchedInOrder => DispatchedInOrder')
  <2>1. \A d \in Chunks : d >= nextUndispatched' => d >= nextUndispatched /\ d # c
    <3>1. CASE NextNew(c)
      BY <3>1 DEF NextChunk, NextNew, SchedTypeOK, Chunks
    <3>2. CASE ~NextNew(c)
      <4>1. c \in ripe /\ nextUndispatched' = nextUndispatched
        BY <3>2 DEF NextChunk, Assignable, RipeRetry
      <4>2. state[c] = "retryWait"
        BY <4>1 DEF SchedTypeOK, InState
      <4> QED BY <4>1, <4>2 DEF Dispatched
    <3> QED BY <3>1, <3>2
  <2> QED BY <2>1, <1>1 DEF Dispatched, DispatchedInOrder, SchedTypeOK
<1>5. Surplus' = Surplus
  <2>1. Cardinality(InState("active")') = Cardinality(InState("active")) + 1
        /\ Cardinality(InState("active")) \in Nat
    BY <1>1, <1>2, InStateAfterMove DEF ChunkStates
  <2> QED BY <2>1, <1>1 DEF Surplus, SchedTypeOK
<1>6. ASSUME DispatchedInOrder
      PROVE  Excess' = Excess
             /\ \A d \in Chunks : state[d] = "completed" => state'[d] = "completed"
  <2>1. state[c] # "completed"
    BY <1>6 DEF DispatchedInOrder, NextChunk, Assignable, RipeRetry, NextNew, SchedTypeOK,
                InState, Chunks
  <2>2. Cardinality(InState("completed")') = Cardinality(InState("completed"))
    BY <2>1, <1>1, InStateAfterMove DEF ChunkStates
  <2> QED BY <2>1, <2>2, <1>1 DEF Excess, SchedTypeOK
<1> QED BY <1>3, <1>4, <1>5, <1>6 DEF CountsInOrder

\* NextAssignment that returns or waits without handing out a chunk.
LEMMA NextIdleCounts ==
    ASSUME SchedInv, NEW w \in Slots, NEW s \in Slots,
           NextStopped \/ NextComplete \/ NextWait(w, s)
    PROVE  SchedInv' /\ Surplus' = Surplus /\ CountsInOrder
<1>1. /\ UNCHANGED <<chunkVars, countVars, hedgeVars, cancelled, admissionFailures, suppressed>>
      /\ Cleanup
      /\ waiting' \in {waiting, waiting \cup {w}}
  BY DEF NextStopped, NextComplete, NextWait, Cleanup
<1>2. effectiveTarget' \in 1 .. Connections /\ cooling' \in BOOLEAN
  BY <1>1, CleanupType DEF SchedInv
<1>3. UNCHANGED <<state, attempts, workerSlot, ripe, hedged, nextUndispatched, activeCount,
                  completedCount, hedgeActive, hedgedChunkIdx>>
  BY <1>1 DEF chunkVars, countVars, hedgeVars
<1>4. waiting' \subseteq Slots
  BY <1>1 DEF SchedInv, SchedTypeOK
<1>5. InState("retryWait")' = InState("retryWait")
  BY <1>3 DEF InState
<1>6. SchedTypeOK'
  BY <1>1, <1>2, <1>3, <1>4, <1>5 DEF SchedInv, SchedTypeOK
<1> QED
  BY <1>3, <1>6, NoMove DEF SchedInv

LEMMA MarkCompleteCounts ==
    ASSUME SchedInv, NEW c \in Chunks, MarkComplete(c)
    PROVE  SchedInv' /\ Surplus' = Surplus /\ CountsInOrder
<1> USE DEF SchedInv
<1>1. CASE state[c] # "active"
  <2>1. UNCHANGED <<state, nextUndispatched, activeCount, completedCount>>
    BY <1>1 DEF MarkComplete
  <2>2. SchedTypeOK'
    BY <2>1 DEF MarkComplete, Broadcast, SchedTypeOK, InState, adaptVars, hedgeVars
  <2> QED BY <2>1, <2>2, NoMove
<1>2. CASE state[c] = "active"
  <2>1. /\ state' = [state EXCEPT ![c] = "completed"]
        /\ activeCount' = activeCount - 1 /\ completedCount' = completedCount + 1
        /\ UNCHANGED <<attempts, workerSlot, ripe, hedged, nextUndispatched>>
    BY <1>2 DEF MarkComplete
  <2>2. SchedTypeOK'
    <3>1. state' \in [Chunks -> ChunkStates]
      BY <2>1 DEF SchedTypeOK, ChunkStates
    <3>2. ripe' \subseteq InState("retryWait")'
      BY <2>1, <1>2 DEF SchedTypeOK, InState
    <3> QED
      BY <3>1, <3>2, <2>1 DEF MarkComplete, Broadcast, SchedTypeOK, adaptVars, hedgeVars
  <2>3. c < nextUndispatched
    BY <1>2 DEF Dispatched, SchedTypeOK, Chunks
  <2>4. Dispatched' /\ (DispatchedInOrder => DispatchedInOrder')
    BY <2>1, <2>3 DEF Dispatched, DispatchedInOrder, SchedTypeOK, Chunks
  <2>5. /\ Cardinality(InState("active")') = Cardinality(InState("active")) - 1
        /\ Cardinality(InState("active")) \in Nat
        /\ Cardinality(InState("completed")') = Cardinality(InState("completed")) + 1
        /\ Cardinality(InState("completed")) \in Nat
    BY <2>1, <1>2, InStateAfterMove DEF ChunkStates
  <2>6. Surplus' = Surplus /\ Excess' = Excess
    BY <2>5, <2>1 DEF Surplus, Excess, SchedTypeOK
  <2>7. \A d \in Chunks : state[d] = "completed" => state'[d] = "completed"
    BY <2>1 DEF SchedTypeOK
  <2> QED BY <2>2, <2>4, <2>6, <2>7 DEF CountsInOrder
<1> QED BY <1>1, <1>2

LEMMA MarkFailedCounts ==
    ASSUME SchedInv, NEW c \in Chunks, NEW retryable \in BOOLEAN, MarkFailed(c, retryable)
    PROVE  SchedInv' /\ Surplus' = Surplus /\ CountsInOrder
<1> USE DEF SchedInv
<1>1. CASE state[c] # "active"
  <2>1. UNCHANGED <<state, nextUndispatched, activeCount, completedCount>>
    BY <1>1 DEF MarkFailed
  <2>2. SchedTypeOK'
    BY <2>1, <1>1 DEF MarkFailed, SchedTypeOK, InState, adaptVars, hedgeVars
  <2> QED BY <2>1, <2>2, NoMove
<1>2. CASE state[c] = "active"
  <2> DEFINE end == IF retryable /\ attempts[c] < MaxTries THEN "retryWait" ELSE "failed"
  <2>1. /\ state' = [state EXCEPT ![c] = end]
        /\ activeCount' = activeCount - 1
        /\ UNCHANGED <<attempts, workerSlot, ripe, hedged, nextUndispatched, completedCount>>
        /\ cancelled' \in {cancelled, TRUE}
        /\ waiting' = {}
    BY <1>2 DEF MarkFailed, RetryLater, GiveUp, Broadcast
  <2>2. end \in ChunkStates /\ end \notin {"active", "completed", "pending"}
    BY DEF ChunkStates
  <2> HIDE DEF end
  <2>3. SchedTypeOK'
    <3>1. state' \in [Chunks -> ChunkStates]
      BY <2>1, <2>2 DEF SchedTypeOK
    <3>2. ripe' \subseteq InState("retryWait")'
      BY <2>1, <1>2 DEF SchedTypeOK, InState
    <3>3. UNCHANGED <<attempts, workerSlot, hedged, nextUndispatched, completedCount,
                      effectiveTarget, cooling, admissionFailures, suppressed,
                      hedgeActive, hedgedChunkIdx>>
      BY DEF MarkFailed, adaptVars, hedgeVars
    <3>4. cancelled' \in BOOLEAN
      BY <2>1, Zenon DEF SchedTypeOK
    <3>5. waiting' \subseteq Slots /\ activeCount' \in Int
      BY <2>1 DEF SchedTypeOK
    <3> QED
      BY <3>1, <3>2, <3>3, <3>4, <3>5 DEF SchedTypeOK
  <2>4. c < nextUndispatched
    BY <1>2 DEF Dispatched, SchedTypeOK, Chunks
  <2>5. Dispatched' /\ (DispatchedInOrder => DispatchedInOrder')
    BY <2>1, <2>4 DEF Dispatched, DispatchedInOrder, SchedTypeOK, Chunks
  <2>6. /\ Cardinality(InState("active")') = Cardinality(InState("active")) - 1
        /\ Cardinality(InState("active")) \in Nat
        /\ Cardinality(InState("completed")') = Cardinality(InState("completed"))
    BY <2>1, <2>2, <1>2, InStateAfterMove DEF ChunkStates
  <2>7. Surplus' = Surplus /\ Excess' = Excess
    BY <2>6, <2>1 DEF Surplus, Excess, SchedTypeOK
  <2>8. \A d \in Chunks : state[d] = "completed" => state'[d] = "completed"
    BY <2>1, <1>2 DEF SchedTypeOK
  <2> QED BY <2>3, <2>5, <2>7, <2>8 DEF CountsInOrder
<1> QED BY <1>1, <1>2

\* The methods and deadlines that adapt the target touch no chunk.
LEMMA AdaptationCounts ==
    ASSUME SchedInv,
           \/ Tick \/ CooldownExpires \/ Cancel \/ ParentCancelled \/ OnPressure
           \/ \E c \in Chunks : BackoffExpires(c)
           \/ \E s \in Slots : \/ SuppressionExpires(s) \/ OnAdmissionFailure(s)
                               \/ OnWorkerSuccess(s)
    PROVE  SchedInv' /\ Surplus' = Surplus /\ CountsInOrder
<1> USE DEF SchedInv
<1>1. UNCHANGED <<state, attempts, workerSlot, hedged, nextUndispatched, activeCount,
                  completedCount, hedgeActive, hedgedChunkIdx>>
  BY DEF Tick, CooldownExpires, Cancel, ParentCancelled, OnPressure, BackoffExpires,
         SuppressionExpires, OnAdmissionFailure, OnWorkerSuccess, chunkVars, countVars,
         hedgeVars
<1>2. InState("retryWait")' = InState("retryWait")
  BY <1>1 DEF InState
<1>3. ripe' \subseteq InState("retryWait")
  BY DEF Tick, CooldownExpires, Cancel, ParentCancelled, OnPressure, BackoffExpires,
         SuppressionExpires, OnAdmissionFailure, OnWorkerSuccess, chunkVars, SchedTypeOK,
         InState
<1>4. effectiveTarget' \in 1 .. Connections
  <2>1. effectiveTarget > 1 => (effectiveTarget + 1) \div 2 \in 1 .. Connections
    BY ConstantsAssumption DEF SchedTypeOK
  <2>2. AtLeastOne(effectiveTarget - 1) \in 1 .. Connections
    BY ConstantsAssumption DEF SchedTypeOK, AtLeastOne
  <2> QED
    BY <2>1, <2>2 DEF Tick, CooldownExpires, Cancel, ParentCancelled, OnPressure,
       BackoffExpires, SuppressionExpires, OnAdmissionFailure, OnWorkerSuccess, adaptVars,
       SchedTypeOK
<1>5. admissionFailures' \in [Slots -> 0 .. 2]
  <2>1. \A s \in Slots : Least(admissionFailures[s] + 1, 2) \in 0 .. 2
    BY DEF SchedTypeOK, Least
  <2> QED
    BY <2>1 DEF Tick, CooldownExpires, Cancel, ParentCancelled, OnPressure,
       BackoffExpires, SuppressionExpires, OnAdmissionFailure, OnWorkerSuccess, adaptVars,
       SchedTypeOK
<1>6. cooling' \in BOOLEAN /\ suppressed' \subseteq Slots /\ cancelled' \in BOOLEAN
      /\ waiting' \subseteq Slots
  BY DEF Tick, CooldownExpires, Cancel, ParentCancelled, OnPressure, BackoffExpires,
         SuppressionExpires, OnAdmissionFailure, OnWorkerSuccess, adaptVars, SchedTypeOK,
         Broadcast
<1>7. SchedTypeOK'
  BY <1>1, <1>2, <1>3, <1>4, <1>5, <1>6 DEF SchedTypeOK
<1> QED BY <1>1, <1>7, NoMove

\* A hedge begun is one active request more, a hedge withdrawn one less.
LEMMA StartHedgeCounts ==
    ASSUME SchedInv, NEW c \in Chunks, NEW s \in Slots, StartHedge(c, s)
    PROVE  SchedInv' /\ Surplus' = Surplus + 1 /\ CountsInOrder
<1> USE DEF SchedInv
<1>1. /\ UNCHANGED <<state, workerSlot, ripe, nextUndispatched, completedCount, adaptVars,
                     cancelled, waiting>>
      /\ activeCount' = activeCount + 1
  BY DEF StartHedge
<1>2. \A t \in ChunkStates : InState(t)' = InState(t)
  BY <1>1 DEF InState
<1>3. SchedTypeOK'
  <2>1. attempts' \in [Chunks -> Nat]
    BY DEF StartHedge, SchedTypeOK
  <2> QED BY <2>1, <1>1, <1>2 DEF StartHedge, SchedTypeOK, adaptVars, ChunkStates
<1>4. Surplus' = Surplus + 1
  <2>1. Cardinality(InState("active")) \in Nat
    BY InStateIsNat DEF ChunkStates
  <2> QED BY <2>1, <1>1, <1>2 DEF Surplus, SchedTypeOK, ChunkStates
<1> QED BY <1>1, <1>2, <1>3, <1>4 DEF Dispatched, DispatchedInOrder, Excess, CountsInOrder,
                                     ChunkStates

LEMMA StartHedgeRefusedCounts ==
    ASSUME SchedInv, NEW c \in Chunks, StartHedgeRefused(c)
    PROVE  SchedInv' /\ Surplus' = Surplus /\ CountsInOrder
<1>1. UNCHANGED <<state, nextUndispatched, activeCount, completedCount>>
  BY DEF StartHedgeRefused, countVars
<1>2. SchedTypeOK'
  BY DEF SchedInv, StartHedgeRefused, SchedTypeOK, InState, countVars, adaptVars
<1> QED BY <1>1, <1>2, NoMove DEF SchedInv

LEMMA CancelHedgeCounts ==
    ASSUME SchedInv, NEW c \in Chunks, CancelHedge(c)
    PROVE  SchedInv' /\ Surplus' = Surplus - 1 /\ CountsInOrder
<1> USE DEF SchedInv
<1>1. /\ UNCHANGED <<state, nextUndispatched, completedCount>>
      /\ activeCount' = activeCount - 1
  BY DEF CancelHedge, chunkVars
<1>2. \A t \in ChunkStates : InState(t)' = InState(t)
  BY <1>1 DEF InState
<1>3. SchedTypeOK'
  <2>1. UNCHANGED <<state, attempts, workerSlot, ripe, hedged, nextUndispatched,
                    completedCount, effectiveTarget, cooling, admissionFailures,
                    suppressed, cancelled>>
    BY DEF CancelHedge, chunkVars, adaptVars
  <2>2. \/ hedgeActive' = FALSE /\ hedgedChunkIdx' = NoChunk
        \/ hedgeActive' = hedgeActive /\ hedgedChunkIdx' = hedgedChunkIdx
    BY DEF CancelHedge, hedgeVars
  <2>4. hedgeActive' \in BOOLEAN /\ hedgedChunkIdx' \in Chunks \cup {NoChunk}
    BY <2>2, Zenon DEF SchedTypeOK
  <2>5. waiting' \subseteq Slots /\ activeCount' \in Int
    BY <1>1 DEF CancelHedge, SchedTypeOK, Broadcast
  <2>3. InState("retryWait")' = InState("retryWait")
    BY <1>2 DEF ChunkStates
  <2> QED BY <2>1, <2>3, <2>4, <2>5 DEF SchedTypeOK
<1>4. Surplus' = Surplus - 1
  <2>1. Cardinality(InState("active")) \in Nat
    BY InStateIsNat DEF ChunkStates
  <2> QED BY <2>1, <1>1, <1>2 DEF Surplus, SchedTypeOK, ChunkStates
<1> QED BY <1>1, <1>2, <1>3, <1>4 DEF Dispatched, DispatchedInOrder, Excess, CountsInOrder,
                                     ChunkStates

-----------------------------------------------------------------------------
(* The pool *)

\* What each goroutine holds agrees with where it is in its loop.
LoopsConsistent ==
    \A w \in Slots :
        /\ pc[w] \in {"hedge"} \cup Holding => cur[w] \in Chunks
        /\ pc[w] \in {"unhedge", "hedgeWon"} => w \in hedging
        /\ w \in hedging =>
            pc[w] \in {"open", "deliver", "unhedge", "hedgeWon", "abort", "broke"}

PoolInv ==
    /\ PoolTypeOK
    /\ Dispatched
    /\ Surplus = Cardinality(hedging)
    /\ LoopsConsistent

InOrderInv ==
    /\ DispatchedInOrder
    /\ Excess = 0
    /\ SuccessMeansComplete

\* Chunks completed before the job are a prefix: true of every fresh job.
ResumesInOrder ==
    \A done \in ResumeSets : \A c \in done : 0 .. c \subseteq done

-----------------------------------------------------------------------------
(* Initial states *)

LEMMA NewCounts ==
    ASSUME NEW done \in SUBSET Chunks, New(done)
    PROVE  /\ SchedInv /\ Surplus = 0 /\ Excess = 0
           /\ (\A c \in done : 0 .. c \subseteq done) => DispatchedInOrder
<1>1. InState("active") = {} /\ InState("retryWait") = {} /\ InState("completed") = done
  BY DEF New, InState
<1>2. IsFiniteSet(done) /\ Cardinality(done) \in Nat
  BY ChunksFinite, FS_Subset, FS_CardinalityType
<1>3. Surplus = 0 /\ Excess = 0
  BY <1>1, <1>2, FS_EmptySet DEF Surplus, Excess, New
<1>4. nextUndispatched \in 0 .. NumChunks
  <2>1. CompletedPrefix(done) \in SUBSET Chunks
    BY DEF CompletedPrefix
  <2>2. Cardinality(CompletedPrefix(done)) \in Nat
        /\ Cardinality(CompletedPrefix(done)) <= NumChunks
    BY <2>1, ChunksFinite, FS_Subset, FS_CardinalityType
  <2> QED BY <2>2, ConstantsAssumption DEF New
<1>5. effectiveTarget \in 1 .. Connections
  BY ConstantsAssumption DEF New, StartTarget, AtLeastOne, Least
<1>6. SchedTypeOK
  <2>1. state \in [Chunks -> ChunkStates] /\ workerSlot \in [Chunks -> Slots \cup {-1}]
    BY DEF New, ChunkStates
  <2>2. attempts \in [Chunks -> Nat] /\ admissionFailures \in [Slots -> 0 .. 2]
    BY DEF New
  <2>3. /\ ripe \subseteq InState("retryWait") /\ hedged \subseteq Chunks
        /\ suppressed \subseteq Slots /\ waiting \subseteq Slots
        /\ activeCount \in Int /\ completedCount \in Nat
        /\ hedgedChunkIdx \in Chunks \cup {NoChunk}
    BY <1>2 DEF New
  <2>4. cooling \in BOOLEAN /\ hedgeActive \in BOOLEAN /\ cancelled \in BOOLEAN
    BY Zenon DEF New
  <2> QED BY <2>1, <2>2, <2>3, <2>4, <1>4, <1>5 DEF SchedTypeOK
<1>7. Dispatched
  BY DEF New, Dispatched
<1>8. ASSUME \A c \in done : 0 .. c \subseteq done
      PROVE  DispatchedInOrder
  <2>1. CompletedPrefix(done) = done
    <3>1. \A c \in Chunks : c \in 0 .. c
      BY DEF Chunks
    <3> QED BY <3>1, <1>8 DEF CompletedPrefix
  <2>2. ASSUME NEW c \in done PROVE c < Cardinality(done)
    <3>1. c \in Int /\ 0 \in Int /\ c >= 0
      BY ConstantsAssumption DEF Chunks
    <3>2. Cardinality(0 .. c) = c + 1
      BY <3>1, FS_Interval
    <3>3. Cardinality(0 .. c) <= Cardinality(done)
      BY <1>8, <1>2, FS_Subset
    <3> QED BY <3>1, <3>2, <3>3, <1>2
  <2>3. \A c \in Chunks : c >= nextUndispatched => c \notin done
    BY <2>1, <2>2, <1>2, ConstantsAssumption DEF New, Chunks
  <2> QED BY <2>3 DEF DispatchedInOrder, New
<1> QED BY <1>3, <1>6, <1>7, <1>8 DEF SchedInv

LEMMA PoolInit == Init => PoolInv /\ (ResumesInOrder => InOrderInv)
<1> SUFFICES ASSUME Init PROVE PoolInv /\ (ResumesInOrder => InOrderInv)
  OBVIOUS
<1>1. PICK done \in ResumeSets : New(done)
  BY DEF Init
<1>2. done \in SUBSET Chunks
  BY ConstantsAssumption
<1>3. SchedInv /\ Surplus = 0 /\ Excess = 0
  BY <1>1, <1>2, NewCounts
<1>4. PoolTypeOK
  BY <1>3 DEF SchedInv, PoolTypeOK, Init, Fresh, Labels
<1>5. Surplus = Cardinality(hedging)
  BY <1>3, FS_EmptySet DEF Init, Fresh
<1>6. LoopsConsistent
  BY DEF Init, Fresh, LoopsConsistent, Holding
<1>7. SuccessMeansComplete
  BY DEF Init, Fresh, SuccessMeansComplete
<1>8. ResumesInOrder => DispatchedInOrder
  BY <1>1, <1>2, NewCounts DEF ResumesInOrder
<1> QED BY <1>3, <1>4, <1>5, <1>6, <1>7, <1>8 DEF SchedInv, PoolInv, InOrderInv

-----------------------------------------------------------------------------
(* Every step keeps the scheduler's part of the invariant *)

LEMMA SlotsFinite == \A set \in SUBSET Slots : IsFiniteSet(set) /\ Cardinality(set) \in Nat
<1>1. 0 \in Int /\ Connections - 1 \in Int
  BY ConstantsAssumption
<1>2. IsFiniteSet(Slots)
  BY <1>1, FS_Interval DEF Slots
<1> QED
  BY <1>2, FS_Subset, FS_CardinalityType

SchedPart == SchedInv' /\ CountsInOrder /\ Surplus' = Cardinality(hedging')

\* A step that leaves the scheduler and the hedges alone.
LEMMA QuietStep ==
    ASSUME PoolInv, UNCHANGED <<schedVars, hedging>>
    PROVE  SchedPart
<1>1. UNCHANGED <<state, attempts, workerSlot, ripe, hedged, nextUndispatched, activeCount,
                  completedCount, effectiveTarget, cooling, admissionFailures, suppressed,
                  hedgeActive, hedgedChunkIdx, cancelled, waiting>>
  BY DEF schedVars, chunkVars, countVars, adaptVars, hedgeVars
<1>2. SchedTypeOK'
  BY <1>1 DEF PoolInv, PoolTypeOK, SchedTypeOK, InState
<1>3. Dispatched' /\ Surplus' = Surplus /\ CountsInOrder
  BY <1>1, NoMove DEF PoolInv
<1> QED
  BY <1>2, <1>3 DEF PoolInv, SchedInv, SchedPart

\* A step that makes one call of the scheduler which moves no hedge.
LEMMA EvenStep ==
    ASSUME PoolInv, SchedInv', CountsInOrder, Surplus' = Surplus, hedging' = hedging
    PROVE  SchedPart
BY DEF PoolInv, SchedPart

LEMMA LoopStepCounts ==
    ASSUME PoolInv, NEW w \in Slots, LoopStep(w)
    PROVE  SchedPart
<1> USE DEF Move
<1>0. SchedInv /\ pc[w] \in Labels
  BY DEF PoolInv, PoolTypeOK, SchedInv
<1>1. CASE Leave(w) \/ SkipHedge(w)
  BY <1>1, QuietStep DEF Leave, SkipHedge
<1>2. CASE BeginHedge(w)
  <2>1. PICK s \in Slots : StartHedge(cur[w], s)
    BY <1>2 DEF BeginHedge
  <2>2. cur[w] \in Chunks /\ w \notin hedging
    BY <1>2 DEF BeginHedge, PoolInv, LoopsConsistent
  <2>3. SchedInv' /\ Surplus' = Surplus + 1 /\ CountsInOrder
    BY <1>0, <2>1, <2>2, StartHedgeCounts
  <2>4. hedging' = hedging \cup {w} /\ hedging \in SUBSET Slots
    BY <1>2 DEF BeginHedge, PoolInv, PoolTypeOK
  <2>5. Cardinality(hedging') = Cardinality(hedging) + 1
    BY <2>2, <2>4, SlotsFinite, FS_AddElement
  <2> QED BY <2>3, <2>5 DEF PoolInv, SchedPart
<1>3. CASE NoHedgeSlot(w)
  <2>1. cur[w] \in Chunks /\ StartHedgeRefused(cur[w]) /\ hedging' = hedging
    BY <1>3 DEF NoHedgeSlot, PoolInv, LoopsConsistent
  <2> QED BY <1>0, <2>1, StartHedgeRefusedCounts, EvenStep
<1>4. CASE Take(w)
  <2>1. slot[w] \in Slots /\ hedging' = hedging
    BY <1>4 DEF Take, PoolInv, PoolTypeOK
  <2>2. PICK c \in Chunks : NextChunk(c, slot[w])
    BY <1>4 DEF Take
  <2> QED BY <1>0, <2>1, <2>2, NextChunkCounts, EvenStep
<1>5. CASE Wait(w) \/ NoMoreWork(w) \/ Stopped(w)
  <2>1. slot[w] \in Slots /\ hedging' = hedging
    BY <1>5 DEF Wait, NoMoreWork, Stopped, PoolInv, PoolTypeOK, poolVars
  <2>2. NextStopped \/ NextComplete \/ NextWait(w, slot[w])
    BY <1>5 DEF Wait, NoMoreWork, Stopped
  <2> QED BY <1>0, <2>1, <2>2, NextIdleCounts, EvenStep
<1>6. CASE AdmissionFailed(w) \/ Report(w)
  <2>1. slot[w] \in Slots /\ hedging' = hedging
    BY <1>6 DEF AdmissionFailed, Report, PoolInv, PoolTypeOK
  <2>2. OnAdmissionFailure(slot[w]) \/ OnWorkerSuccess(slot[w])
    BY <1>6 DEF AdmissionFailed, Report
  <2> QED BY <1>0, <2>1, <2>2, AdaptationCounts, EvenStep
<1>7. CASE Retry(w) \/ Abort(w)
  <2>1. cur[w] \in Chunks /\ hedging' = hedging
    BY <1>7 DEF Retry, Abort, PoolInv, LoopsConsistent, Holding
  <2>2. MarkFailed(cur[w], TRUE) \/ MarkFailed(cur[w], FALSE)
    BY <1>7 DEF Retry, Abort
  <2> QED BY <1>0, <2>1, <2>2, MarkFailedCounts, EvenStep
<1>8. CASE HedgeFailed(w) \/ HedgeDelivered(w)
  <2>1. cur[w] \in Chunks /\ w \in hedging
    BY <1>8 DEF HedgeFailed, HedgeDelivered, PoolInv, LoopsConsistent, Holding
  <2>2. CancelHedge(cur[w]) /\ hedging' = hedging \ {w} /\ hedging \in SUBSET Slots
    BY <1>8 DEF HedgeFailed, HedgeDelivered, PoolInv, PoolTypeOK
  <2>3. SchedInv' /\ Surplus' = Surplus - 1 /\ CountsInOrder
    BY <1>0, <2>1, <2>2, CancelHedgeCounts
  <2>4. Cardinality(hedging') = Cardinality(hedging) - 1
    BY <2>1, <2>2, SlotsFinite, FS_RemoveElement
  <2> QED BY <2>3, <2>4 DEF PoolInv, SchedPart
<1>9. CASE Acknowledge(w)
  <2>1. cur[w] \in Chunks /\ MarkComplete(cur[w]) /\ hedging' = hedging
    BY <1>9 DEF Acknowledge, PoolInv, LoopsConsistent, Holding
  <2> QED BY <1>0, <2>1, MarkCompleteCounts, EvenStep
<1> QED
  BY <1>1, <1>2, <1>3, <1>4, <1>5, <1>6, <1>7, <1>8, <1>9 DEF LoopStep

LEMMA StepCounts ==
    ASSUME PoolInv, [Next]_vars
    PROVE  SchedPart
<1>0. SchedInv
  BY DEF PoolInv, PoolTypeOK, SchedInv
<1>1. ASSUME NEW w \in Slots, Worker(w) PROVE SchedPart
  <2>1. CASE LoopStep(w)
    BY <2>1, LoopStepCounts
  <2>2. CASE OpenStep(w)
    <3>1. UNCHANGED <<schedVars, hedging>>
      BY <2>2 DEF OpenStep, RequestStep, SinkStep, ConsiderHedge, Reserved, ReserveRefused, Fetched, OpenFailed,
                  ReadFailed, Delivered, DeliveryFailed, Move
    <3> QED BY <3>1, QuietStep
  <2> QED BY <1>1, <2>1, <2>2 DEF Worker
<1>2. CASE Runner
  <2>1. hedging' = hedging
    BY <1>2 DEF Runner, Receive, Conclude, PropagateInterrupt, poolVars
  <2>2. Cancel \/ UNCHANGED schedVars
    BY <1>2 DEF Runner, Receive, Conclude, PropagateInterrupt
  <2> QED BY <1>0, <2>1, <2>2, AdaptationCounts, EvenStep, QuietStep
<1>3. CASE Clock \/ Interrupt \/ Pressure
  <2>1. hedging' = hedging
    BY <1>3 DEF Clock, TickStep, CooldownStep, BackoffStep, SuppressionStep, WhileRunning,
                Interrupt, Pressure, poolVars
  <2>2. \/ Tick \/ CooldownExpires \/ ParentCancelled \/ OnPressure
        \/ \E c \in Chunks : BackoffExpires(c)
        \/ \E s \in Slots : SuppressionExpires(s)
    BY <1>3 DEF Clock, TickStep, CooldownStep, BackoffStep, SuppressionStep, Interrupt,
                Pressure
  <2> QED BY <1>0, <2>1, <2>2, AdaptationCounts, EvenStep
<1>4. CASE UNCHANGED vars \/ Finished
  BY <1>4, QuietStep DEF vars, Finished, poolVars
<1> QED BY <1>1, <1>2, <1>3, <1>4 DEF Next

-----------------------------------------------------------------------------
(* Every step keeps what the goroutines hold consistent *)

\* The variables that are not the scheduler's.
LoopTypeOK ==
    /\ pc \in [Slots -> Labels]
    /\ slot \in [Slots -> Slots]
    /\ cur \in [Slots -> Chunks \cup {NoChunk}]
    /\ hedging \subseteq Slots
    /\ interrupted \in BOOLEAN
    /\ received \subseteq Slots
    /\ firstErr \in BOOLEAN
    /\ exitCode \in {"none", "success", "failure"}

LEMMA LoopStepShape ==
    ASSUME LoopTypeOK, LoopsConsistent, NEW w \in Slots, Worker(w)
    PROVE  LoopTypeOK' /\ LoopsConsistent'
<1>1. UNCHANGED <<interrupted, received, firstErr, exitCode>>
  BY DEF Worker, LoopStep, OpenStep, RequestStep, SinkStep, Leave, SkipHedge, ConsiderHedge, BeginHedge, NoHedgeSlot,
         Take, Wait, NoMoreWork, Stopped, Reserved, ReserveRefused, Fetched, OpenFailed,
         ReadFailed, Delivered, DeliveryFailed, AdmissionFailed, Retry, HedgeFailed, Abort,
         HedgeDelivered, Report, Acknowledge, Move, runVars
<1>2. /\ interrupted' \in BOOLEAN /\ firstErr' \in BOOLEAN
  BY <1>1, Zenon DEF LoopTypeOK
<1>3. received' \subseteq Slots /\ exitCode' \in {"none", "success", "failure"}
  BY <1>1 DEF LoopTypeOK
<1>4. \* Back to the top, to NextAssignment, or out of the loop.
      ASSUME NEW to \in {"top", "next", "returned", "broke"},
             pc' = [pc EXCEPT ![w] = to],
             cur' = [cur EXCEPT ![w] = NoChunk] \/ cur' = cur,
             slot' = slot,
             \/ hedging' = hedging /\ (w \in hedging => to = "broke")
             \/ hedging' = hedging \ {w}
      PROVE  LoopTypeOK' /\ LoopsConsistent'
  <2>1. pc' \in [Slots -> Labels]
    BY <1>4 DEF LoopTypeOK, Labels, Ended
  <2>2. cur' \in [Slots -> Chunks \cup {NoChunk}] /\ slot' \in [Slots -> Slots]
    BY <1>4 DEF LoopTypeOK
  <2>3. hedging' \subseteq Slots
    BY <1>4 DEF LoopTypeOK
  <2>4. LoopsConsistent'
    BY <1>4 DEF LoopTypeOK, LoopsConsistent, Holding
  <2> QED BY <1>2, <1>3, <2>1, <2>2, <2>3, <2>4 DEF LoopTypeOK
<1>5. \* On with the chunk in hand, or with one just taken.
      ASSUME NEW to \in {"hedge"} \cup Holding, NEW c \in Chunks,
             pc' = [pc EXCEPT ![w] = to],
             cur' = [cur EXCEPT ![w] = c],
             slot' \in [Slots -> Slots],
             \/ hedging' = hedging
             \/ hedging' = hedging \ {w}
             \/ hedging' = hedging \cup {w},
             to \in {"unhedge", "hedgeWon"} => w \in hedging',
             w \in hedging' => to \in {"open", "deliver", "unhedge", "hedgeWon", "abort"}
      PROVE  LoopTypeOK' /\ LoopsConsistent'
  <2>1. pc' \in [Slots -> Labels]
    BY <1>5 DEF LoopTypeOK, Labels
  <2>2. cur' \in [Slots -> Chunks \cup {NoChunk}] /\ hedging' \subseteq Slots
    BY <1>5 DEF LoopTypeOK
  <2>3. LoopsConsistent'
    BY <1>5 DEF LoopTypeOK, LoopsConsistent
  <2> QED BY <1>2, <1>3, <1>5, <2>1, <2>2, <2>3 DEF LoopTypeOK
<1>6. pc[w] \in {"hedge"} \cup Holding => cur[w] \in Chunks /\ cur = [cur EXCEPT ![w] = cur[w]]
  BY DEF LoopTypeOK, LoopsConsistent
<1>7. /\ pc[w] \in {"unhedge", "hedgeWon"} => w \in hedging
      /\ w \in hedging =>
            pc[w] \in {"open", "deliver", "unhedge", "hedgeWon", "abort", "broke"}
  BY DEF LoopsConsistent
<1> USE DEF Move, Goto, Hold, Restart, Exit, AtNext
<1>8. CASE Leave(w) \/ SkipHedge(w) \/ NoHedgeSlot(w) \/ NoMoreWork(w) \/ Stopped(w)
  BY <1>4, <1>7, <1>8 DEF Leave, SkipHedge, NoHedgeSlot, NoMoreWork, Stopped
<1>9. CASE Retry(w) \/ Abort(w) \/ Acknowledge(w) \/ HedgeFailed(w)
  BY <1>4, <1>7, <1>9 DEF Retry, Abort, Acknowledge, HedgeFailed
<1>10. CASE Wait(w)
  <2>1. UNCHANGED <<pc, slot, cur, hedging>>
    BY <1>10 DEF Wait, poolVars
  <2> QED BY <1>2, <1>3, <2>1 DEF LoopTypeOK, LoopsConsistent
<1>11. CASE BeginHedge(w)
  <2>1. pc[w] = "hedge" /\ pc' = [pc EXCEPT ![w] = "open"] /\ cur' = cur
        /\ hedging' = hedging \cup {w} /\ \E s \in Slots : slot' = [slot EXCEPT ![w] = s]
    BY <1>11 DEF BeginHedge
  <2>2. slot' \in [Slots -> Slots]
    BY <2>1 DEF LoopTypeOK
  <2> QED BY <1>5, <1>6, <2>1, <2>2 DEF Holding
<1>12. CASE Take(w)
  <2>1. PICK c \in Chunks : cur' = [cur EXCEPT ![w] = c]
    BY <1>12 DEF Take
  <2>2. /\ pc[w] = "next" /\ UNCHANGED <<slot, hedging>>
        /\ pc' = [pc EXCEPT ![w] = "reserve"] \/ pc' = [pc EXCEPT ![w] = "open"]
    BY <1>12 DEF Take
  <2> QED BY <1>5, <1>7, <2>1, <2>2 DEF LoopTypeOK, Holding
<1>13. CASE AdmissionFailed(w) \/ HedgeDelivered(w) \/ Report(w)
  <2>1. /\ pc[w] \in Holding /\ UNCHANGED <<slot, cur>>
        /\ \/ pc' = [pc EXCEPT ![w] = "retry"] /\ hedging' = hedging /\ pc[w] = "admission"
           \/ pc' = [pc EXCEPT ![w] = "report"] /\ hedging' = hedging \ {w}
           \/ pc' = [pc EXCEPT ![w] = "ack"] /\ hedging' = hedging /\ pc[w] = "report"
    BY <1>13 DEF AdmissionFailed, HedgeDelivered, Report, Holding
  <2> QED BY <1>5, <1>6, <1>7, <2>1 DEF LoopTypeOK, Holding
<1>14. CASE \E c \in Chunks : ConsiderHedge(w, c, TRUE)
  <2>1. PICK c \in Chunks : ConsiderHedge(w, c, TRUE)
    BY <1>14
  <2>2. pc[w] = "top" /\ pc' = [pc EXCEPT ![w] = "hedge"] /\ cur' = [cur EXCEPT ![w] = c]
        /\ UNCHANGED <<slot, hedging>>
    BY <2>1 DEF ConsiderHedge
  <2>3. w \notin hedging'
    BY <1>7, <2>2
  <2> QED BY <1>5, <2>2, <2>3 DEF LoopTypeOK
<1>15. CASE Reserved(w) \/ ReserveRefused(w)
  BY <1>5, <1>6, <1>7, <1>15 DEF Reserved, ReserveRefused, LoopTypeOK, Holding
<1>16. CASE Fetched(w) \/ OpenFailed(w) \/ ReadFailed(w)
  BY <1>5, <1>6, <1>7, <1>16 DEF Fetched, OpenFailed, ReadFailed, LoopTypeOK, Holding
<1>17. CASE Delivered(w) \/ DeliveryFailed(w)
  BY <1>5, <1>6, <1>7, <1>17 DEF Delivered, DeliveryFailed, LoopTypeOK, Holding
<1> QED
  BY <1>8, <1>9, <1>10, <1>11, <1>12, <1>13, <1>14, <1>15, <1>16, <1>17
     DEF Worker, LoopStep, OpenStep, RequestStep, SinkStep

LEMMA StepShape ==
    ASSUME LoopTypeOK, LoopsConsistent, [Next]_vars
    PROVE  LoopTypeOK' /\ LoopsConsistent'
<1>1. ASSUME NEW w \in Slots, Worker(w) PROVE LoopTypeOK' /\ LoopsConsistent'
  BY <1>1, LoopStepShape
<1>2. ASSUME UNCHANGED <<pc, slot, cur, hedging>>,
             interrupted' \in BOOLEAN, firstErr' \in BOOLEAN,
             received' \subseteq Slots, exitCode' \in {"none", "success", "failure"}
      PROVE  LoopTypeOK' /\ LoopsConsistent'
  BY <1>2 DEF LoopTypeOK, LoopsConsistent
<1>3. ASSUME NEW w \in Slots, Receive(w) PROVE LoopTypeOK' /\ LoopsConsistent'
  <2>1. firstErr' = TRUE \/ firstErr' = firstErr
    BY <1>3 DEF Receive
  <2>2. interrupted' \in BOOLEAN /\ firstErr' \in BOOLEAN
    BY <1>3, <2>1, Zenon DEF Receive, LoopTypeOK
  <2> QED BY <1>2, <1>3, <2>2 DEF Receive, poolVars, LoopTypeOK
<1>4. CASE Conclude
  <2>1. interrupted' \in BOOLEAN /\ firstErr' \in BOOLEAN
    BY <1>4, Zenon DEF Conclude, LoopTypeOK
  <2> QED BY <1>2, <1>4, <2>1 DEF Conclude, poolVars, LoopTypeOK
<1>5. CASE Interrupt
  <2>1. interrupted' \in BOOLEAN /\ firstErr' \in BOOLEAN
    BY <1>5, Zenon DEF Interrupt, LoopTypeOK
  <2> QED BY <1>2, <1>5, <2>1 DEF Interrupt, poolVars, LoopTypeOK
<1>6. CASE PropagateInterrupt \/ Clock \/ Pressure \/ Finished \/ UNCHANGED vars
  <2>1. UNCHANGED <<pc, slot, cur, hedging, interrupted, received, firstErr, exitCode>>
    BY <1>6 DEF PropagateInterrupt, Clock, TickStep, CooldownStep, BackoffStep, SuppressionStep,
                WhileRunning, Pressure, Finished, vars, poolVars, runVars
  <2>2. interrupted' \in BOOLEAN /\ firstErr' \in BOOLEAN
    BY <2>1, Zenon DEF LoopTypeOK
  <2> QED BY <1>2, <2>1, <2>2 DEF LoopTypeOK
<1> QED
  BY <1>1, <1>3, <1>4, <1>5, <1>6 DEF Next, Runner

LEMMA PoolStep == PoolInv /\ [Next]_vars => PoolInv' /\ CountsInOrder
<1> SUFFICES ASSUME PoolInv, [Next]_vars PROVE PoolInv' /\ CountsInOrder
  OBVIOUS
<1>1. SchedPart
  BY StepCounts
<1>2. LoopTypeOK /\ LoopsConsistent
  BY DEF PoolInv, PoolTypeOK, LoopTypeOK
<1>3. LoopTypeOK' /\ LoopsConsistent'
  BY <1>2, StepShape
<1>4. PoolTypeOK'
  BY <1>1, <1>3 DEF SchedPart, SchedInv, LoopTypeOK, PoolTypeOK
<1> QED
  BY <1>1, <1>3, <1>4 DEF SchedPart, SchedInv, PoolInv

-----------------------------------------------------------------------------
(* A job that resumes in order *)

\* Only a step that saw every chunk counted lets a goroutine return nil, or
\* runWorkers report success.
LEMMA EndsWhenComplete ==
    ASSUME LoopTypeOK, [Next]_vars
    PROVE  /\ exitCode' = "success" => exitCode = "success" \/ JobComplete
           /\ \A w \in Slots : pc'[w] = "returned" => pc[w] = "returned" \/ JobComplete
<1> USE DEF LoopTypeOK, Move, Goto, Hold, Restart, Exit
<1>1. ASSUME NEW v \in Slots, Worker(v)
      PROVE  /\ exitCode' = exitCode
             /\ \A w \in Slots : pc'[w] = "returned" => pc[w] = "returned" \/ JobComplete
  <2>1. exitCode' = exitCode
    BY <1>1 DEF Worker, LoopStep, OpenStep, RequestStep, SinkStep, Leave, SkipHedge, ConsiderHedge, BeginHedge,
         NoHedgeSlot, Take, Wait, NoMoreWork, Stopped, Reserved, ReserveRefused, Fetched,
         OpenFailed, ReadFailed, Delivered, DeliveryFailed, AdmissionFailed, Retry,
         HedgeFailed, Abort, HedgeDelivered, Report, Acknowledge, runVars
  <2>2. CASE NoMoreWork(v)
    BY <2>1, <2>2 DEF NoMoreWork, NextComplete
  <2>3. ASSUME NEW to, to # "returned", pc' = [pc EXCEPT ![v] = to] \/ pc' = pc
        PROVE  \A w \in Slots : pc'[w] = "returned" => pc[w] = "returned"
    BY <2>3
  <2>4. CASE LoopStep(v) /\ ~NoMoreWork(v)
    BY <2>1, <2>3, <2>4 DEF LoopStep, Leave, SkipHedge, BeginHedge, NoHedgeSlot, Take, Wait,
         Stopped, AdmissionFailed, Retry, HedgeFailed, Abort, HedgeDelivered, Report,
         Acknowledge, poolVars
  <2>5. CASE OpenStep(v)
    BY <2>1, <2>3, <2>5 DEF OpenStep, RequestStep, SinkStep, ConsiderHedge, Reserved, ReserveRefused, Fetched,
         OpenFailed, ReadFailed, Delivered, DeliveryFailed
  <2> QED BY <1>1, <2>2, <2>4, <2>5 DEF Worker
<1>2. CASE Conclude
  BY <1>2 DEF Conclude, poolVars
<1>3. CASE ~Conclude /\ ~\E w \in Slots : Worker(w)
  <2>1. UNCHANGED <<pc, exitCode>>
    BY <1>3 DEF Next, Runner, Receive, PropagateInterrupt, Clock, TickStep, CooldownStep,
         BackoffStep, SuppressionStep, WhileRunning, Interrupt, Pressure, Finished, vars,
         poolVars, runVars
  <2> QED BY <2>1
<1> QED
  BY <1>1, <1>2, <1>3

LEMMA CompleteMeansAll ==
    ASSUME PoolInv, Excess = 0, JobComplete
    PROVE  InState("completed") = Chunks
<1>1. InState("completed") \in SUBSET Chunks
  BY DEF InState
<1>2. completedCount = Cardinality(InState("completed"))
  <2>1. completedCount \in Nat /\ Cardinality(InState("completed")) \in Nat
    BY <1>1, ChunksFinite, FS_Subset, FS_CardinalityType DEF PoolInv, PoolTypeOK, SchedTypeOK
  <2> QED BY <2>1 DEF Excess
<1>3. Cardinality(InState("completed")) <= NumChunks
  BY <1>1, ChunksFinite, FS_Subset
<1>4. Cardinality(InState("completed")) = Cardinality(Chunks)
  <2>1. completedCount \in Nat /\ NumChunks \in Nat
    BY ConstantsAssumption DEF PoolInv, PoolTypeOK, SchedTypeOK
  <2> QED BY <1>2, <1>3, <2>1, ChunksFinite DEF JobComplete
<1> QED
  BY <1>1, <1>4, ChunksFinite, FS_Subset

LEMMA InOrderStep ==
    ASSUME PoolInv, InOrderInv, [Next]_vars
    PROVE  /\ InOrderInv'
           /\ \A c \in Chunks : state[c] = "completed" => state'[c] = "completed"
<1>1. /\ DispatchedInOrder' /\ Excess' = Excess
      /\ \A c \in Chunks : state[c] = "completed" => state'[c] = "completed"
  BY PoolStep DEF InOrderInv, CountsInOrder
<1>2. InState("completed") = Chunks => InState("completed")' = Chunks
  BY <1>1 DEF InState
<1>3. JobComplete => InState("completed") = Chunks
  BY CompleteMeansAll DEF InOrderInv
<1>4. /\ exitCode' = "success" => exitCode = "success" \/ JobComplete
      /\ \A w \in Slots : pc'[w] = "returned" => pc[w] = "returned" \/ JobComplete
  BY EndsWhenComplete DEF PoolInv, PoolTypeOK, LoopTypeOK
<1>5. SuccessMeansComplete'
  BY <1>2, <1>3, <1>4 DEF InOrderInv, SuccessMeansComplete
<1> QED
  BY <1>1, <1>5 DEF InOrderInv

-----------------------------------------------------------------------------
(* Every active chunk has a goroutine that will report on it *)

\* v's step leaves the other goroutines alone.
LEMMA OthersKeep ==
    ASSUME LoopTypeOK, NEW v \in Slots, Worker(v), NEW w \in Slots, w # v
    PROVE  pc'[w] = pc[w] /\ cur'[w] = cur[w] /\ (w \in hedging' => w \in hedging)
<1> USE DEF LoopTypeOK, Goto, Hold
<1>1. CASE Leave(v) \/ SkipHedge(v) \/ BeginHedge(v) \/ NoHedgeSlot(v)
  BY <1>1 DEF Leave, SkipHedge, BeginHedge, NoHedgeSlot, Restart, Move
<1>2. CASE Take(v) \/ NoMoreWork(v) \/ Stopped(v)
  BY <1>2 DEF Take, NoMoreWork, Stopped, Exit
<1>3. CASE Wait(v)
  BY <1>3 DEF Wait, poolVars
<1>4. CASE AdmissionFailed(v) \/ Retry(v) \/ HedgeFailed(v) \/ Abort(v)
  <2>1. \/ pc' = [pc EXCEPT ![v] = "retry"] /\ cur' = cur
        \/ \E label : pc' = [pc EXCEPT ![v] = label] /\ cur' = [cur EXCEPT ![v] = NoChunk]
    BY <1>4 DEF AdmissionFailed, Retry, HedgeFailed, Abort, Restart, Exit
  <2>2. hedging' = hedging \/ hedging' = hedging \ {v}
    BY <1>4 DEF AdmissionFailed, Retry, HedgeFailed, Abort
  <2> QED BY <2>1, <2>2
<1>5. CASE HedgeDelivered(v) \/ Report(v) \/ Acknowledge(v)
  BY <1>5 DEF HedgeDelivered, Report, Acknowledge, Restart, Exit, Move
<1>6. ASSUME NEW c \in Chunks, ConsiderHedge(v, c, TRUE)
      PROVE  pc'[w] = pc[w] /\ cur'[w] = cur[w] /\ (w \in hedging' => w \in hedging)
  BY <1>6 DEF ConsiderHedge
<1>7. CASE RequestStep(v) \/ SinkStep(v)
  <2>1. (\E from, to : Move(v, from, to)) \/ ReadFailed(v) \/ OpenFailed(v)
    BY <1>7 DEF RequestStep, SinkStep, Reserved, ReserveRefused, Fetched, Delivered, DeliveryFailed
  <2> QED BY <2>1 DEF ReadFailed, OpenFailed, Move
<1> QED BY <1>1, <1>2, <1>3, <1>4, <1>5, <1>6, <1>7 DEF Worker, LoopStep, OpenStep

\* Only Take makes a chunk active, and the goroutine that takes it owns it.
LEMMA OnlyTakeActivates ==
    ASSUME PoolInv, NEW v \in Slots, Worker(v),
           NEW c \in Chunks, state'[c] = "active", state[c] # "active"
    PROVE  cur'[v] = c /\ pc'[v] \in Holding /\ v \notin hedging'
<1>1. state \in [Chunks -> ChunkStates] /\ LoopTypeOK /\ LoopsConsistent
  BY DEF PoolInv, PoolTypeOK, SchedTypeOK, LoopTypeOK
<1>2. CASE Take(v)
  <2>1. PICK d \in Chunks : NextChunk(d, slot[v]) /\ cur' = [cur EXCEPT ![v] = d]
    BY <1>2 DEF Take, Hold
  <2>2. d = c
    BY <1>1, <2>1 DEF NextChunk, Assign
  <2>3. pc[v] = "next" /\ hedging' = hedging /\ pc'[v] \in {"reserve", "open"}
    BY <1>1, <1>2 DEF Take, AtNext, Goto, LoopTypeOK
  <2>4. v \notin hedging'
    BY <1>1, <2>3 DEF LoopsConsistent
  <2> QED BY <1>1, <2>1, <2>2, <2>3, <2>4 DEF LoopTypeOK, Holding
<1>3. CASE Retry(v) \/ Abort(v)
  <2>1. MarkFailed(cur[v], TRUE) \/ MarkFailed(cur[v], FALSE)
    BY <1>3 DEF Retry, Abort
  <2>2. state' = state \/ state' = [state EXCEPT ![cur[v]] = "retryWait"]
        \/ state' = [state EXCEPT ![cur[v]] = "failed"]
    BY <2>1 DEF MarkFailed, RetryLater, GiveUp
  <2> QED BY <1>1, <2>2
<1>4. CASE Acknowledge(v)
  <2>1. state' = state \/ state' = [state EXCEPT ![cur[v]] = "completed"]
    BY <1>4 DEF Acknowledge, MarkComplete
  <2> QED BY <1>1, <2>1
<1>5. CASE ~(Take(v) \/ Retry(v) \/ Abort(v) \/ Acknowledge(v))
  <2>1. state' = state
    BY <1>5 DEF Worker, LoopStep, OpenStep, RequestStep, SinkStep, Leave, SkipHedge,
       ConsiderHedge, BeginHedge, NoHedgeSlot, Wait, NoMoreWork, Stopped, Reserved,
       ReserveRefused, Fetched, OpenFailed, ReadFailed, Delivered, DeliveryFailed,
       AdmissionFailed, HedgeFailed, HedgeDelivered, Report, Move, StartHedge,
       StartHedgeRefused, NextWait, NextComplete, NextStopped, OnAdmissionFailure,
       CancelHedge, OnWorkerSuccess, schedVars, chunkVars
  <2> QED BY <2>1
<1> QED BY <1>2, <1>3, <1>4, <1>5

\* An owner lets go of a chunk only with a report that ends its being active.
LEMMA OwnersReport ==
    ASSUME PoolInv, NEW v \in Slots, Worker(v), v \notin hedging, pc[v] \in Holding,
           state[cur[v]] = "active", state'[cur[v]] = "active"
    PROVE  cur'[v] = cur[v] /\ pc'[v] \in Holding /\ v \notin hedging'
<1>1. /\ state \in [Chunks -> ChunkStates] /\ LoopTypeOK /\ LoopsConsistent
      /\ cur[v] \in Chunks
  BY DEF PoolInv, PoolTypeOK, SchedTypeOK, LoopTypeOK, LoopsConsistent
<1>2. CASE Retry(v) \/ Abort(v)
  <2>1. MarkFailed(cur[v], TRUE) \/ MarkFailed(cur[v], FALSE)
    BY <1>2 DEF Retry, Abort
  <2>2. \/ state' = [state EXCEPT ![cur[v]] = "retryWait"]
        \/ state' = [state EXCEPT ![cur[v]] = "failed"]
    BY <2>1 DEF MarkFailed, RetryLater, GiveUp
  <2> QED BY <1>1, <2>2
<1>3. CASE Acknowledge(v)
  <2>1. state' = [state EXCEPT ![cur[v]] = "completed"]
    BY <1>3 DEF Acknowledge, MarkComplete
  <2> QED BY <1>1, <2>1
<1>4. pc[v] \notin {"top", "hedge", "next", "unhedge", "hedgeWon"}
  BY <1>1 DEF Holding, LoopsConsistent
<1>5. CASE AdmissionFailed(v) \/ Report(v)
  BY <1>1, <1>5 DEF AdmissionFailed, Report, Goto, LoopTypeOK, Holding
<1>6. CASE RequestStep(v) \/ SinkStep(v)
  BY <1>1, <1>6 DEF RequestStep, SinkStep, Reserved, ReserveRefused, Fetched, OpenFailed,
                    ReadFailed, Delivered, DeliveryFailed, Move, Goto, LoopTypeOK, Holding
<1> QED
  BY <1>2, <1>3, <1>4, <1>5, <1>6
     DEF Worker, LoopStep, OpenStep, Leave, SkipHedge, ConsiderHedge, BeginHedge, NoHedgeSlot,
         Take, Wait, NoMoreWork, Stopped, AtNext, HedgeFailed, HedgeDelivered, Move

LEMMA OwnersStay ==
    ASSUME PoolInv, ActiveChunksAreOwned, [Next]_vars
    PROVE  ActiveChunksAreOwned'
<1>1. LoopTypeOK
  BY DEF PoolInv, PoolTypeOK, LoopTypeOK
<1>2. ASSUME NEW v \in Slots, Worker(v) PROVE ActiveChunksAreOwned'
  <2> SUFFICES ASSUME NEW c \in Chunks, state'[c] = "active"
               PROVE  \E w \in Slots \ hedging' : cur'[w] = c /\ pc'[w] \in Holding
    BY DEF ActiveChunksAreOwned, InState
  <2>1. CASE state[c] # "active"
    BY <1>2, <2>1, OnlyTakeActivates
  <2>2. CASE state[c] = "active"
    <3>1. PICK w \in Slots \ hedging : cur[w] = c /\ pc[w] \in Holding
      BY <2>2 DEF ActiveChunksAreOwned, InState
    <3>2. CASE w = v
      BY <1>2, <2>2, <3>1, <3>2, OwnersReport
    <3>3. CASE w # v
      BY <1>1, <1>2, <3>1, <3>3, OthersKeep
    <3> QED BY <3>2, <3>3
  <2> QED BY <2>1, <2>2
<1>3. CASE ~\E v \in Slots : Worker(v)
  <2>1. UNCHANGED <<state, pc, cur, hedging>>
    BY <1>3 DEF Next, Runner, Receive, Conclude, PropagateInterrupt, Clock, TickStep,
         CooldownStep, BackoffStep, SuppressionStep, WhileRunning, Interrupt, Pressure,
         Finished, Cancel, ParentCancelled, OnPressure, Tick, CooldownExpires,
         BackoffExpires, SuppressionExpires, vars, poolVars, schedVars, chunkVars
  <2> QED BY <2>1 DEF ActiveChunksAreOwned, InState
<1> QED BY <1>2, <1>3

-----------------------------------------------------------------------------
(* Theorems *)

\* The inductive invariant, for every pool and every set of chunks that a resume
\* starts from: types, undispatched chunks untouched, each hedge counted once in
\* activeCount, and every goroutine's chunk and hedge flag agreeing with its place.
THEOREM PoolIsConsistent == Spec => []PoolInv
<1>1. Init => PoolInv
  BY PoolInit
<1>2. PoolInv /\ [Next]_vars => PoolInv'
  BY PoolStep
<1> QED
  BY <1>1, <1>2, PTL DEF Spec

\* Type correctness of scheduler, goroutines and runner.
THEOREM PoolIsTyped == Spec => []PoolTypeOK
<1>1. PoolInv => PoolTypeOK
  BY DEF PoolInv
<1> QED
  BY <1>1, PoolIsConsistent, PTL

\* activeCount is never out of step with the requests in flight: every assignment
\* and hedge taken from it (NextAssignment, StartHedge) is given back exactly once
\* (MarkComplete, MarkFailed, CancelHedge), in whatever order the goroutines end.
THEOREM ActiveCountIsExact == Spec => []ActiveCountMatches
<1>1. PoolInv => ActiveCountMatches
  <2> SUFFICES ASSUME PoolInv PROVE ActiveCountMatches
    OBVIOUS
  <2>2. InState("active") \in SUBSET Chunks
    BY DEF InState
  <2>3. Cardinality(InState("active")) \in Nat /\ Cardinality(hedging) \in Nat
    BY <2>2, ChunksFinite, FS_Subset, FS_CardinalityType, SlotsFinite DEF PoolInv, PoolTypeOK
  <2>4. activeCount \in Int /\ Surplus = Cardinality(hedging)
    BY DEF PoolInv, PoolTypeOK, SchedTypeOK
  <2> QED BY <2>3, <2>4 DEF Surplus, ActiveCountMatches
<1> QED
  BY <1>1, PoolIsConsistent, PTL

\* No active chunk is ever orphaned, retries, hedges and late reports included: some
\* goroutine that is not merely hedging it still has to report on it.
THEOREM NoOrphans == Spec => []ActiveChunksAreOwned
<1>1. Init => ActiveChunksAreOwned
  BY DEF Init, New, ActiveChunksAreOwned, InState
<1>2. PoolInv /\ ActiveChunksAreOwned /\ [Next]_vars => ActiveChunksAreOwned'
  BY OwnersStay
<1> QED
  BY <1>1, <1>2, PoolIsConsistent, PTL DEF Spec

\* The stronger invariant of a job whose completed chunks, if it resumes, are a
\* prefix of the file.
THEOREM InOrderJobIsConsistent ==
    ASSUME ResumesInOrder
    PROVE  Spec => [](PoolInv /\ InOrderInv)
<1>1. Init => PoolInv /\ InOrderInv
  BY PoolInit, ResumesInOrder
<1>2. PoolInv /\ InOrderInv /\ [Next]_vars => (PoolInv /\ InOrderInv)'
  BY PoolStep, InOrderStep
<1> QED
  BY <1>1, <1>2, PTL DEF Spec

\* completedCount, which ends the job, counts each completed chunk exactly once,
\* though an original and its hedge may both deliver the same chunk.
THEOREM CompletedCountIsExact ==
    ASSUME ResumesInOrder
    PROVE  Spec => []CompletedCountMatches
<1>1. PoolInv /\ InOrderInv => CompletedCountMatches
  <2> SUFFICES ASSUME PoolInv, InOrderInv PROVE CompletedCountMatches
    OBVIOUS
  <2>2. InState("completed") \in SUBSET Chunks
    BY DEF InState
  <2>3. completedCount \in Nat /\ Cardinality(InState("completed")) \in Nat
    BY <2>2, ChunksFinite, FS_Subset, FS_CardinalityType DEF PoolInv, PoolTypeOK, SchedTypeOK
  <2> QED BY <2>3 DEF InOrderInv, Excess, CompletedCountMatches
<1> QED
  BY <1>1, InOrderJobIsConsistent, PTL

\* runWorkers reports success, and a goroutine returns nil, only when every chunk
\* is completed.
THEOREM SuccessIsComplete ==
    ASSUME ResumesInOrder
    PROVE  Spec => []SuccessMeansComplete
<1>1. InOrderInv => SuccessMeansComplete
  BY DEF InOrderInv
<1> QED
  BY <1>1, InOrderJobIsConsistent, PTL

\* No step of anyone, a late report on a chunk somebody else finished included,
\* takes a completed chunk back.
THEOREM CompletedStaysCompleted ==
    ASSUME ResumesInOrder
    PROVE  Spec => CompletedIsFinal
<1>1. PoolInv /\ InOrderInv /\ [Next]_vars
        => [\A c \in Chunks : state[c] = "completed" => state'[c] = "completed"]_vars
  BY InOrderStep
<1> QED
  BY <1>1, InOrderJobIsConsistent, PTL DEF Spec, CompletedIsFinal
=============================================================================
