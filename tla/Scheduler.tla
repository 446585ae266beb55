------------------------------ MODULE Scheduler ------------------------------
(***************************************************************************)
(* internal/schedule/scheduler.go and stats.go: the chunk scheduler and    *)
(* connection controller shared by the worker goroutines of one download.  *)
(*                                                                         *)
(* Every exported method of Scheduler runs under s.mu from its first line  *)
(* to its last, so each is one action here, with one action per outcome    *)
(* where a method has several.  The module has no Next of its own: the     *)
(* callers (WorkerPool, and through it StreamJob and FileJob) say who      *)
(* calls what, and when.                                                   *)
(*                                                                         *)
(* Time is abstracted to what the code asks of it: "has this deadline      *)
(* passed?".  A deadline is set by the action that sets it in the code and *)
(* passes in an action of its own (BackoffExpires, SuppressionExpires,     *)
(* CooldownExpires), at any later moment.                                  *)
(***************************************************************************)
EXTENDS Integers, FiniteSets

CONSTANTS
    Connections,     \* cfg.RequestedConnections
    NumChunks,       \* len(chunks)
    MaxTries,        \* cfg.MaxTries
    StreamMode,      \* cfg.StreamMode: TRUE when there is a stream sink
    BufferChunks,    \* cfg.StreamBufferSize / cfg.SplitSize
    ResumeSets,      \* sets of chunks that may be Completed when New is called
    RestoreAfter,    \* completed chunks needed to restore a slot (4 in the code)
    HedgeMinDone,    \* durations needed before hedging          (4 in the code)
    HedgeMinLater    \* later chunks that must be done to hedge  (2 in the code)

Chunks == 0 .. NumChunks - 1
Slots  == 0 .. Connections - 1   \* also the identities of the worker goroutines
NoChunk == -1

ASSUME ConstantsAssumption ==
    /\ Connections \in Nat \ {0}      \* parser.go: n < 1 is rejected
    /\ NumChunks \in Nat \ {0}        \* a parallel download has a positive size
    /\ MaxTries \in Nat \ {0}         \* parser.go: n < 1 is rejected
    /\ StreamMode \in BOOLEAN
    /\ BufferChunks \in Nat \ {0}     \* validate: BufferSize >= SplitSize
    /\ RestoreAfter \in Nat \ {0}
    /\ HedgeMinDone \in Nat
    /\ HedgeMinLater \in Nat
    /\ ResumeSets \subseteq SUBSET Chunks
    /\ Chunks \notin ResumeSets       \* downloadParallelFile returns early
    /\ StreamMode => ResumeSets \subseteq {{}}

VARIABLES
    state,              \* chunk.State of every chunk
    attempts,           \* chunk.Attempts
    workerSlot,         \* chunk.WorkerSlot
    ripe,               \* retry-wait chunks whose RetryAfter has passed
    hedged,             \* chunks with Hedged set
    nextUndispatched,   \* first chunk never handed out
    activeCount,
    completedCount,
    effectiveTarget,
    cooling,            \* now is not after cooldownUntil
    admissionFailures,  \* WorkerStats.AdmissionFailures, counted up to 2
    suppressed,         \* slots whose SuppressedUntil has not passed
    hedgeActive,
    hedgedChunkIdx,
    cancelled,          \* s.ctx is done
    waiting             \* goroutines inside cond.Wait

chunkVars == <<state, attempts, workerSlot, ripe, hedged>>
countVars == <<nextUndispatched, activeCount, completedCount>>
adaptVars == <<effectiveTarget, cooling, admissionFailures, suppressed>>
hedgeVars == <<hedgeActive, hedgedChunkIdx>>
schedVars == <<chunkVars, countVars, adaptVars, hedgeVars, cancelled, waiting>>

ChunkStates == {"pending", "active", "retryWait", "completed", "failed"}
InState(s) == {c \in Chunks : state[c] = s}

SchedTypeOK ==
    /\ state \in [Chunks -> ChunkStates]
    /\ attempts \in [Chunks -> Nat]
    /\ workerSlot \in [Chunks -> Slots \cup {-1}]
    /\ ripe \subseteq InState("retryWait")
    /\ hedged \subseteq Chunks
    /\ nextUndispatched \in 0 .. NumChunks
    /\ activeCount \in Int
    /\ completedCount \in Nat
    /\ effectiveTarget \in 1 .. Connections
    /\ cooling \in BOOLEAN
    /\ admissionFailures \in [Slots -> 0 .. 2]
    /\ suppressed \subseteq Slots
    /\ hedgeActive \in BOOLEAN
    /\ hedgedChunkIdx \in Chunks \cup {NoChunk}
    /\ cancelled \in BOOLEAN
    /\ waiting \subseteq Slots

-----------------------------------------------------------------------------
(* New *)

Least(a, b) == IF a < b THEN a ELSE b
AtLeastOne(n) == IF n < 1 THEN 1 ELSE n

\* The memory limit lowers the target in stream mode, the chunk count always.
StartTarget ==
    LET wanted == IF StreamMode THEN Least(Connections, BufferChunks) ELSE Connections
    IN  AtLeastOne(Least(wanted, NumChunks))

\* nextUndispatched starts after the completed prefix, and skips nothing else.
CompletedPrefix(done) == {c \in Chunks : 0 .. c \subseteq done}

New(done) ==
    /\ state = [c \in Chunks |-> IF c \in done THEN "completed" ELSE "pending"]
    /\ attempts = [c \in Chunks |-> 0]
    /\ workerSlot = [c \in Chunks |-> -1]
    /\ ripe = {} /\ hedged = {}
    /\ nextUndispatched = Cardinality(CompletedPrefix(done))
    /\ activeCount = 0
    /\ completedCount = Cardinality(done)
    /\ effectiveTarget = StartTarget
    /\ cooling = FALSE
    /\ admissionFailures = [s \in Slots |-> 0]
    /\ suppressed = {}
    /\ hedgeActive = FALSE /\ hedgedChunkIdx = NoChunk
    /\ cancelled = FALSE
    /\ waiting = {}

\* The same call by a process that is started again.
Renew(done) ==
    /\ state' = [c \in Chunks |-> IF c \in done THEN "completed" ELSE "pending"]
    /\ attempts' = [c \in Chunks |-> 0]
    /\ workerSlot' = [c \in Chunks |-> -1]
    /\ ripe' = {} /\ hedged' = {}
    /\ nextUndispatched' = Cardinality(CompletedPrefix(done))
    /\ activeCount' = 0
    /\ completedCount' = Cardinality(done)
    /\ effectiveTarget' = StartTarget
    /\ cooling' = FALSE
    /\ admissionFailures' = [s \in Slots |-> 0]
    /\ suppressed' = {}
    /\ hedgeActive' = FALSE /\ hedgedChunkIdx' = NoChunk
    /\ cancelled' = FALSE
    /\ waiting' = {}

-----------------------------------------------------------------------------
(* cond.Broadcast, the ticker, and the passing of time *)

Broadcast == waiting' = {}

\* retryTicker: one broadcast, while the scheduler's context is not done.
Tick ==
    /\ ~cancelled
    /\ waiting # {}
    /\ Broadcast
    /\ UNCHANGED <<chunkVars, countVars, adaptVars, hedgeVars, cancelled>>

\* A Duration has 64 bits and counts nanoseconds: 1 << n seconds are 5^9, of 21 bits,
\* shifted by 9 + n.  What is left of them when the first bits have reached the sign:
\* nothing, something below zero, or something far above the cap.
Overflown(shift) ==
    IF shift >= 64 THEN 0
    ELSE IF (1953125 \div 2 ^ (63 - shift)) % 2 = 1 THEN -1
    ELSE 30

\* In seconds.
RetryBackoff(tries) ==
    LET n == IF tries <= 0 THEN 1 ELSE tries
    IN  IF n + 8 + 21 > 63 THEN Overflown(n + 8)
        ELSE IF n <= 5 THEN <<1, 2, 4, 8, 16>>[n] ELSE 30

BackoffExpires(c) ==
    /\ state[c] = "retryWait" /\ c \notin ripe
    /\ ripe' = ripe \cup {c}
    /\ UNCHANGED <<state, attempts, workerSlot, hedged, countVars, adaptVars,
                   hedgeVars, cancelled, waiting>>

SuppressionExpires(s) ==
    /\ s \in suppressed
    /\ suppressed' = suppressed \ {s}
    /\ UNCHANGED <<chunkVars, countVars, effectiveTarget, cooling,
                   admissionFailures, hedgeVars, cancelled, waiting>>

CooldownExpires ==
    /\ cooling
    /\ cooling' = FALSE
    /\ UNCHANGED <<chunkVars, countVars, effectiveTarget, admissionFailures,
                   suppressed, hedgeVars, cancelled, waiting>>

\* MUTANT: nobody is woken.
CancelQuietly ==
    /\ cancelled' = TRUE
    /\ UNCHANGED <<chunkVars, countVars, adaptVars, hedgeVars, waiting>>

\* Cancel marks the context done under the lock and broadcasts after it; nobody
\* can start to wait between the two, so they are one step.
Cancel ==
    /\ cancelled' = TRUE
    /\ Broadcast
    /\ UNCHANGED <<chunkVars, countVars, adaptVars, hedgeVars>>

\* The parent context is cancelled: s.ctx is done at once, and nobody is woken.
ParentCancelled ==
    /\ cancelled' = TRUE
    /\ UNCHANGED <<chunkVars, countVars, adaptVars, hedgeVars, waiting>>

-----------------------------------------------------------------------------
(* NextAssignment, for goroutine w on slot s *)

\* cleanup: one slot is restored when the cooldown is over and enough is done.
MayRestore ==
    /\ effectiveTarget < Connections
    /\ ~cooling
    /\ completedCount >= RestoreAfter
TargetAfterCleanup == IF MayRestore THEN effectiveTarget + 1 ELSE effectiveTarget
Cleanup ==
    /\ effectiveTarget' = TargetAfterCleanup
    /\ cooling' = (cooling \/ MayRestore)
    /\ UNCHANGED <<admissionFailures, suppressed>>

fatalErr == InState("failed") # {}     \* set together with the state "failed"
\* MUTANT: chunks in flight count as complete.
JobCompleteEarly == completedCount + activeCount >= NumChunks

JobComplete == completedCount >= NumChunks

\* A retry whose backoff is over goes first, lowest index first; then the next
\* chunk never handed out.  (tryAssign, findRetryableChunk)
RipeRetry(c) == c \in ripe /\ \A d \in ripe : c <= d
NextNew(c)   == ripe = {} /\ c = nextUndispatched
SlotUsable(s) == s \notin suppressed /\ activeCount < TargetAfterCleanup
Assignable(c, s) == SlotUsable(s) /\ (RipeRetry(c) \/ NextNew(c))

\* assignChunk
Assign(c, s) ==
    /\ state' = [state EXCEPT ![c] = "active"]
    /\ workerSlot' = [workerSlot EXCEPT ![c] = s]
    /\ attempts' = [attempts EXCEPT ![c] = @ + 1]
    /\ ripe' = ripe \ {c}
    /\ activeCount' = activeCount + 1

NextStopped ==
    /\ cancelled \/ fatalErr
    /\ Cleanup
    /\ UNCHANGED <<chunkVars, countVars, hedgeVars, cancelled, waiting>>

NextComplete ==
    /\ ~cancelled /\ ~fatalErr
    /\ JobComplete
    /\ Cleanup
    /\ UNCHANGED <<chunkVars, countVars, hedgeVars, cancelled, waiting>>

\* MUTANT: nextUndispatched stays behind.
NextChunkAgain(c, s) ==
    /\ ~cancelled /\ ~fatalErr /\ ~JobComplete
    /\ Assignable(c, s)
    /\ Cleanup
    /\ Assign(c, s)
    /\ UNCHANGED <<hedged, nextUndispatched, completedCount, hedgeVars, cancelled, waiting>>

NextChunk(c, s) ==
    /\ ~cancelled /\ ~fatalErr /\ ~JobComplete
    /\ Assignable(c, s)
    /\ Cleanup
    /\ Assign(c, s)
    /\ nextUndispatched' = IF NextNew(c) THEN nextUndispatched + 1 ELSE nextUndispatched
    /\ UNCHANGED <<hedged, completedCount, hedgeVars, cancelled, waiting>>

\* Nothing to hand out: the goroutine waits, and starts over when woken.
NextWait(w, s) ==
    /\ ~cancelled /\ ~fatalErr /\ ~JobComplete
    /\ \A c \in Chunks : ~Assignable(c, s)
    /\ Cleanup
    /\ waiting' = waiting \cup {w}
    /\ UNCHANGED <<chunkVars, countVars, hedgeVars, cancelled>>

-----------------------------------------------------------------------------
(* Reports from the workers *)

\* MUTANT: the test that the chunk is still active is missing.
MarkCompleteUnguarded(c) ==
    /\ state' = [state EXCEPT ![c] = "completed"]
    /\ activeCount' = activeCount - 1
    /\ completedCount' = completedCount + 1
    /\ Broadcast
    /\ UNCHANGED <<attempts, workerSlot, ripe, hedged, nextUndispatched, adaptVars,
                   hedgeVars, cancelled>>

MarkComplete(c) ==
    /\ IF state[c] = "active"
         THEN /\ state' = [state EXCEPT ![c] = "completed"]
              /\ activeCount' = activeCount - 1
              /\ completedCount' = completedCount + 1
         ELSE UNCHANGED <<state, activeCount, completedCount>>
    /\ Broadcast
    /\ UNCHANGED <<attempts, workerSlot, ripe, hedged, nextUndispatched, adaptVars,
                   hedgeVars, cancelled>>

\* MUTANT: the first failure cancels the scheduler.
RetryLaterCancels(c) ==
    /\ state' = [state EXCEPT ![c] = "retryWait"]
    /\ cancelled' = TRUE

\* What MarkFailed does to an active chunk: wait for a retry, or give up, which
\* cancels the scheduler.
RetryLater(c) ==
    /\ state' = [state EXCEPT ![c] = "retryWait"]
    /\ UNCHANGED cancelled
GiveUp(c) ==
    /\ state' = [state EXCEPT ![c] = "failed"]
    /\ cancelled' = TRUE

\* MUTANT: the test that the chunk is still active is missing.
MarkFailedUnguarded(c, retryable) ==
    /\ activeCount' = activeCount - 1
    /\ IF retryable /\ attempts[c] < MaxTries THEN RetryLater(c) ELSE GiveUp(c)
    /\ Broadcast
    /\ UNCHANGED <<attempts, workerSlot, ripe, hedged, nextUndispatched, completedCount,
                   adaptVars, hedgeVars>>

\* MUTANT: one try too many.
MarkFailedOneMore(c, retryable) ==
    /\ IF state[c] = "active"
         THEN /\ activeCount' = activeCount - 1
              /\ IF retryable /\ attempts[c] <= MaxTries THEN RetryLater(c) ELSE GiveUp(c)
              /\ Broadcast
         ELSE UNCHANGED <<state, activeCount, cancelled, waiting>>
    /\ UNCHANGED <<attempts, workerSlot, ripe, hedged, nextUndispatched, completedCount,
                   adaptVars, hedgeVars>>

MarkFailed(c, retryable) ==
    /\ IF state[c] = "active"
         THEN /\ activeCount' = activeCount - 1
              /\ IF retryable /\ attempts[c] < MaxTries THEN RetryLater(c) ELSE GiveUp(c)
              /\ Broadcast
         ELSE UNCHANGED <<state, activeCount, cancelled, waiting>>
    /\ UNCHANGED <<attempts, workerSlot, ripe, hedged, nextUndispatched, completedCount,
                   adaptVars, hedgeVars>>

\* MUTANT: the target has no floor.
OnAdmissionFailureUnbounded(s) ==
    /\ IF admissionFailures[s] >= 1
         THEN /\ suppressed' = suppressed \cup {s}
              /\ effectiveTarget' = effectiveTarget - 1
         ELSE UNCHANGED <<suppressed, effectiveTarget>>
    /\ admissionFailures' = [admissionFailures EXCEPT ![s] = Least(@ + 1, 2)]
    /\ Broadcast
    /\ UNCHANGED <<chunkVars, countVars, cooling, hedgeVars, cancelled>>

\* RecordAdmissionFailure and the reaction to the second failure of a slot.
OnAdmissionFailure(s) ==
    /\ IF admissionFailures[s] >= 1
         THEN /\ suppressed' = suppressed \cup {s}
              /\ effectiveTarget' = AtLeastOne(effectiveTarget - 1)
         ELSE UNCHANGED <<suppressed, effectiveTarget>>
    /\ admissionFailures' = [admissionFailures EXCEPT ![s] = Least(@ + 1, 2)]
    /\ Broadcast
    /\ UNCHANGED <<chunkVars, countVars, cooling, hedgeVars, cancelled>>

\* Half of the target, rounded up, and a cooldown.
OnPressure ==
    /\ IF effectiveTarget > 1
         THEN effectiveTarget' = (effectiveTarget + 1) \div 2 /\ cooling' = TRUE
         ELSE UNCHANGED <<effectiveTarget, cooling>>
    /\ Broadcast
    /\ UNCHANGED <<chunkVars, countVars, admissionFailures, suppressed, hedgeVars,
                   cancelled>>

\* RecordSuccess; the throughput figures it keeps are read by nobody.
OnWorkerSuccess(s) ==
    /\ admissionFailures' = [admissionFailures EXCEPT ![s] = 0]
    /\ UNCHANGED <<chunkVars, countVars, effectiveTarget, cooling, suppressed,
                   hedgeVars, cancelled, waiting>>

-----------------------------------------------------------------------------
(* Hedging *)

Later(c) == {d \in Chunks : d > c /\ state[d] = "completed"}

\* HedgeEligible for the frontier chunk c.  "room" is the sink's answer: the
\* reservation of c fits beside those already made.  That c is slow (twice the
\* median duration) is left to chance, as the callers may also not hedge.  In
\* stream mode nothing starts completed: one duration per completed chunk.
HedgeEligible(c, room) ==
    /\ StreamMode
    /\ ~hedgeActive
    /\ c \in Chunks
    /\ state[c] = "active" /\ c \notin hedged
    /\ completedCount >= HedgeMinDone
    /\ Cardinality(Later(c)) >= HedgeMinLater
    /\ activeCount < effectiveTarget
    /\ room

\* Slots below the target that carry no active chunk and are not suppressed.
FreeSlots ==
    {s \in 0 .. effectiveTarget - 1 :
        /\ s \notin suppressed
        /\ \A c \in Chunks : ~(state[c] = "active" /\ workerSlot[c] = s)}

\* MUTANT: the duplicate request is not counted.
StartHedgeUncounted(c, s) ==
    /\ s \in FreeSlots /\ \A t \in FreeSlots : s <= t
    /\ hedged' = hedged \cup {c}
    /\ hedgeActive' = TRUE
    /\ hedgedChunkIdx' = c
    /\ attempts' = [attempts EXCEPT ![c] = @ + 1]
    /\ UNCHANGED <<state, workerSlot, ripe, countVars, adaptVars, cancelled, waiting>>

StartHedge(c, s) ==
    /\ s \in FreeSlots /\ \A t \in FreeSlots : s <= t
    /\ hedged' = hedged \cup {c}
    /\ hedgeActive' = TRUE
    /\ hedgedChunkIdx' = c
    /\ attempts' = [attempts EXCEPT ![c] = @ + 1]
    /\ activeCount' = activeCount + 1
    /\ UNCHANGED <<state, workerSlot, ripe, nextUndispatched, completedCount, adaptVars,
                   cancelled, waiting>>

StartHedgeRefused(c) ==
    /\ FreeSlots = {}
    /\ hedged' = hedged \ {c}
    /\ hedgeActive' = FALSE
    /\ hedgedChunkIdx' = NoChunk
    /\ UNCHANGED <<state, attempts, workerSlot, ripe, countVars, adaptVars, cancelled,
                   waiting>>

CancelHedge(c) ==
    /\ IF hedgedChunkIdx = c
         THEN hedgeActive' = FALSE /\ hedgedChunkIdx' = NoChunk
         ELSE UNCHANGED hedgeVars
    /\ activeCount' = activeCount - 1
    /\ Broadcast
    /\ UNCHANGED <<chunkVars, nextUndispatched, completedCount, adaptVars, cancelled>>
=============================================================================
