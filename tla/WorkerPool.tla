------------------------------ MODULE WorkerPool ------------------------------
(***************************************************************************)
(* internal/job/runner.go, runWorkers and workerLoop: one goroutine per    *)
(* connection takes chunks from the Scheduler, and the runner collects how *)
(* the goroutines end and turns it into an exit code.                      *)
(*                                                                         *)
(* The network and the sink are free here: a request fails or succeeds, a  *)
(* reservation or a write is refused or accepted, at any time.  StreamJob  *)
(* and FileJob put the real sinks under these steps, so what holds here    *)
(* holds there.                                                            *)
(*                                                                         *)
(* pc[w] is the next call of workerLoop:                                   *)
(*   top        the loop's context check and HedgeEligible                 *)
(*   hedge      StartHedge                                                 *)
(*   next       NextAssignment                                             *)
(*   reserve    streamSink.Reserve                                         *)
(*   open       OpenRange and reading the body                             *)
(*   admission  OnAdmissionFailure, then retry                             *)
(*   retry      MarkFailed(c, true)                                        *)
(*   unhedge    CancelHedge after a failed hedge                           *)
(*   deliver    Submit or WriteChunk                                       *)
(*   abort      MarkFailed(c, false), then return its error                *)
(*   hedgeWon   CancelHedge after a delivered hedge                        *)
(*   report     OnWorkerSuccess                                            *)
(*   ack        MarkComplete                                               *)
(*   returned, broke   the loop has returned nil, or an error              *)
(***************************************************************************)
EXTENDS Scheduler

CONSTANT PressureReported   \* OnPressure is called: no caller in the repository does

ASSUME PressureAssumption == PressureReported \in BOOLEAN

VARIABLES
    pc,
    slot,         \* the loop's "slot": a hedge changes it for good
    cur,          \* the loop's "c", or the candidate of HedgeEligible
    hedging,      \* goroutines with isHedge that have not called CancelHedge
    interrupted,  \* the root context is done (SIGINT, SIGTERM)
    received,     \* goroutines whose result runWorkers has received
    firstErr,     \* one of them was an error
    exitCode      \* what runWorkers returned: "none" while it has not

poolVars == <<pc, slot, cur, hedging>>
runVars  == <<interrupted, received, firstErr, exitCode>>
vars     == <<schedVars, poolVars, runVars>>

Ended   == {"returned", "broke"}
Holding == {"reserve", "open", "admission", "retry", "unhedge", "deliver", "abort",
            "hedgeWon", "report", "ack"}
Labels  == {"top", "hedge", "next"} \cup Holding \cup Ended

\* runWorkers starts one goroutine per connection.
Fresh ==
    /\ pc = [w \in Slots |-> "top"]
    /\ slot = [w \in Slots |-> w]
    /\ cur = [w \in Slots |-> NoChunk]
    /\ hedging = {}
    /\ interrupted = FALSE
    /\ received = {}
    /\ firstErr = FALSE
    /\ exitCode = "none"

\* The same, in a process that is started again.
Refresh ==
    /\ pc' = [w \in Slots |-> "top"]
    /\ slot' = [w \in Slots |-> w]
    /\ cur' = [w \in Slots |-> NoChunk]
    /\ hedging' = {}
    /\ interrupted' = FALSE
    /\ received' = {}
    /\ firstErr' = FALSE
    /\ exitCode' = "none"

Init == (\E done \in ResumeSets : New(done)) /\ Fresh

-----------------------------------------------------------------------------
(* workerLoop *)

Goto(w, label) == pc' = [pc EXCEPT ![w] = label]
Hold(w, c)     == cur' = [cur EXCEPT ![w] = c]

\* A step that calls neither the scheduler nor changes what the loop holds.
Move(w, from, to) ==
    /\ pc[w] = from
    /\ Goto(w, to)
    /\ UNCHANGED <<schedVars, slot, cur, hedging, runVars>>

\* Back to the top, or out of the loop: its variables are declared anew.
Restart(w) == Goto(w, "top") /\ Hold(w, NoChunk)
Exit(w, how) == Goto(w, how) /\ Hold(w, NoChunk)

\* ctx.Done at the top of the loop.
Leave(w) == interrupted /\ Move(w, "top", "broke")

SkipHedge(w) == ~interrupted /\ Move(w, "top", "next")

ConsiderHedge(w, c, room) ==
    /\ pc[w] = "top" /\ ~interrupted
    /\ HedgeEligible(c, room)
    /\ Goto(w, "hedge") /\ Hold(w, c)
    /\ UNCHANGED <<schedVars, slot, hedging, runVars>>

BeginHedge(w) ==
    /\ pc[w] = "hedge"
    /\ \E s \in Slots :
        /\ StartHedge(cur[w], s)
        /\ slot' = [slot EXCEPT ![w] = s]
    /\ hedging' = hedging \cup {w}
    /\ Goto(w, "open")
    /\ UNCHANGED <<cur, runVars>>

NoHedgeSlot(w) ==
    /\ pc[w] = "hedge"
    /\ StartHedgeRefused(cur[w])
    /\ Goto(w, "next") /\ Hold(w, NoChunk)
    /\ UNCHANGED <<slot, hedging, runVars>>

\* NextAssignment: a goroutine in cond.Wait takes no step until it is woken.
AtNext(w) == pc[w] = "next" /\ w \notin waiting

Take(w) ==
    /\ AtNext(w)
    /\ \E c \in Chunks : NextChunk(c, slot[w]) /\ Hold(w, c)
    /\ Goto(w, IF StreamMode THEN "reserve" ELSE "open")
    /\ UNCHANGED <<slot, hedging, runVars>>

Wait(w) ==
    /\ AtNext(w)
    /\ NextWait(w, slot[w])
    /\ UNCHANGED <<poolVars, runVars>>

NoMoreWork(w) ==
    /\ AtNext(w)
    /\ NextComplete
    /\ Exit(w, "returned")
    /\ UNCHANGED <<slot, hedging, runVars>>

Stopped(w) ==
    /\ AtNext(w)
    /\ NextStopped
    /\ Exit(w, "broke")
    /\ UNCHANGED <<slot, hedging, runVars>>

Reserved(w)        == Move(w, "reserve", "open")
ReserveRefused(w)  == Move(w, "reserve", "retry")

\* OpenRange and ReadFull.  Only a request refused before its body counts as an
\* admission failure; a failed hedge is merely withdrawn.
Fetched(w)         == Move(w, "open", "deliver")
OpenFailed(w)      == Move(w, "open", IF w \in hedging THEN "unhedge" ELSE "admission")
\* MUTANT: a body that breaks off is not reported.
ReadFailedSilently(w) == Move(w, "open", IF w \in hedging THEN "unhedge" ELSE "top")

ReadFailed(w)      == Move(w, "open", IF w \in hedging THEN "unhedge" ELSE "retry")

\* Submit or WriteChunk.
Delivered(w)       == Move(w, "deliver", IF w \in hedging THEN "hedgeWon" ELSE "report")
DeliveryFailed(w)  == Move(w, "deliver", "abort")

AdmissionFailed(w) ==
    /\ pc[w] = "admission"
    /\ OnAdmissionFailure(slot[w])
    /\ Goto(w, "retry")
    /\ UNCHANGED <<slot, cur, hedging, runVars>>

Retry(w) ==
    /\ pc[w] = "retry"
    /\ MarkFailed(cur[w], TRUE)
    /\ Restart(w)
    /\ UNCHANGED <<slot, hedging, runVars>>

HedgeFailed(w) ==
    /\ pc[w] = "unhedge"
    /\ CancelHedge(cur[w])
    /\ hedging' = hedging \ {w}
    /\ Restart(w)
    /\ UNCHANGED <<slot, runVars>>

Abort(w) ==
    /\ pc[w] = "abort"
    /\ MarkFailed(cur[w], FALSE)
    /\ Exit(w, "broke")
    /\ UNCHANGED <<slot, hedging, runVars>>

HedgeDelivered(w) ==
    /\ pc[w] = "hedgeWon"
    /\ CancelHedge(cur[w])
    /\ hedging' = hedging \ {w}
    /\ Goto(w, "report")
    /\ UNCHANGED <<slot, cur, runVars>>

Report(w) ==
    /\ pc[w] = "report"
    /\ OnWorkerSuccess(slot[w])
    /\ Goto(w, "ack")
    /\ UNCHANGED <<slot, cur, hedging, runVars>>

Acknowledge(w) ==
    /\ pc[w] = "ack"
    /\ MarkComplete(cur[w])
    /\ Restart(w)
    /\ UNCHANGED <<slot, hedging, runVars>>

-----------------------------------------------------------------------------
(* runWorkers *)

\* errCh: results arrive in any order, as a goroutine may be slow to send.  The
\* first error cancels the scheduler.
Receive(w) ==
    /\ pc[w] \in Ended /\ w \notin received
    /\ received' = received \cup {w}
    /\ IF pc[w] = "broke" /\ ~firstErr
         THEN firstErr' = TRUE /\ Cancel
         ELSE UNCHANGED <<firstErr, schedVars>>
    /\ UNCHANGED <<poolVars, interrupted, exitCode>>

Conclude ==
    /\ received = Slots /\ exitCode = "none"
    /\ exitCode' = IF firstErr \/ ~JobComplete THEN "failure" ELSE "success"
    /\ UNCHANGED <<schedVars, poolVars, interrupted, received, firstErr>>

\* The root context is cancelled by a signal, and s.ctx with it ...
Interrupt ==
    /\ ~interrupted
    /\ interrupted' = TRUE
    /\ ParentCancelled
    /\ UNCHANGED <<poolVars, received, firstErr, exitCode>>

\* MUTANT: the goroutine that watches the root context is missing.
PropagateInterruptNever == FALSE /\ UNCHANGED vars

\* ... and a goroutine of runWorkers then wakes whoever waits.
PropagateInterrupt ==
    /\ interrupted /\ waiting # {}
    /\ Cancel
    /\ UNCHANGED <<poolVars, runVars>>

Pressure ==
    /\ PressureReported /\ exitCode = "none"
    /\ OnPressure
    /\ UNCHANGED <<poolVars, runVars>>

-----------------------------------------------------------------------------

\* The steps of workerLoop that touch neither the network nor a sink.
LoopStep(w) ==
    \/ Leave(w) \/ SkipHedge(w)
    \/ BeginHedge(w) \/ NoHedgeSlot(w)
    \/ Take(w) \/ Wait(w) \/ NoMoreWork(w) \/ Stopped(w)
    \/ AdmissionFailed(w) \/ Retry(w) \/ HedgeFailed(w) \/ Abort(w)
    \/ HedgeDelivered(w) \/ Report(w) \/ Acknowledge(w)

\* The steps whose outcome the network or a sink decides.
RequestStep(w) == Fetched(w) \/ OpenFailed(w) \/ ReadFailed(w)
SinkStep(w) ==
    \/ Reserved(w) \/ ReserveRefused(w)
    \/ Delivered(w) \/ DeliveryFailed(w)
OpenStep(w) ==
    \/ \E c \in Chunks : ConsiderHedge(w, c, TRUE)
    \/ RequestStep(w)
    \/ SinkStep(w)

Worker(w) == LoopStep(w) \/ OpenStep(w)

\* Deadlines that pass and the ticker, while the job runs.
WhileRunning == exitCode = "none" /\ UNCHANGED <<poolVars, runVars>>
TickStep       == WhileRunning /\ Tick
BackoffStep(c) == WhileRunning /\ BackoffExpires(c)
SuppressionStep(s) == WhileRunning /\ SuppressionExpires(s)
CooldownStep   == WhileRunning /\ CooldownExpires
Clock ==
    \/ TickStep
    \/ CooldownStep
    \/ \E c \in Chunks : BackoffStep(c)
    \/ \E s \in Slots : SuppressionStep(s)

Runner == (\E w \in Slots : Receive(w)) \/ Conclude \/ PropagateInterrupt

Finished == exitCode # "none" /\ UNCHANGED vars

Next ==
    \/ \E w \in Slots : Worker(w)
    \/ Runner
    \/ Clock
    \/ Interrupt
    \/ Pressure
    \/ Finished

Spec == Init /\ [][Next]_vars

\* Goroutines that can run do run, the sink answers, and deadlines pass.  A request
\* may stall for ever, since --read-timeout is never applied and --timeout is none
\* by default (HttpAdapter); but the root context ends every request.
Fairness ==
    /\ \A w \in Slots : WF_vars(LoopStep(w))
    /\ \A w \in Slots : WF_vars(SinkStep(w))
    /\ \A w \in Slots : WF_vars(interrupted /\ RequestStep(w))
    /\ WF_vars(Runner)
    /\ WF_vars(TickStep)
    /\ \A c \in Chunks : WF_vars(BackoffStep(c))
    /\ \A s \in Slots : WF_vars(SuppressionStep(s))

FairSpec == Spec /\ Fairness

-----------------------------------------------------------------------------
(* What holds of every pool, whatever the network and the sinks do *)

PoolTypeOK ==
    /\ SchedTypeOK
    /\ pc \in [Slots -> Labels]
    /\ slot \in [Slots -> Slots]
    /\ cur \in [Slots -> Chunks \cup {NoChunk}]
    /\ hedging \subseteq Slots
    /\ interrupted \in BOOLEAN
    /\ received \subseteq Slots
    /\ firstErr \in BOOLEAN
    /\ exitCode \in {"none", "success", "failure"}

\* activeCount, which gates every assignment and every hedge, is never out of
\* step with the requests it counts: one per active chunk, one per hedge whose
\* CancelHedge is still to come, however originals and hedges of one chunk end.
ActiveCountMatches ==
    activeCount = Cardinality(InState("active")) + Cardinality(hedging)

\* completedCount, which ends the job, counts each completed chunk once: a chunk
\* delivered by both its original and its hedge is not counted twice.
CompletedCountMatches == completedCount = Cardinality(InState("completed"))

\* No active chunk is orphaned: some goroutine still has to report on it, and not
\* merely to withdraw a hedge of it.  An orphan would never be retried.
ActiveChunksAreOwned ==
    \A c \in InState("active") :
        \E w \in Slots \ hedging : cur[w] = c /\ pc[w] \in Holding

\* Without hedging no chunk is downloaded by two goroutines at once, retries and
\* late failures included.
OneGoroutinePerChunk ==
    ~StreamMode =>
        \A v, w \in Slots : v # w /\ cur[v] # NoChunk => cur[v] # cur[w]

\* Without hedging a chunk is requested at most MaxTries times.
RetryBudget == ~StreamMode => \A c \in Chunks : attempts[c] <= MaxTries

\* runWorkers reports success only when every chunk was delivered or was already
\* complete, and a goroutine that returned nil saw the same.
SuccessMeansComplete ==
    (exitCode = "success" \/ \E w \in Slots : pc[w] = "returned")
        => InState("completed") = Chunks

\* Without hedging a failure is reported only for an interrupt or a failed chunk,
\* never because goroutines stop in an unlucky order.
FailureHasCause ==
    ~StreamMode =>
        (exitCode = "failure" => interrupted \/ InState("failed") # {})

\* A completed chunk is never handed out again, whoever reports on it late.
CompletedIsFinal ==
    [][\A c \in Chunks : state[c] = "completed" => state'[c] = "completed"]_vars

\* Whatever fails, runWorkers returns, if only no request stalls for ever: no
\* goroutine waits for ever on the condition variable for a backoff, a suppression,
\* a slot or the end of the job.
RequestsEnd == \A w \in Slots : []<>(pc[w] # "open")
Terminates == RequestsEnd => <>(exitCode # "none")

\* An interrupt ends the job even when every server has stalled, wherever the
\* goroutines are and whoever sleeps on the condition variable.
InterruptEnds == interrupted ~> (exitCode # "none")

-----------------------------------------------------------------------------
(* What the documents say and the code does not do *)

\* ARCHITECTURE.md, 11.2: in stream mode concurrency is limited to the full chunk
\* buffers that fit.  So the target never passes that limit, restorations included.
MemoryLimitsTarget == StreamMode => effectiveTarget <= BufferChunks

\* scheduler.go:332: "Exponential: 1s, 2s, 4s, 8s, 16s, capped at 30s".  So every retry
\* waits, however many there were.
RetriesWait ==
    \A c \in Chunks : state[c] = "retryWait" => RetryBackoff(attempts[c]) \in 1 .. 30
=============================================================================
