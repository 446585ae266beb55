------------------------------ MODULE StreamSink ------------------------------
(***************************************************************************)
(* internal/sink/stream.go: reorder buffers of bounded size in front of an *)
(* ordered writer.  Reserve, Submit, Close and the queries run under s.mu. *)
(* WriteTo's loop is a goroutine of its own, which releases s.mu while it  *)
(* writes and while it waits on s.cond; "parking" is the moment before     *)
(* cond.Wait when it holds s.mu and is not yet a waiter.  A goroutine of   *)
(* WriteTo signals s.cond when the context ends, without taking s.mu.      *)
(***************************************************************************)
EXTENDS Integers, Sequences, FiniteSets

CONSTANTS
    ChunkTotal,   \* number of chunks of the object
    SplitSize,    \* length of every chunk but the last
    LastLength,   \* length of the last chunk
    BufferSize    \* the stream buffer limit

ASSUME SinkAssumption ==
    /\ ChunkTotal \in Nat \ {0}
    /\ SplitSize \in Nat \ {0}
    /\ LastLength \in 1 .. SplitSize
    /\ BufferSize \in Nat /\ BufferSize >= SplitSize

VARIABLES
    reserved,     \* bytes reserved
    nextIndex,    \* the frontier: next chunk to write
    completed,    \* indices with data in the map "completed"
    sinkErr,      \* fatalErr is set
    closed,
    writer,       \* where writeLoop is
    output,       \* chunks written to w, in order
    signalled     \* the context goroutine of WriteTo has signalled

sinkVars == <<reserved, nextIndex, completed, sinkErr, closed, writer, output, signalled>>

Indices == 0 .. ChunkTotal - 1
Length(c) == IF c = ChunkTotal - 1 THEN LastLength ELSE SplitSize
Waits == {"parking", "parked", "woken"}
WriterEnded == {"flushed", "failed", "stopped"}
WriterLabels == {"look", "writing", "flush"} \cup Waits \cup WriterEnded

SinkTypeOK ==
    /\ reserved \in Int
    /\ nextIndex \in 0 .. ChunkTotal
    /\ completed \subseteq Indices
    /\ sinkErr \in BOOLEAN
    /\ closed \in BOOLEAN
    /\ writer \in WriterLabels
    /\ output \in Seq(Indices)
    /\ signalled \in BOOLEAN

NewStreamSink ==
    /\ reserved = 0
    /\ nextIndex = 0
    /\ completed = {}
    /\ sinkErr = FALSE
    /\ closed = FALSE
    /\ writer = "look"
    /\ output = <<>>
    /\ signalled = FALSE

-----------------------------------------------------------------------------
(* Calls *)

Lockable == writer # "parking"          \* s.mu can be taken
Room(c)  == reserved + Length(c) <= BufferSize
Signal   == writer' = IF writer = "parked" THEN "woken" ELSE writer

Reserve(c) ==
    /\ Lockable /\ Room(c)
    /\ reserved' = reserved + Length(c)
    /\ UNCHANGED <<nextIndex, completed, sinkErr, closed, writer, output, signalled>>

RefuseReserve(c) == Lockable /\ ~Room(c) /\ UNCHANGED sinkVars

\* MUTANT: only the frontier is buffered.
SubmitFrontierOnly(c) ==
    /\ Lockable /\ ~sinkErr
    /\ completed' = IF c = nextIndex THEN completed \cup {c} ELSE completed
    /\ Signal
    /\ UNCHANGED <<reserved, nextIndex, sinkErr, closed, output, signalled>>

\* MUTANT: the reservation is released on submission already.
SubmitReleasing(c) ==
    /\ Lockable /\ ~sinkErr
    /\ completed' = completed \cup {c}
    /\ reserved' = reserved - Length(c)
    /\ Signal
    /\ UNCHANGED <<nextIndex, sinkErr, closed, output, signalled>>

\* A body has the chunk's length once ReadFull has succeeded, so the length test
\* of Submit never fails.
Submit(c) ==
    /\ Lockable /\ ~sinkErr
    /\ completed' = completed \cup {c}
    /\ Signal
    /\ UNCHANGED <<reserved, nextIndex, sinkErr, closed, output, signalled>>

RefuseSubmit == Lockable /\ sinkErr /\ UNCHANGED sinkVars

Close ==
    /\ Lockable
    /\ closed' = TRUE
    /\ Signal
    /\ UNCHANGED <<reserved, nextIndex, completed, sinkErr, output, signalled>>

-----------------------------------------------------------------------------
(* WriteTo and writeLoop; ctxDone says that the context is done *)

SignalContext(ctxDone) ==
    /\ ctxDone /\ ~signalled
    /\ signalled' = TRUE
    /\ Signal
    /\ UNCHANGED <<reserved, nextIndex, completed, sinkErr, closed, output>>

WriterMoves(to) ==
    /\ writer' = to
    /\ UNCHANGED <<reserved, nextIndex, completed, sinkErr, closed, output, signalled>>

\* Only writeLoop sets fatalErr, and then it returns: its own tests of fatalErr
\* never see it set.
MustWait == nextIndex \notin completed /\ ~closed

\* The wait loop: on entry, and again after every wakeup.
Park(ctxDone) ==
    /\ \/ writer = "look"
       \/ writer = "woken" /\ ~ctxDone
    /\ MustWait
    /\ WriterMoves(IF ctxDone THEN "stopped" ELSE "parking")
StartWait == writer = "parking" /\ WriterMoves("parked")
WokenToStop(ctxDone) == writer = "woken" /\ ctxDone /\ WriterMoves("stopped")

\* Out of the wait loop, or back from a write: take the next chunk, release its
\* reservation, and write it outside the lock.
AfterWait(ctxDone) ==
    \/ writer = "look" /\ ~MustWait
    \/ writer = "woken" /\ ~ctxDone /\ ~MustWait
Continue(ctxDone) == writer = "flush" \/ AfterWait(ctxDone)

\* MUTANT: any buffered chunk is written.
TakeAny(ctxDone) ==
    /\ Continue(ctxDone)
    /\ \E c \in completed :
        /\ completed' = completed \ {c}
        /\ reserved' = reserved - Length(c)
        /\ nextIndex' = c + 1
    /\ writer' = "writing"
    /\ UNCHANGED <<sinkErr, closed, output, signalled>>

TakeNext(ctxDone) ==
    /\ Continue(ctxDone) /\ nextIndex \in completed
    /\ completed' = completed \ {nextIndex}
    /\ reserved' = reserved - Length(nextIndex)
    /\ nextIndex' = nextIndex + 1
    /\ writer' = "writing"
    /\ UNCHANGED <<sinkErr, closed, output, signalled>>

Write ==
    /\ writer = "writing"
    /\ output' = Append(output, nextIndex - 1)
    /\ writer' = "flush"
    /\ UNCHANGED <<reserved, nextIndex, completed, sinkErr, closed, signalled>>

WriteError ==
    /\ writer = "writing"
    /\ sinkErr' = TRUE
    /\ writer' = "failed"
    /\ UNCHANGED <<reserved, nextIndex, completed, closed, output, signalled>>

\* Nothing contiguous is left: go round, or, once closed, make sure that nothing
\* was left behind a gap.
GoRound ==
    /\ writer = "flush" /\ MustWait
    /\ WriterMoves("look")

\* MUTANT: once closed, what is still buffered is left behind.
FinishUndrained(ctxDone) ==
    /\ Continue(ctxDone)
    /\ closed
    /\ writer' = "flushed"
    /\ UNCHANGED <<reserved, nextIndex, completed, sinkErr, closed, output, signalled>>

FinishClosed(ctxDone) ==
    /\ Continue(ctxDone) /\ nextIndex \notin completed
    /\ closed
    /\ writer' = IF completed = {} THEN "flushed" ELSE "failed"
    /\ sinkErr' = (completed # {})
    /\ UNCHANGED <<reserved, nextIndex, completed, closed, output, signalled>>

WriterStep(ctxDone) ==
    \/ Park(ctxDone) \/ StartWait \/ WokenToStop(ctxDone)
    \/ TakeNext(ctxDone) \/ Write
    \/ GoRound \/ FinishClosed(ctxDone)
=============================================================================
