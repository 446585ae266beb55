# TLA+ models of pget

pget downloads the URLs of a command line, each with several ranged requests at
once where the server allows it, into files of their own, into one `-O FILE`, or
to standard output. These modules model its core: how chunks are scheduled and
retried, how the results reach the output, how a download is resumed after a crash,
how the jobs of one command share a destination, what a request may bring back over a
connection that stalls, breaks or is closed, how the words of a command line become a
plan (also in the background), and what the progress display reports. TLC checks them
on small instances; TLAPS proves the central invariants for every instance.

Paths below are relative to `src/`. `tlc -config X.cfg M` runs a configuration,
`tlapm M.tla` checks the proofs of a module.

## 1. Inventory

| Component | Source | State | Operations | Modelled by |
|---|---|---|---|---|
| Scheduler and connection controller | `internal/schedule` | chunk states, attempts, backoff and hedge marks; `nextUndispatched`, `activeCount`, `completedCount`; `effectiveTarget`, cooldown, per-slot admission failures and suppression; the hedge; a mutex and a condition variable | New, NextAssignment (with cleanup, tryAssign, assignChunk), MarkComplete, MarkFailed, OnAdmissionFailure, OnPressure, OnWorkerSuccess, HedgeEligible, StartHedge, CancelHedge, Cancel, retryTicker | `Scheduler` |
| Worker pool | `internal/job/runner.go` runWorkers, workerLoop | one goroutine per connection: its place in the loop, slot, chunk, hedge flag; `errCh` | the loop, step by step; collecting results | `WorkerPool` |
| Ordered stream sink | `internal/sink/stream.go` | bytes reserved, frontier, reorder map, fatal error, closed flag; the writer goroutine | Reserve, Submit, Close, Frontier, WriteTo, writeLoop | `StreamSink` |
| Parallel download to standard output | `runner.go` downloadParallelStream | pool, sink, writer result | start, Close, collecting the writer's result | `StreamJob`, abstractly `OrderedDelivery` |
| Parallel download to a file, resume | `runner.go` downloadParallelFile, runOneJob; `internal/sink/file.go`; `internal/sidecar` | bytes in the file and what Sync covered; the sidecar on disk and in memory | Load, Create, WriteChunk (WriteAt, bit, temporary file and rename), Finalize, Remove | `FileJob`, abstractly `ResumableDownload` |
| Chunk planner and completion bitmap | `internal/chunk`, `internal/sidecar` | none; bytes and encoded bits | Plan, EncodeBitmap, DecodeBitmap, the resume decision | `ResumePlan` |
| Runner | `runner.go` Run, runOneJob, checkTimestamp, downloadSequential | destination, shared handle and its position, base offset, sidecars, exit codes | one action per decision and per job outcome | `Runner` (in part) |
| HTTP adapter | `internal/adapter/http/adapter.go` | per request: phase, redirects, time limits, body; Probe's result | Probe, OpenRange, OpenSequential, checkRedirect, the readers of a body | `HttpAdapter`; as their callers see them, in `Runner` and the pools |
| OpenSSL transport | `internal/adapter/http/openssl` | the SSL object, `readMu`, `writeMu` | Dial, Read, Write, Close | `TLSConn` |
| Command line and background mode | `internal/cli`, `cmd/pget/main.go`, `internal/job/background.go` | loop index, plan, URLs; process and its marker | parse, set an option, validate, detach, run | `CommandLine` |
| Progress display | `internal/progress`, the reporter goroutines in `runner.go` | bars, counters, the channels that stop reporters | Update, Done, render; start, tick, stop | `Progress` |
| Signal handling | `cmd/pget/main.go` | the root context | cancel | in `WorkerPool` and `HttpAdapter` |
| FTP adapter, exit codes and version, test server | | | | not modelled |

**Interactions.** `main` parses and validates; with `-b` it starts a child that does so
again. `Run` processes URLs one after another. A parallel job starts a Scheduler, one
`workerLoop` goroutine per connection, the ticker, and a goroutine that broadcasts when
the context ends. Workers call the Scheduler (under `s.mu`) and the sink (under the
sink's own mutex); between any two of their calls anything else may happen. Both locks
are held at once only in HedgeEligible, which asks the sink for its frontier; the order is
always `s.mu`, then the sink's, and the sink calls nothing of the Scheduler, so the locks
cannot form a cycle. A worker without work sits in `cond.Wait` until a report, the ticker
(500 ms), or cancellation broadcasts. Its requests go through the adapter to
connections of Go or, in the OpenSSL build, to connections whose calls block in the C
library. In stream mode the writer goroutine drains the reorder map and drops the sink's
lock while it writes. In file mode each written chunk is recorded by renaming a new
sidecar over the old one. Beside every transfer of known size a reporter goroutine
copies an atomic counter into the bar and draws it, until a channel is closed; nobody
waits for its end.

**What is hard.** The counters of the Scheduler are kept by hand beside the chunk
states they count, by five methods, for originals and duplicates (hedges) of one
chunk that end in any order. Wakeups can be lost. The exit code is assembled from
results that arrive in any order while cancellation spreads. A kill can fall between
a write, its bit, and the rename. Several runs of one command act on what earlier
runs left behind. A server may stall, break off, answer something else than was asked,
or replace the object between two ranges, while a time limit or an interrupt closes the
connection under a goroutine that is inside a blocking read. A word of the command line
is an option or the value of another, and the child has to read what the parent read. `PROJECT.json` lists these hazards line by line with the
properties that watch them.

**What makes each part correct.**
Scheduler and pool: counters match the states; no chunk is lost, given out twice at
once, or tried too often; success means complete; failure has a cause; the job ends.
Stream: chunks in order, once each, none lost; success only when all are written; the
writer ends. File: the sidecar names only what is in the file and all that was
counted; success leaves every chunk in the file and synchronized. Planner: chunks
tile the object; the bitmap survives its encoding. Runner: concatenations are exact
and end at the first failure; exit codes tell; a marked file is an incomplete one.
Adapter: a request that succeeds has brought its range, whole and of the probed
version; one that is cancelled or timed ends; no memory is freed under a reader. Command
line: a word means what its place says; the child runs the parent's plan, once.
Progress: "complete" is said of complete transfers only; reporters end.

## 2. Modules

### Scheduler
Every exported method holds `s.mu` from first to last line, so each is one action, or
one per outcome where it has several (`NextStopped`, `NextComplete`, `NextChunk`,
`NextWait` are the ways through one turn of NextAssignment's loop; each runs
`cleanup` first, as the code does). `waiting` is the set of goroutines inside
`cond.Wait`; `Broadcast` empties it. `Renew` is `New` as a step.

Time is abstracted to what the code asks: has this deadline passed? `ripe` holds the
retries whose backoff is over, `suppressed` the slots still suppressed, `cooling` the
cooldown; each passes in an action of its own, at any later moment. Admission failures
saturate at 2, the threshold. In stream mode there is one duration per completed chunk,
so `completedCount` stands for the number of samples; that a chunk is *slow* is left to
chance. `RetryBackoff` is the one duration kept as a number, since its arithmetic
overflows: the 64 bits of a Duration are followed through the shift. `OnPressure` is an
operation of the Scheduler that nothing in the repository calls outside its tests;
`PressureReported` turns it on.

### WorkerPool
`pc[w]` is the next call of `workerLoop`; the header of the module lists the labels. A
hedge reassigns the loop's `slot` for good, as the code does. The network and the
sinks are free: a request (`RequestStep`), a reservation or a write (`SinkStep`) may
succeed or fail at any time, and a request may also never end. `Receive`, `Conclude` and `PropagateInterrupt` are runWorkers. `Cancel`
and the broadcast that follows it are one step: nobody can begin to wait in between,
since a waiter rechecks the context first. `Interrupt` is the root context, which ends
`s.ctx` at once and wakes nobody by itself.

### StreamSink, StreamJob, OrderedDelivery
`StreamSink` has a label for the moment when the writer still holds the lock on its way
into `cond.Wait` (`parking`): the context's signal does not take the lock and can fall
there. `StreamJob` puts the sink under the pool: `CallReserve`, `CallSubmit` and
`TryHedge` join a step of each. `OrderedDelivery` is the abstract specification: a
counter of delivered chunks and a verdict, success only after the last chunk, and an
end. `StreamJob` implements both it (`Len(output)`, `jobExit`) and the pool
(`ImplementsPool`). HedgeEligible holds the scheduler's mutex and takes the sink's twice:
for the frontier (`AskFrontier`) and, at its end, for room (`TryHedge`). `asking` is the
goroutine between the two and `seen` the frontier it was told; the sink may move on
meanwhile, and whatever takes the scheduler's mutex waits (`MutexFree`). OpenRange and
ReadFull are one step.

### FileJob, ResumableDownload
`written`, `durable` and the sidecar survive `Kill`, everything else is forgotten.
MarkComplete holds its mutex from the bit (`MarkBit`) to the rename (`Publish`), so the
temporary file is not a state of its own. `RunAgain` starts the program on what is left.
Corrupt sidecars are left out: the rename replaces the file atomically. Interrupts are
modelled while workers run. `ResumableDownload` is the abstract specification of all runs
together: chunks are stored and then recorded, a run takes over all that is recorded, and
success clears the record. `FileJob` implements it: `stored` is `written`, `recorded` the
bits of the sidecar on disk, `begun` is `resumed`, and `Stage` reads phase and exit code.
Pool, bitmap in memory, Sync and the steps of WriteChunk are hidden in it.

### TLSConn, HttpAdapter
`TLSConn` is a connection: of Go, whose Close interrupts readers and writers, or of the
OpenSSL binding, where `reading` and `writing` are the goroutines inside SSL_read and
SSL_write with `readMu` and `writeMu`, and Close waits for `readMu` alone before it
frees the object. The build is the variable `backend`, fixed at the start.
`HttpAdapter` puts the requests of one job over it, one connection each: Probe, then
ranges, if the server can, or one sequential request of any server. `phase[r]` is where the goroutine that makes the
request is. Servers differ in ranges, If-Range, the kind of validator, and whether
the validators of two versions differ; `GoodAnswers` are those of a server that does what
HTTP says, `AnyAnswers` all that it can say besides. `Accepts` is the adapter's test
of status, Content-Range and length; `Redirected` goes on over another connection. `Replace`
puts a new version on the server at any moment. Time limits are the set `limits`, and
`expired` says whose time has passed. Other headers and the reuse of connections are
left out.

### CommandLine
A word is what the parser can tell of it: a group of options with perhaps a value
attached, `--`, `-`, an unknown option, or other text. One action per turn of
parseOptions (`ReadOptions` sets the options of a word from left to right and may take
the next word), then `Validate`, `Detach` or `Run`. `Detach` starts the child with the
words that are left (`Picked` keeps those that are no option for the background) and
everything else forgotten. Digits and names are data:
`Number(n)` and `Plain(text)`. `Roles` is the reference reading of a command line, written
as a recursive function over the places of the words; `ParsedAsMeant` compares every flag,
count, text, list and URL of the plan with it.

### Progress
One bar, one counter and one reporter per URL. `Tick`, `Store` and `Render` are the
three moments of a turn of the reporter (the load, the store to `current`, the drawing that
reads it again), `DoneStatus` and `DonePrints` the two reads of Done in the main
goroutine. Resumed amounts are those of a prefix, which is where downloads in order
resume; units arrive twice (`ReceiveTwice`) only in streams, where hedges are. The layout of
a line is left out.

### ResumePlan
The arithmetic of the plan, the padded bitmap, and the decision to trust an existing
sidecar, over several runs with objects and split sizes that may change. Base64 loses
nothing and is left out. A byte of the bitmap has two bits in the runs, so that padding
occurs with few chunks. `SplitChanges` says whether a later run may have another split size.

### Runner
One unit of content stands for one split-size range; files are sequences of units, and
`Hole` is content that no URL of this command wrote. Parallel downloads are taken at
what `FileJob` and `StreamJob` establish: units of a file in any order with their
bits, units of a stream in order, and, when a job resumed out of order, an end that
may come early. "The highest-priority non-zero category" of DESIGN.md:471 is taken for what
the code does, the numerically greatest (`runner.go:114`, `exit` in `ExitTellsAll`); Wget's
own rule, where lower numbers take precedence, would read that sentence the other way. Left
out: spider mode, background mode, names taken from
Content-Disposition or redirects (file names are distinct), directory creation.
`UrlCounts`, `MaxSize`, `MaxUnits` (units of all objects together) and `MaxJobs` (downloads
over all runs) bound the instance.

Operators whose comment begins `MUTANT` are wrong variants of the definition after them,
one plausible bug each; they are used to see that a property would catch it.

## 3. Runs

| Run | Instance | Question |
|---|---|---|
| `pool_file` | 2 goroutines, 3 chunks, 2 tries, every completed prefix | In file mode: is a chunk ever downloaded twice at once or too often; can success be incomplete or failure without cause; does an interrupt end the job even when every server has stalled? |
| `pool_stream` | 2 goroutines, 2 chunks, 2 tries, hedge after 1 chunk, pressure at any time | Do the two counters match the states through hedges, and is every active chunk owned by a goroutine that will report on it? Does the job end, if requests do, although slots are suppressed and the target is halved? |
| `stream_retry` | 2 goroutines, 3 chunks (last short), 2 tries, room for 2½ | Is the output in order, nothing acknowledged lost, success only when all is written, and (three chunks being too few for a hedge) what is in memory covered by its reservation, with refused reservations, retries, write errors, an interrupt? |
| `stream_ends` | 2 chunks, 2 tries, hedge after 1 chunk, room for 2½ | Does the composition implement the pool, and `OrderedDelivery` with its end? |
| `file_resume` | 2 goroutines, 3 chunks, 1 try, 3 runs, kills anywhere, disk and network faults | Can a later run trust the sidecar; is everything counted recorded; is success whole and synchronized? Do all runs together keep the promise of `ResumableDownload`, with the end of every run? |
| `runner` | 1 or 2 URLs of 1-3 units, at most 4 units and 3 downloads, every accepted plan, four kinds of server, old files, objects that grow, kills | Concatenation order, stop after a failure, exit codes; does success leave the object exactly; does the mark of an incomplete file stay until it is whole? |
| `resume_plan` | objects to 5 bytes, 3 runs, one split size, replaced objects | Does the plan tile the object; is the bitmap exact; are finished chunks written? |
| `http_requests` | a probe, then one range or one sequential request, both builds, 5 kinds of server, with and without limits, 2 versions, 2 redirects, 2 reads | Is memory ever freed under a reader; is an accepted range exact and of the probed version; does a cancelled or timed request end although the peer falls silent? |
| `command_line` | every command line of at most 4 of 20 words | Is every option and value what its place says; does the child run its parent's plan; is there one child at most? |
| `progress` | 2 URLs of 4 units, every kind of transfer, terminal, pipe and quiet | Is "complete" said only of complete transfers, however reporter and Done interleave; do reporters end? |
| `resume_out_of_order`, `resume_truncated` | | Statements of the documents that the code does not keep: section 5. |

Type invariants that no run lists (`StreamTypeOK`, `FileTypeOK`, `RunnerTypeOK`,
`ResumeTypeOK`, `HttpTypeOK`, `ProgressTypeOK`) hold of the same instances; a line in the
configuration checks them.

**Why the bounds are enough.** Two goroutines show every race between two callers and
three chunks every relation of frontier, later chunk and retry; two tries have a try
that may be repeated and one that may not. Hedging needs an active frontier chunk, a
later completed chunk and a free slot: two chunks and two slots once the thresholds (4
and 2 in the code, constants here) are lowered to one; `hedge_late_copy` keeps the
code's thresholds. A buffer of 2½ chunks lets both chunks and a duplicate in, and is
exceeded by a further try, because a failed request keeps its reservation. Three runs
have a resumed run that is itself interrupted and resumed; two URLs have one that comes
after another. In `pool_stream` the restoring of a slot needs one completed chunk, so that
the target both falls and rises. Requests of one job share nothing but Probe's result and
the server, so one range beside Probe meets every case; two versions have one
replacement, before or during it; two redirects have one that is followed and a limit
that is reached. Four words have an option whose value looks like an option, with a
URL and a further word. Four units and two transfers leave a reporter of the first URL
running into the second. Where two goroutines may not be enough, the theorems of
section 4 hold for any number.

**Fairness.** Weak fairness per goroutine: Go's scheduler runs a goroutine that can
run. Of the collector, the ticker, and each backoff and suppression deadline: time
passes. Of the writer and of the sinks: a write ends. A *request* need not end:
`--read-timeout` is parsed and never applied, and `--timeout` is none by default. So the
pool's `Terminates` is under `RequestsEnd`, by name; `InterruptEnds` has no such
condition, since the root context ends a request over a connection of Go. Over
OpenSSL it does not, while a read blocks (`InterruptEndsRequests`, section 5). Stream and
file jobs assume that requests end. Weak fairness is enough for those that wait for the
scheduler's mutex, since a job has finitely many calls of HedgeEligible that hold it
between two steps. In `HttpAdapter` nothing is assumed of the peer, and
`RequestsAreBounded` demands of OpenSSL's builds that reads return. None is
assumed of the network, of interrupts, of pressure, of the cooldown (a target of one already
suffices), of kills or of disk faults. Strong fairness is used once: in `Progress`,
of a reporter's `select` that finds both the ticker and the closed channel ready, because
Go chooses among ready cases at random.

## 4. Theorems

| Theorem | For every instance |
|---|---|
| `WorkerPoolProofs!PoolIsConsistent` | the inductive invariant `PoolInv` holds |
| `PoolIsTyped` | type correctness; among it that the target stays in 1 .. connections |
| `ActiveCountIsExact` | `activeCount` = active chunks + hedges in flight |
| `CompletedCountIsExact`* | `completedCount` = completed chunks |
| `SuccessIsComplete`* | a successful job, or a goroutine that returned nil, has every chunk completed |
| `CompletedStaysCompleted`* | a completed chunk stays completed |
| `NoOrphans` | every active chunk has a goroutine that will report on it, with and without hedges |
| `StreamJobProofs!StreamImplementsPool` | a stream job implements the pool, so all of the above hold in it, unconditionally (`StreamPoolIsConsistent`) |
| `OutputIsInOrder`, `NothingIsLost`, `SuccessIsWritten` | the output is in order at every moment; a completed chunk is in the sink or written; success means all are written |
| `PromiseIsKept` | every step of a stream job is one of `OrderedDelivery` or a stutter (its safety part) |
| `ReservationsCover`, `MemoryStaysReserved` | until a hedge begins, what is fetched or waits in the reorder buffer is reserved, and no more is reserved than the limit; so always, where there are too few chunks for a hedge |
| `OneChunkAboveTheLimit` | until a hedge begins, the payload in memory exceeds `--buffer-size` by one chunk at most |
| `FileJobProofs!SoloIsConsistent`† | the inductive invariant of a pool without hedges holds |
| `OneDownloadAtATime` | no two goroutines of a download to a file hold one chunk |
| `RetriesAreBounded`, `BackoffStaysInRange`† | no chunk of a download to a file is tried more than `MaxTries` times; with at most 35 tries every retry waits 1 to 30 seconds |
| `FailuresHaveCauses` | a download to a file fails for an interrupt or a failed chunk only |
| `FileJobIsConsistent`, `FileSuccessIsConsistent` | the inductive invariants `DiskInv` and `SuccessInv` hold, through kills and restarts |
| `SidecarTellsTheTruth`, `ProgressIsRecorded` | the sidecar names only what is in the file, and all that the scheduler counted |
| `SuccessIsInFile`, `RemovedAfterSync` | success after a resume in order leaves every chunk in the file; after Finalize the sidecar goes only once the data is synchronized |
| `RunsKeepTheirPromise` | every step of a file job, kills and further runs included, is one of `ResumableDownload` or a stutter (its safety part) |
| `ProgressIsKept` | what the sidecar on disk names, it goes on naming until a run succeeds |
| `ResumePlanProofs!PlanIsATiling`, `EveryPlanTiles` | for any size and any positive split size the chunks are non-empty, disjoint and cover the object |
| `SidecarIsWellFormed`, `BitmapStaysExact` | the bitmap on disk marks exactly the finished chunks, and none outside the plan it was written for |
| `WhatIsFinishedIsWritten`‡ | every byte of a finished chunk was written |
| `HttpAdapterProofs!AnswersAreAccepted` | the inductive invariant `AcceptedInv` holds |
| `DeliveredRangesAreExact`, `RangesAreOfOneVersion` | a range request that succeeds has its range to the last read, and, where If-Range is honoured with telling validators, of the probed version |
| `NoReadAfterFree` | no connection is freed while a goroutine is inside SSL_read on it |
| `ProgressProofs!CountsAreConsistent`, `CompleteTellsTheTruth` | "complete" is reported only when every unit has arrived, except for streams that received units twice |
| `RunnerProofs!RunnerIsTyped` | type correctness |
| `ExitCodesTell` | a command that is over has a code for each URL, unless a failure ended it; it reports the worst, and success only if all succeeded |
| `AloneIsConsistent`§, `SidecarsTellTheTruth`§ | the inductive invariant of a file that one URL writes; its sidecar names only units that are in it |
| `SuccessLeavesTheObject`§, `MarkStaysUntilWhole`§ | every step that ends such a download with success leaves the object, if it resumed in order; the sidecar goes only when the file is whole or the object has another size |
| `StdoutIsExact` | standard output is a prefix of the concatenation at every moment, and all of it after success |
| `ConcatenationIsExactWhenAlike` | so is a fresh `-O FILE`, if all its downloads are parallel or all are sequential |
| `CommandLineProofs!CommandLineIsReadAsMeant` | the parser arrives at the meaning of its words, for every command line |
| `OneChildAtMost` | a command starts one child at most, which starts none |
| `ChildDoesTheParentsWork` | the child's words are accepted where the parent's were, and give the parent's plan and URLs, if `-b` was an option |

Those marked * assume `ResumesInOrder`: chunks completed before the job form a prefix. That
is so for every fresh job; without it they are false, which is `resume_out_of_order`. Those
marked † assume `~StreamMode`: hedges exist in streams only. ‡ assumes `OneSplit`: later
runs have the split size of the first. § assumes `"kind" \notin Changes`: a server that
offered ranges, or a length, goes on doing so; without it they are false, which is
`sequential_over_sidecar`.

*The argument.* `ActiveCountMatches` is not inductive: a step is only known to move the
counter rightly if the goroutine that takes it holds the chunk it reports on, and
holds a hedge exactly where the loop says so. `PoolInv` adds that (`LoopsConsistent`),
types, and `Dispatched`: what was not handed out yet is pending or was complete before.
`WorkerPoolProofs` has one lemma per method of the Scheduler, on how far it moves
`Surplus` (active count minus active chunks), and shows that
`Surplus = |hedging|` step by step. For `completedCount` the excess is zero as long as
every undispatched chunk is pending (`DispatchedInOrder`), which is what a prefix
gives: then NextAssignment cannot reactivate a completed chunk. `SuccessMeansComplete`
follows because `completedCount >= NumChunks` is then a statement about a finite set
of that many chunks. `NoOrphans` is inductive beside `PoolInv`: a goroutine that does not
hedge lets go of its chunk only with a report that makes it retried, failed or completed
(`OwnersReport`), and only Take makes a chunk active (`OnlyTakeActivates`).

`StreamJobProofs` first maps each step of the job to a step of the pool or a stutter: what
the sink decides, the pool had left free. `DeliveryInv` then adds three things. The
frontier is `Len(output)`, or one more exactly while a chunk is being written
(`WriterInv`), so that each Append adds the next index. A chunk accepted by the sink is
in the reorder map or behind the frontier, until the scheduler counts it and after
(`HandoverInv`). Close comes after the last worker, so nothing enters a sink that has
flushed (`ClosingInv`). A successful job has all chunks completed, an empty sink and a
finished writer: the frontier, and with it the output, has reached the end. `Covered` is
inductive while no goroutine hedges: a reservation enters the sum with the worker that made
it, moves with the chunk to the reorder buffer, and leaves with the writer. Bytes are counted
as a set of places in buffers, so that a sum is a cardinality. A hedge reserves nothing, and
may even fetch what its original has not reserved yet; then the inequality is lost. What is
read and not submitted is part of what is being fetched (`ReadIsFetched`), so the payload is
bounded by reservations and the one chunk in the writer's hands. Once a goroutine hedges not
even that holds: `hedge_twice` with `PayloadNearlyBounded` in place of its invariant has a
counterexample: more than 11 bytes in memory where 9 are allowed and a chunk has 2. (It is 41
states long: search only where the goroutine of chunk 0 stays before Reserve until two others
hedge that chunk.)

Without hedges ownership is exclusive (`SoloInv`): a goroutine with a chunk is in the part of
its loop that works on one, that chunk is active, and no other goroutine has it. `Budget`
then bounds the tries, because a chunk is handed out again only from `retryWait`, below the
limit; `CauseInv` carries the cause of a cancellation to the exit code through every
order of results. `BackoffStaysInRange` evaluates `RetryBackoff` below the limit.

`FileJobProofs` follows a chunk from WriteAt to the bitmap in memory, to the sidecar on disk,
and only then to the scheduler: `DiskInv` ties each goroutine's place in WriteChunk to how
far its chunk has come. A restarted pool is a fresh pool, so the pool's invariants survive
`Kill` and `RunAgain`. `SuccessInv` adds the end of a run. `RecordInv` adds that a run took
over exactly what the sidecar names when it creates a new one, so that neither `Create` nor
its failure loses any of it; with the three, each step maps to one of
`ResumableDownload`: WriteAt stores, the rename records, the rest of WriteChunk and of the
pool stutters.

`ResumePlanProofs` shows that padding to whole bytes and cutting at the number of chunks
undo each other for every length (`SidecarOK`), and that a marked chunk has all bytes
(`WrittenInv`), also when a later run trusts the sidecar. `AcceptedInv` says that Probe's result
is there before the first range request and stays, and that an answer accepted was for
the range asked. `ProgressProofs` orders four amounts: what `current` holds was the counter's
value earlier, the counter never goes back, and it is at most what has arrived.

`RunnerProofs` and `CommandLineProofs` are about data built by folds and recursive
functions. Their first part proves, from the well-foundedness of the natural numbers
(`LeastElement`, `SetInduction`), that each defining equation has a solution and what it
is: the partial concatenations, the greatest code, the role of a word given those
before it. Then each subject has its invariant. `Ledger`: there is one code for every URL
before the current one, and each is success where a failure ends the command. `AloneInv`:
what the sidecar names is in the file at its place (`SidecarPart`); a sequential download
has no sidecar, and the file with what is still to come makes up the object (`FilePart`).
`StdoutInv`: between jobs the output is the concatenation so far, and during one it is a
beginning of the concatenation with this object. `ConcatInv`: base offset or position is
the end of the file whenever a download begins, and a parallel one changes nothing before
that.

`ReadingInv` says that the words read so far have had their meaning: flags, counts, texts
and lists are what the roles of those words give, and the next word is read as its own role
says. `ChildInv` carries it through `Detach`. The words that `Picked` keeps have places
in the parent's command line, in the same order (`PicksAreInOrder`, `MovedPlaces`); dropping
flags of the background changes no role of the others (`ChildRoles`), so that flags, last
values, lists and URLs of the child are the parent's (`ChildMeans`).

The proofs use the named assumptions on the constants and nothing else; each is
evaluated by a run.

*Only model-checked:* liveness (`Terminates`, `InterruptEnds`, `RequestsAreBounded`,
`ReportersEnd`, the ends in `OrderedDelivery` and `ResumableDownload`), which is out of the
prover's reach. Every invariant and every action property that a passing run checks is
also the statement of a theorem.

## 5. Where the code and its documents disagree

Two runs show a statement of the documents violated by the code:

- `resume_out_of_order`: NextAssignment hands out `chunks[nextUndispatched]` without
  testing its state. When the completed chunks are no prefix, one is downloaded and
  *counted* again, `completedCount` reaches the total early, and the job removes the
  sidecar and reports success with a chunk missing.
- `resume_truncated`: `Run` creates (truncates) `-O FILE` before the sidecar is read;
  the chunks it names are then missing from a "successful" download.

Further disagreements met while modelling are stated as properties at the end of their
modules, under "What the documents say and the code does not do", each with a
configuration that reaches a counterexample. They are not in the list of runs. A
configuration named `..._documents` has several, one active and the others commented
out: exchange the comments to see another.

| Configuration | Module, property | What happens |
|---|---|---|
| `hedge_twice` | MCStreamJob, OneHedgeAtMost | HedgeEligible and StartHedge lock separately; two goroutines hedge one chunk (`runner.go:666`; ARCHITECTURE.md:1014) |
| `hedge_late_copy` | MCStreamJob, LateCopyIsHarmless | the original of a hedged chunk submits its copy after the writer has passed that chunk; the copy stays in the reorder map, and Close turns a complete output into an I/O error (`runner.go:717`; ARCHITECTURE.md:723) |
| `stream_documents` | MCStreamJob, PayloadBounded | the reservation is released before the write (`stream.go:126`; ARCHITECTURE.md:552) |
| | HealthyJobSucceeds | a refused reservation counts as a failed try, so a slow reader alone can make a healthy download fail (`runner.go:687`; DESIGN.md:276) |
| `target_restored` | MCWorkerPool, MemoryLimitsTarget | cleanup raises the target past the memory limit (`scheduler.go:374`; ARCHITECTURE.md:596) |
| `backoff_overflow` | MCWorkerPool, RetriesWait | from `--tries=36` on the shift overflows and a retry does not wait (`scheduler.go:337`; `scheduler.go:332`) |
| `file_documents` | MCFileJob, MarkedIsDurable | the bit is recorded without Sync (`file.go:50`; ARCHITECTURE.md:1016) |
| | SuccessIsDurable | with nothing pending the sidecar goes without Sync (`runner.go:317`; ARCHITECTURE.md:799) |
| `runner_documents` | MCRunner, ConcatenationIsExact | a sequential URL after a parallel one is written at the handle's old position (`runner.go:499`; DESIGN.md:256) |
| | FilesAreExact | the base offset also grows between files of their own (`runner.go:388`; `file.go:16`) |
| `stale_tail` | MCRunner, LengthIsSet | Finalize does not set the length (`file.go:60`; ARCHITECTURE.md:800) |
| `continue_whole` | MCRunner, ContinuedIsExact | a whole answer to a ranged request is appended (`adapter.go:274`; DESIGN.md:316) |
| `marker_lost` | MCRunner, OnlyPrefixesAreContinued | the sidecar of another size goes first; a later `-c` continues a file with gaps (`runner.go:213`; DESIGN.md:316) |
| `sequential_over_sidecar` | MCRunner, SidecarsAreTruthful | when answers change kind, the file is truncated under its sidecar (`runner.go:257`; ARCHITECTURE.md:791) |
| `single_documents` | MCRunner, OldFilesAreKept | `-O FILE` is truncated before the no-clobber test (`runner.go:77`; `parser.go:516`) |
| | TimestampsAreIgnored | `-N` is applied to `-O FILE` (`runner.go:173`; DESIGN.md:346) |
| `resume_documents` | ResumePlan, ResumedIsWhole | the bitmap of another split size is taken over (`runner.go:217`; ARCHITECTURE.md:1020) |
| | OneVersion | only the length is compared (`runner.go:211`; ARCHITECTURE.md:1017) |
| | PlanIsReturned | `--split-size=0` divides by zero (`chunk.go:68`) |
| `mixed_versions` | MCHttpAdapter, ValidatorIsCompatible | the validator of an answer is not compared; a server that ignores If-Range mixes versions (`adapter.go:244`; ARCHITECTURE.md, 8.3) |
| `openssl_documents` | MCHttpAdapter, InterruptEndsRequests | Close waits for the lock that the blocked read holds (`openssl_impl.go:225`; ARCHITECTURE.md:917) |
| | ConnectIsBounded | Dial of the binding takes no time limit (DESIGN.md:136) |
| | WritersAreSafe | Close does not take `writeMu` (`openssl_impl.go:72`) |
| `nc_continues` | MCCommandLine, NoClobberIsNotContinue | `-nc` is read as `-n -c` (`parser.go:219`; DESIGN.md:130) |
| `command_documents` | MCCommandLine, ChildAlwaysAgrees | a value that is "-b" is lost to the child (`background.go:18`) |
| | ParentSuccessIsMeant | the parent reports success before the child finds that there is no URL (DESIGN.md:359) |
| `progress_documents` | MCProgress, SuccessIsComplete | the summary reads what the reporter stored last, and resumed units are not counted (`progress.go:145`) |
| | SummaryIsFinal | a reporter draws after the summary |
| | OneReporter | one that was never stopped is still there (ARCHITECTURE.md:1002, `runner.go:553`) |
| | NoVerboseIsNotLive | `-nv` has a live display (DESIGN.md:418) |
| | FailureIsNotComplete | units that hedges counted twice make up for those missing |

The passing properties carry the conditions that these cases impose, by name
(`InOrder`, `Alone`, `ContinuesWell`, `AllAlike`, `BackgroundIsAnOption`), so that what does hold
is checked.

## 6. Not modelled

The FTP adapter, which nothing calls. Durations other than the backoff, and integers near
2^63. Of the adapter: headers other than those of ranges and validators, the reuse of
connections, and bodies without a length that end early, which the code cannot tell. Of
OpenSSL: the SSL_CTX, certificates, and what the library does inside a call. Of the
runner: spider mode, names from Content-Disposition or redirects, the creation of directories.
Of background mode: sessions and file descriptors. Of progress: the layout of a line. A
second signal, since the handler reads one. Exit codes and version are constants.

## 7. Plan

Order of work: pool before sinks, sinks before jobs, jobs before the runner that uses
them; then the parts around it, adapter, command line, progress. Done: the modules above.
Left:

1. `Runner` refined by `FileJob` for one URL, so that the outcomes it takes for granted
   are those that are proved.
2. Sizes and offsets as 64-bit integers in `ResumePlan`.
3. `HttpAdapter` under the pools in place of their free requests.
4. What reservations cover once a hedge has begun: how far memory may exceed them.
