-------------------------------- MODULE Runner --------------------------------
(***************************************************************************)
(* internal/job/runner.go, Run, runOneJob, checkTimestamp and              *)
(* downloadSequential: the URLs of one command line, one after the other,  *)
(* into a file each, into one -O FILE, or to standard output; and the same *)
(* command again after a failure or a crash.                               *)
(*                                                                         *)
(* A byte range of one split size is a unit, <<url, index>>.  The parallel *)
(* downloads are taken at what FileJob and StreamJob establish: units of a *)
(* file are written and recorded in any order, units of a stream in order. *)
(* File names are distinct: what Content-Disposition or a redirect does to *)
(* them is left out.                                                       *)
(***************************************************************************)
EXTENDS Naturals, Sequences, SequencesExt

CONSTANTS
    UrlCounts,  \* the values of len(plan.URLs)
    MaxSize,    \* units in the largest object: a bound of the model
    MaxUnits,   \* units in all objects together: a bound of the model
    MaxJobs,    \* URLs processed in all runs together: a bound of the model
    Plans,      \* the command lines considered
    Servers,    \* how the servers considered answer
    OldFiles,   \* whether longer files of the same names may be there already
    Changes     \* what may have changed when the command is run again: "longer"
                \* objects, the "kind" of answers

\* cli: what parse and validate accept.
Plan == [mode : {"file", "single", "stdout"}, noClobber : BOOLEAN,
         timestamps : BOOLEAN, continue : BOOLEAN, parallel : BOOLEAN]
Accepted == {p \in Plan : ~(p.mode = "stdout" /\ p.continue)}

\* Probe's findings: ranges with a validator, ranges without one, a known size
\* only, or nothing.
ServerKinds == {"ranges", "novalidator", "whole", "unsized"}

ASSUME RunnerAssumption ==
    /\ UrlCounts \subseteq Nat \ {0} /\ MaxSize \in Nat \ {0}
    /\ MaxUnits \in Nat /\ MaxJobs \in Nat
    /\ Plans \subseteq Accepted
    /\ Servers \subseteq ServerKinds
    /\ OldFiles \subseteq BOOLEAN
    /\ Changes \subseteq {"longer", "kind"}

Success == 0
IOError == 3
NetworkFail == 4
ServerError == 8
NoCode == 99      \* still running

VARIABLES
    plan,
    remote,       \* the objects: [kind, size] of each URL
    data,         \* content of each destination file
    exists,       \* destination files that exist
    recorded,     \* completed units in the sidecar of each destination
    recordedSize, \* the object size in it, 0 when there is no sidecar
    out,          \* units on standard output
    pos,          \* file position of the handle Run opened for -O FILE
    base,         \* outputBaseOffset
    url,          \* the URL being processed
    step,
    handle,       \* what downloadSequential writes through
    resumed,      \* completedChunks of this job
    rest,         \* units of a stream or sequential body still to come
    codes,        \* how the jobs of this run ended
    exit,         \* exit code of the process
    runs

locals     == <<handle, resumed, rest>>
fileState  == <<data, exists, pos>>
sidecarState == <<recorded, recordedSize>>
given      == <<plan, remote, runs>>
runnerVars == <<given, fileState, sidecarState, out, base, locals, url, step, codes, exit>>

NumUrls == Len(remote)
Urls    == 1 .. NumUrls

\* The objects that n URLs may have.
Objects(n) ==
    {r \in [1 .. n -> [kind : Servers, size : 1 .. MaxSize]] :
        FoldFunction(LAMBDA o, sum : o.size + sum, 0, r) <= MaxUnits}

Hole  == <<0, 0>>     \* what no URL has written: older content, or a gap
Unit  == (Urls \X (0 .. MaxSize - 1)) \cup {Hole}
Steps == {"start", "job", "chunks", "stream", "open", "copy", "over",
          "killed"}

\* The destination: one for all URLs with -O, one each without.
Single == plan.mode = "single"
Stdout == plan.mode = "stdout"
Name(u) == IF Single THEN 1 ELSE u
Dest    == Name(url)

Object(u) == [i \in 1 .. remote[u].size |-> <<u, i - 1>>]
UnitsOf(u) == 0 .. remote[u].size - 1
KnownSize(u) == IF remote[u].kind = "unsized" THEN 0 ELSE remote[u].size   \* result.Size
UseParallel(u) == remote[u].kind = "ranges" /\ plan.parallel

\* A positional write of one unit.
Put(content, offset, unit) ==
    [i \in 1 .. (IF offset < Len(content) THEN Len(content) ELSE offset + 1) |->
        IF i = offset + 1 THEN unit ELSE IF i <= Len(content) THEN content[i] ELSE Hole]

RunnerInit ==
    /\ plan \in Plans
    /\ \E n \in UrlCounts : remote \in Objects(n)
    /\ \E old \in OldFiles : exists = IF old THEN Urls ELSE {}
    /\ data = [u \in Urls |-> IF u \in exists THEN [i \in 1 .. MaxSize + 1 |-> Hole] ELSE <<>>]
    /\ recorded = [u \in Urls |-> {}]
    /\ recordedSize = [u \in Urls |-> 0]
    /\ out = <<>>
    /\ pos = 0 /\ base = 0
    /\ url = 1 /\ step = "start"
    /\ handle = "none" /\ resumed = {} /\ rest = <<>>
    /\ codes = <<>> /\ exit = NoCode
    /\ runs = 1

-----------------------------------------------------------------------------
(* Run *)

\* os.Create for -O FILE truncates what is there.
Open ==
    /\ step = "start"
    /\ IF Single
         THEN data' = [data EXCEPT ![1] = <<>>] /\ exists' = exists \cup {1}
         ELSE UNCHANGED <<data, exists>>
    /\ step' = "job"
    /\ UNCHANGED <<given, pos, sidecarState, out, base, locals, url, codes, exit>>

OpenFails ==
    /\ step = "start" /\ Single
    /\ step' = "over" /\ exit' = IOError
    /\ UNCHANGED <<given, fileState, sidecarState, out, base, locals, url, codes>>

\* MUTANT: the last code instead of the worst.
WorstLast(seq) == IF seq = <<>> THEN 0 ELSE Last(seq)

\* A job ends: a failure ends a concatenation; otherwise the next URL, or the
\* worst code of all.
Worst(seq) == FoldSeq(LAMBDA code, worst : IF code > worst THEN code ELSE worst, 0, seq)

\* MUTANT: a failure does not end a concatenation.
EndJobKeepsGoing(code) ==
    /\ codes' = Append(codes, code)
    /\ IF url < NumUrls
         THEN step' = "job" /\ url' = url + 1 /\ UNCHANGED exit
         ELSE step' = "over" /\ exit' = Worst(codes') /\ UNCHANGED url
    /\ handle' = "none" /\ resumed' = {} /\ rest' = <<>>

EndJob(code) ==
    /\ codes' = Append(codes, code)
    /\ IF code # Success /\ plan.mode # "file"
         THEN step' = "over" /\ exit' = code /\ UNCHANGED url
         ELSE IF url < NumUrls
                THEN step' = "job" /\ url' = url + 1 /\ UNCHANGED exit
                ELSE step' = "over" /\ exit' = Worst(codes') /\ UNCHANGED url
    /\ handle' = "none" /\ resumed' = {} /\ rest' = <<>>

-----------------------------------------------------------------------------
(* runOneJob *)

DestExists == ~Stdout /\ Dest \in exists

NoClobberSkips == plan.noClobber /\ DestExists

\* checkTimestamp: only an answer with a validator carries a modification time;
\* that it is not newer is left to chance.
MayBeCurrent ==
    /\ plan.timestamps /\ DestExists
    /\ remote[url].kind = "ranges"
    /\ Len(data[Dest]) = remote[url].size

Skip ==
    /\ step = "job"
    /\ NoClobberSkips \/ MayBeCurrent
    /\ EndJob(Success)
    /\ UNCHANGED <<given, fileState, sidecarState, out, base>>

ProbeFails ==
    /\ step = "job" /\ ~NoClobberSkips
    /\ EndJob(NetworkFail)
    /\ UNCHANGED <<given, fileState, sidecarState, out, base>>

\* The sidecar decides before anything else: it is removed when the size differs.
HasSidecar  == ~Stdout /\ recordedSize[Dest] # 0
StaleSidecar == HasSidecar /\ recordedSize[Dest] # KnownSize(url)
Completed   == IF HasSidecar /\ ~StaleSidecar THEN recorded[Dest] ELSE {}
\* -c without a sidecar: contiguous resume, on a handle of its own.
Contiguous  == ~HasSidecar /\ plan.continue /\ DestExists /\ Len(data[Dest]) > 0

RemoveSidecar ==
    /\ recorded' = [recorded EXCEPT ![Dest] = {}]
    /\ recordedSize' = [recordedSize EXCEPT ![Dest] = 0]
\* runOneJob and downloadParallelFile ignore the error of a removal.
TryRemoveSidecar == RemoveSidecar \/ UNCHANGED sidecarState

\* The probe succeeds and the job is sequential: it writes through the handle of
\* Run, through its own, or, resuming, through its own and without a base offset.
StartSequential ==
    /\ step = "job" /\ ~NoClobberSkips
    /\ Contiguous \/ ~UseParallel(url)
    /\ IF StaleSidecar THEN TryRemoveSidecar ELSE UNCHANGED sidecarState
    /\ resumed' = Completed
    /\ handle' = IF Contiguous THEN "resume" ELSE IF plan.mode = "file" THEN "own" ELSE "shared"
    /\ step' = "open"
    /\ UNCHANGED <<given, fileState, out, base, rest, url, codes, exit>>

StartStream ==
    /\ step = "job" /\ Stdout /\ UseParallel(url)
    /\ rest' = Object(url)
    /\ step' = "stream"
    /\ UNCHANGED <<given, fileState, sidecarState, out, base, handle, resumed, url, codes, exit>>

StartsChunks == step = "job" /\ ~NoClobberSkips /\ ~Stdout /\ UseParallel(url) /\ ~Contiguous

\* MUTANT: the destination is truncated when it is opened.
StartChunksTruncating ==
    /\ StartsChunks /\ Completed # UnitsOf(url)
    /\ resumed' = Completed
    /\ recorded' = [recorded EXCEPT ![Dest] = Completed]
    /\ recordedSize' = [recordedSize EXCEPT ![Dest] = remote[url].size]
    /\ data' = [data EXCEPT ![Dest] = <<>>]
    /\ exists' = exists \cup {Dest}
    /\ step' = "chunks"
    /\ UNCHANGED <<given, pos, out, base, handle, rest, url, codes, exit>>

\* downloadParallelFile writes the sidecar and opens the destination as it is.
StartChunks ==
    /\ StartsChunks /\ Completed # UnitsOf(url)
    /\ resumed' = Completed
    /\ recorded' = [recorded EXCEPT ![Dest] = Completed]
    /\ recordedSize' = [recordedSize EXCEPT ![Dest] = remote[url].size]
    /\ exists' = exists \cup {Dest}
    /\ step' = "chunks"
    /\ UNCHANGED <<given, data, pos, out, base, handle, rest, url, codes, exit>>

\* The sidecar cannot be written, or the destination cannot be opened after it.
ChunksRefused ==
    /\ StartsChunks /\ Completed # UnitsOf(url)
    /\ \/ /\ recorded' = [recorded EXCEPT ![Dest] = Completed]
          /\ recordedSize' = [recordedSize EXCEPT ![Dest] = remote[url].size]
       \/ IF StaleSidecar THEN TryRemoveSidecar ELSE UNCHANGED sidecarState
    /\ EndJob(IOError)
    /\ UNCHANGED <<given, fileState, out, base>>

AlreadyComplete ==
    /\ StartsChunks /\ Completed = UnitsOf(url)
    /\ TryRemoveSidecar
    /\ base' = base + remote[url].size
    /\ EndJob(Success)
    /\ UNCHANGED <<given, fileState, out>>

-----------------------------------------------------------------------------
(* downloadParallelFile and downloadParallelStream *)

WriteChunk(i) ==
    /\ step = "chunks" /\ i \in UnitsOf(url) \ recorded[Dest]
    /\ data' = [data EXCEPT ![Dest] = Put(@, base + i, <<url, i>>)]
    /\ recorded' = [recorded EXCEPT ![Dest] = @ \cup {i}]
    /\ UNCHANGED <<given, exists, pos, recordedSize, out, base, locals, url, step, codes, exit>>

\* Every chunk is completed; FileJob shows that a job which resumed out of order
\* may end without.
InOrder(set) == \A i \in set : 0 .. i \subseteq set

\* MUTANT: the base offset does not move on.
ChunksDoneInPlace ==
    /\ step = "chunks"
    /\ recorded[Dest] = UnitsOf(url) \/ ~InOrder(resumed)
    /\ RemoveSidecar
    /\ EndJob(Success)
    /\ UNCHANGED <<given, fileState, out, base>>

ChunksDone ==
    /\ step = "chunks"
    /\ recorded[Dest] = UnitsOf(url) \/ ~InOrder(resumed)
    /\ base' = base + remote[url].size
    /\ RemoveSidecar
    /\ EndJob(Success)
    /\ UNCHANGED <<given, fileState, out>>

\* MUTANT: the sidecar is removed although the download failed.
ChunksFailCleanup ==
    /\ step = "chunks"
    /\ base' = base + remote[url].size
    /\ RemoveSidecar
    /\ \E code \in {IOError, NetworkFail, ServerError} : EndJob(code)
    /\ UNCHANGED <<given, fileState, out>>

ChunksFail ==
    /\ step = "chunks"
    /\ base' = base + remote[url].size
    /\ \E code \in {IOError, NetworkFail, ServerError} : EndJob(code)
    /\ UNCHANGED <<given, fileState, sidecarState, out>>

StreamUnit ==
    /\ step = "stream" /\ rest # <<>>
    /\ out' = Append(out, Head(rest))
    /\ rest' = Tail(rest)
    /\ UNCHANGED <<given, fileState, sidecarState, base, handle, resumed, url, step, codes,
                   exit>>

StreamEnds ==
    /\ step = "stream"
    /\ \/ rest = <<>> /\ EndJob(Success)
       \/ \E code \in {IOError, NetworkFail, ServerError} : EndJob(code)
    /\ UNCHANGED <<given, fileState, sidecarState, out, base>>

-----------------------------------------------------------------------------
(* downloadSequential *)

Shared == handle = "shared"
Offset == IF ~Shared /\ DestExists /\ plan.continue /\ KnownSize(url) > 0
            THEN Len(data[Dest]) ELSE 0

\* The answer to a request from an offset: the tail, a refusal past the end, or
\* the whole object from a server that ignores ranges.
Body(offset) ==
    IF remote[url].kind \in {"ranges", "novalidator"}
      THEN SubSeq(Object(url), offset + 1, remote[url].size)
      ELSE Object(url)
Refused(offset) == offset > 0 /\ Body(offset) = <<>>

\* MUTANT: the destination is never truncated.
OpenAppending ==
    IF Shared
      THEN UNCHANGED <<data, exists>>
      ELSE exists' = exists \cup {Dest} /\ UNCHANGED data

\* Opened to append after an offset, and truncated otherwise.
OpenDestination ==
    IF Shared
      THEN UNCHANGED <<data, exists>>
      ELSE /\ exists' = exists \cup {Dest}
           /\ data' = IF Offset > 0 THEN data ELSE [data EXCEPT ![Dest] = <<>>]

Request ==
    /\ step = "open" /\ ~Refused(Offset)
    /\ OpenDestination
    /\ rest' = Body(Offset)
    /\ step' = "copy"
    /\ UNCHANGED <<given, pos, sidecarState, out, base, handle, resumed, url, codes, exit>>

\* The destination cannot be opened; or the request fails, or is refused.
RequestFails ==
    /\ step = "open"
    /\ \/ ~Shared /\ EndJob(IOError) /\ UNCHANGED <<data, exists>>
       \/ EndJob(NetworkFail) /\ OpenDestination
    /\ UNCHANGED <<given, pos, sidecarState, out, base>>

\* io.Copy, unit by unit: to standard output, at the position of the shared
\* handle, or to the end of the file.
CopyUnit ==
    /\ step = "copy" /\ rest # <<>>
    /\ rest' = Tail(rest)
    /\ \/ /\ Stdout
          /\ out' = Append(out, Head(rest))
          /\ UNCHANGED <<data, pos>>
       \/ /\ Shared /\ Single
          /\ data' = [data EXCEPT ![Dest] = Put(@, pos, Head(rest))]
          /\ pos' = pos + 1
          /\ UNCHANGED out
       \/ /\ ~Shared
          /\ data' = [data EXCEPT ![Dest] = Append(@, Head(rest))]
          /\ UNCHANGED <<out, pos>>
    /\ UNCHANGED <<given, exists, sidecarState, base, handle, resumed, url, step, codes,
                   exit>>

CopyDone ==
    /\ step = "copy" /\ rest = <<>>
    /\ base' = IF handle = "resume" THEN base ELSE base + KnownSize(url)
    /\ EndJob(Success)
    /\ UNCHANGED <<given, fileState, sidecarState, out>>

CopyFails ==
    /\ step = "copy"
    /\ EndJob(NetworkFail)
    /\ UNCHANGED <<given, fileState, sidecarState, out, base>>

-----------------------------------------------------------------------------
(* Crashes and further runs *)

Alive == step \notin {"over", "killed"}

Kill ==
    /\ Alive
    /\ step' = "killed"
    /\ UNCHANGED <<given, fileState, sidecarState, out, base, locals, url, codes, exit>>

\* The same command after a crash or a failure; what went to standard output is
\* gone, and objects and servers may have changed.
RunAgain ==
    /\ ~Alive /\ exit # Success /\ (runs + 1) * NumUrls <= MaxJobs
    /\ runs' = runs + 1
    /\ remote' \in {r \in Objects(NumUrls) : \A u \in Urls :
         /\ r[u].kind = remote[u].kind \/ "kind" \in Changes
         /\ r[u].size = remote[u].size \/ ("longer" \in Changes /\ r[u].size > remote[u].size)}
    /\ out' = <<>> /\ pos' = 0 /\ base' = 0
    /\ url' = 1 /\ step' = "start"
    /\ handle' = "none" /\ resumed' = {} /\ rest' = <<>>
    /\ codes' = <<>> /\ exit' = NoCode
    /\ UNCHANGED <<plan, data, exists, sidecarState>>

Idle == ~Alive /\ UNCHANGED runnerVars

RunnerNext ==
    \/ Open \/ OpenFails
    \/ Skip \/ ProbeFails
    \/ StartSequential \/ StartStream \/ StartChunks \/ ChunksRefused \/ AlreadyComplete
    \/ \E i \in 0 .. MaxSize - 1 : WriteChunk(i)
    \/ ChunksDone \/ ChunksFail
    \/ StreamUnit \/ StreamEnds
    \/ Request \/ RequestFails \/ CopyUnit \/ CopyDone \/ CopyFails
    \/ Kill \/ RunAgain \/ Idle

RunnerSpec == RunnerInit /\ [][RunnerNext]_runnerVars

-----------------------------------------------------------------------------
(* Properties *)

RunnerTypeOK ==
    /\ plan \in Plans
    /\ data \in [Urls -> Seq(Unit)]
    /\ recorded \in [Urls -> SUBSET (0 .. MaxSize - 1)]
    /\ exists \subseteq Urls
    /\ recordedSize \in [Urls -> 0 .. MaxSize]
    /\ out \in Seq(Unit) /\ rest \in Seq(Unit)
    /\ pos \in Nat /\ base \in Nat
    /\ url \in Urls /\ step \in Steps
    /\ handle \in {"none", "shared", "own", "resume"}
    /\ resumed \subseteq 0 .. MaxSize - 1
    /\ codes \in Seq(Nat) /\ exit \in Nat
    /\ NumUrls \in UrlCounts /\ remote \in Objects(NumUrls)
    /\ runs \in Nat \ {0}

AllObjects == FlattenSeq([u \in Urls |-> Object(u)])

\* Standard output carries a prefix of the concatenation at all times, and all of
\* it when the command succeeds, whatever mix of parallel and sequential jobs.
StdoutIsConcatenation ==
    Stdout => IsPrefix(out, AllObjects) /\ (exit = Success => out = AllObjects)

\* A first run into one -O FILE whose URLs are downloaded the same way leaves
\* exactly the concatenation: base offsets and the shared handle do their work.
AllAlike == (\A u \in Urls : UseParallel(u)) \/ (\A u \in Urls : ~UseParallel(u))
PlainPlan == ~plan.noClobber /\ ~plan.timestamps /\ ~plan.continue
UniformConcatenationIsExact ==
    Single /\ PlainPlan /\ AllAlike /\ runs = 1 /\ exit = Success => data[1] = AllObjects

\* The process succeeds only when every URL did; with a file each, every URL gets
\* its turn, and the exit code is one that a URL ended with, the highest.
ExitTellsAll ==
    step = "over" =>
        /\ exit = Success => Len(codes) = NumUrls /\ ToSet(codes) = {Success}
        /\ plan.mode = "file" =>
            Len(codes) = NumUrls /\ exit \in ToSet(codes) /\ \A code \in ToSet(codes) : code <= exit

\* A file is the one destination of the command: no earlier URL has moved the base
\* offset.
Alone == plan.mode = "file" /\ NumUrls = 1

\* A download to a file that ends with success leaves the object and nothing else,
\* across crashes and further runs: provided it resumed in order, and, to resume
\* with -c and no sidecar, from a prefix and on a server that honours ranges; and
\* that no longer file was in the way of a parallel download, whose end would stay.
JobSucceeds == Len(codes') > Len(codes) /\ codes'[Len(codes')] = Success
IsContinued == handle = "resume"
ContinuesWell ==
    IsContinued => IsPrefix(data[1], Object(1)) /\ remote[1].kind # "whole"
JobEndsWell ==
    /\ Alone
    /\ step \in {"chunks", "copy"} /\ InOrder(resumed)
    /\ ContinuesWell
    /\ step = "chunks" => Len(data[url]) <= remote[url].size
    /\ JobSucceeds
JobIsExact == [][JobEndsWell => data'[url] = Object(url)]_runnerVars

\* The units that its sidecar names are in the file, whatever the command was asked
\* to do with a file that it found.
SidecarsAreTruthful ==
    Alone => \A i \in recorded[1] : i < Len(data[1]) /\ data[1][i + 1] = <<1, i>>

\* The sidecar, the mark of an incomplete file, disappears only once every unit is
\* in the file, in the run that resumed it or in one that finds it all recorded;
\* or because the object has another size now.
MarkedUntilWhole ==
    [][Alone /\ InOrder(resumed) /\ recordedSize[1] = remote[1].size /\ recordedSize'[1] = 0
        => IsPrefix(Object(1), data[1])]_runnerVars

-----------------------------------------------------------------------------
(* What the documents say and the code does not do *)

\* DESIGN.md, 10: "The output is the exact concatenation".
ConcatenationIsExact == Single /\ exit = Success => data[1] = AllObjects

\* sink/file.go: the base offset is one "for concatenated mode".  So files of
\* their own are exact.
FilesAreExact == plan.mode = "file" /\ exit = Success => \A u \in Urls : data[u] = Object(u)

\* sink/file.go: Finalize "syncs data, sets length".
LengthIsSet == plan.mode = "file" /\ exit = Success => Len(data[1]) = remote[1].size

\* DESIGN.md, 13: with a matching sidecar, -O FILE resumes "only missing chunks".
ResumeIsComplete == Single /\ runs > 1 /\ exit = Success => data[1] = AllObjects

\* DESIGN.md, 13: -c resumes from the current file length.
ContinuedIsExact == plan.continue /\ exit = Success => data[1] = Object(1)

\* DESIGN.md, 13: -c without a sidecar relies on "a valid contiguous prefix", and
\* the sidecar marks every file that is none.  So pget never continues such a file.
OnlyPrefixesAreContinued == Alone /\ IsContinued => IsPrefix(data[1], Object(1))

\* cli help: -nc skips "downloads that would overwrite files".
OldFilesAreKept == [][plan.noClobber => \A n \in exists : data'[n] = data[n]]_runnerVars

\* DESIGN.md, 14: -N under -O: "disable timestamp comparison".
TimestampsAreIgnored == Single /\ plan.timestamps /\ exit = Success => data[1] = AllObjects
=============================================================================
