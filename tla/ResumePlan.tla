------------------------------ MODULE ResumePlan ------------------------------
(***************************************************************************)
(* Which bytes a resumed download leaves to an earlier run: the planner of *)
(* internal/chunk/chunk.go, the completion bitmap of                       *)
(* internal/sidecar/sidecar.go, and the resume step of runOneJob and       *)
(* downloadParallelFile in internal/job/runner.go.                         *)
(*                                                                         *)
(* Runs of one download follow each other; a chunk is written and recorded *)
(* in one step, and FileJob has the interleavings.  Between runs the       *)
(* command line may ask for another split size, and the server may replace *)
(* the object by another version.                                          *)
(***************************************************************************)
EXTENDS Integers, Sequences, FiniteSets

CONSTANTS
    MaxSize,        \* largest object, in bytes: a bound of the model
    MaxRuns,        \* runs of pget: a bound of the model
    MaxVersion,     \* versions of the object: a bound of the model
    Splits,         \* split sizes the command line may give
    SplitChanges,   \* whether a later run may use another one
    ByteBits        \* bits in a byte of the bitmap: 8 in the code

ASSUME ResumeAssumption ==
    /\ MaxSize \in Nat \ {0} /\ MaxRuns \in Nat \ {0} /\ MaxVersion \in Nat \ {0}
    /\ Splits \subseteq Nat                 \* parseSize accepts 0
    /\ SplitChanges \in BOOLEAN
    /\ ByteBits \in Nat \ {0}

VARIABLES
    size, version,  \* the remote object
    split,          \* plan.SplitSize of this run
    probed,         \* the version this run probed
    bytes,          \* the version each byte of the destination is from, 0 for none
    sidecar,        \* length, split size and encoded bitmap; length 0 for none
    finished,       \* completed chunks of this run's plan
    phase,
    runs

resumeVars == <<size, version, split, probed, bytes, sidecar, finished, phase, runs>>

Offsets == 0 .. MaxSize - 1

-----------------------------------------------------------------------------
(* Planner.Plan *)

Count(n, s)     == (n + s - 1) \div s
ChunksOf(n, s)  == 0 .. Count(n, s) - 1
Start(i, s)     == i * s
\* MUTANT: the last chunk is not cut.
LengthFull(i, n, s) == s

Length(i, n, s) == IF Start(i, s) + s > n THEN n - Start(i, s) ELSE s
BytesOf(i, n, s) == Start(i, s) .. Start(i, s) + Length(i, n, s) - 1

-----------------------------------------------------------------------------
(* EncodeBitmap and DecodeBitmap; base64 loses nothing and is left out *)

\* MUTANT: the last bits are dropped.
WholeBytesDown(n) == ByteBits * (n \div ByteBits)

WholeBytes(n) == ByteBits * ((n + ByteBits - 1) \div ByteBits)
Encode(bits)  == [j \in 1 .. WholeBytes(Len(bits)) |-> j <= Len(bits) /\ bits[j]]
Decode(code, least) ==
    [j \in 1 .. (IF Len(code) < least THEN least ELSE Len(code)) |->
        j <= Len(code) /\ code[j]]
Bits(set, n)  == [j \in 1 .. n |-> j - 1 \in set]
Marked(bits)  == {i \in 0 .. Len(bits) - 1 : bits[i + 1]}

NoSidecar == [length |-> 0, split |-> 1, bitmap |-> <<>>]
Recorded  == Marked(Decode(sidecar.bitmap, Count(sidecar.length, sidecar.split)))

-----------------------------------------------------------------------------

ResumeInit ==
    /\ size \in 1 .. MaxSize /\ version = 1
    /\ split \in Splits
    /\ probed = 0
    /\ bytes = [o \in Offsets |-> 0]
    /\ sidecar = NoSidecar
    /\ finished = {}
    /\ phase = "idle"
    /\ runs = 0

\* MUTANT: the length in the sidecar is not compared.
CompletedAnySize == Recorded

\* completedChunks: of a sidecar whose length is the object's, every marked bit;
\* nothing else in the sidecar is compared.
Completed == IF sidecar.length = size THEN Recorded ELSE {}

\* The plan divides by the split size.
PlanPanics == split = 0

Begin ==
    /\ phase = "idle" /\ runs < MaxRuns
    /\ runs' = runs + 1 /\ probed' = version
    /\ IF PlanPanics
         THEN phase' = "panic" /\ UNCHANGED <<sidecar, finished>>
         ELSE /\ finished' = Completed \cap ChunksOf(size, split)
              /\ IF ChunksOf(size, split) \subseteq Completed
                   THEN phase' = "done" /\ sidecar' = NoSidecar
                   ELSE /\ phase' = "download"
                        /\ sidecar' = [length |-> size, split |-> split,
                             bitmap |-> Encode(Bits(Completed, Count(size, split)))]
    /\ UNCHANGED <<size, version, split, bytes>>

\* WriteChunk and MarkComplete.  If-Range refuses chunks of another version.
Write(i) ==
    /\ phase = "download" /\ version = probed
    /\ i \in ChunksOf(size, split) \ finished
    /\ bytes' = [o \in Offsets |->
                    IF o \in BytesOf(i, size, split) THEN version ELSE bytes[o]]
    /\ sidecar' = [sidecar EXCEPT !.bitmap =
                    Encode([Decode(@, Count(size, split)) EXCEPT ![i + 1] = TRUE])]
    /\ finished' = finished \cup {i}
    /\ UNCHANGED <<size, version, split, probed, phase, runs>>

Finish ==
    /\ phase = "download" /\ finished = ChunksOf(size, split)
    /\ phase' = "done" /\ sidecar' = NoSidecar
    /\ UNCHANGED <<size, version, split, probed, bytes, finished, runs>>

\* A run fails or is killed; the next one may ask for another split size.
Stop ==
    /\ phase = "download"
    /\ phase' = "idle"
    /\ split' \in IF SplitChanges THEN Splits ELSE {split}
    /\ finished' = {} /\ probed' = 0
    /\ UNCHANGED <<size, version, bytes, sidecar, runs>>

\* The server replaces the object between two runs.
Replace ==
    /\ phase = "idle" /\ version < MaxVersion
    /\ version' = version + 1
    /\ size' \in 1 .. MaxSize
    /\ UNCHANGED <<split, probed, bytes, sidecar, finished, phase, runs>>

\* Nothing more to do.
Ended == phase \in {"done", "panic"} \/ (phase = "idle" /\ runs = MaxRuns)
Rest  == Ended /\ UNCHANGED resumeVars

ResumeNext ==
    \/ Begin
    \/ \E i \in Offsets : Write(i)
    \/ Finish
    \/ Stop
    \/ Replace
    \/ Rest

ResumeSpec == ResumeInit /\ [][ResumeNext]_resumeVars

-----------------------------------------------------------------------------
(* Properties *)

ResumeTypeOK ==
    /\ size \in 1 .. MaxSize /\ version \in 1 .. MaxVersion /\ probed \in 0 .. MaxVersion
    /\ split \in Splits
    /\ bytes \in [Offsets -> 0 .. MaxVersion]
    /\ sidecar.length \in 0 .. MaxSize /\ sidecar.bitmap \in Seq(BOOLEAN)
    /\ finished \subseteq Offsets
    /\ phase \in {"idle", "download", "done", "panic"}
    /\ runs \in 0 .. MaxRuns

\* The bitmap on disk names the finished chunks, no more and no fewer: nothing is
\* lost or gained at the end of a byte, whatever run a bit was set in.
BitmapIsExact == phase = "download" => Recorded = finished

\* With one split size, every byte of a chunk that a run takes as completed has
\* been written: though the last chunk is short, and the object may be replaced.
FinishedIsWritten ==
    phase \in {"download", "done"} =>
        \A i \in finished : \A o \in BytesOf(i, size, split) : bytes[o] # 0

\* The plan tiles the object: no chunk is empty or reaches past the end, and each
\* byte is in exactly one.
Tiles(n, s) ==
    /\ \A i \in ChunksOf(n, s) : Length(i, n, s) > 0 /\ BytesOf(i, n, s) \subseteq 0 .. n - 1
    /\ \A o \in 0 .. n - 1 : \E i \in ChunksOf(n, s) :
        /\ o \in BytesOf(i, n, s)
        /\ \A j \in ChunksOf(n, s) : o \in BytesOf(j, n, s) => j = i
PlanTiles == split # 0 => Tiles(size, split)

-----------------------------------------------------------------------------
(* What the documents say and the code does not do *)

\* ARCHITECTURE.md, 24: "Chunk size never changes during an object download."  So
\* a resumed download that is done has every byte.
ResumedIsWhole == phase = "done" => \A o \in 0 .. size - 1 : bytes[o] # 0

\* ARCHITECTURE.md, 24: "Ranges from incompatible object versions are never
\* combined."
OneVersion == phase = "done" => Cardinality({bytes[o] : o \in 0 .. size - 1}) = 1

\* chunk.go: "Plan returns the list of chunks for an object of the given size."
PlanIsReturned == phase # "panic"
=============================================================================
