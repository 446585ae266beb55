--------------------------- MODULE ResumePlanProofs ---------------------------
(***************************************************************************)
(* The planner cuts an object of any size into chunks of any size without  *)
(* gap or overlap, the bitmap loses and gains nothing on its way to the    *)
(* disk and back, and what it marks was written.                           *)
(***************************************************************************)
EXTENDS ResumePlan, SequenceTheorems, TLAPS

\* Division with a positive divisor rounds down.
LEMMA Quotient ==
    ASSUME NEW a \in Nat, NEW s \in Nat \ {0}
    PROVE  a \div s \in Nat /\ (a \div s) * s <= a /\ a < (a \div s) * s + s
  BY SMT

\* Smaller factors, smaller products.
LEMMA Products ==
    ASSUME NEW i \in Nat, NEW j \in Nat, NEW s \in Nat \ {0}, i < j
    PROVE  i * s + s <= j * s
<1>1. j * s = i * s + (j - i) * s
  BY SMT
<1>2. (j - i) * s >= s
  BY SMT
<1> QED BY <1>1, <1>2, SMT

\* The number of chunks is the size divided by the split size, rounded up.
LEMMA CountBounds ==
    ASSUME NEW n \in Nat, NEW s \in Nat \ {0}
    PROVE  Count(n, s) \in Nat /\ n <= Count(n, s) * s /\ Count(n, s) * s < n + s
<1> DEFINE a == n + s - 1
<1>1. a \in Nat
  OBVIOUS
<1>2. a \div s \in Nat /\ (a \div s) * s <= a /\ a < (a \div s) * s + s
  BY <1>1, Quotient
<1>3. Count(n, s) = a \div s
  BY DEF Count
<1> HIDE DEF a
<1>4. \A p \in Nat : p <= a /\ a < p + s => n <= p /\ p < n + s
  BY DEF a
<1>5. (a \div s) * s \in Nat
  BY <1>2, SMT
<1> QED BY <1>2, <1>3, <1>4, <1>5

\* A chunk starts inside the object, is not empty, and ends inside it.
LEMMA ChunkIsInside ==
    ASSUME NEW n \in Nat, NEW s \in Nat \ {0}, NEW i \in ChunksOf(n, s)
    PROVE  /\ i \in Nat /\ Start(i, s) \in Nat /\ Start(i, s) < n
           /\ Length(i, n, s) \in 1 .. s
           /\ Start(i, s) + Length(i, n, s) <= n
<1>1. Count(n, s) \in Nat /\ Count(n, s) * s < n + s
  BY CountBounds
<1>2. i \in Nat /\ i < Count(n, s)
  BY <1>1 DEF ChunksOf
<1>3. i * s + s <= Count(n, s) * s
  BY <1>1, <1>2, Products
<1>4. i * s \in Nat /\ Count(n, s) * s \in Nat
  BY <1>1, <1>2, SMT
<1>5. i * s < n
  BY <1>1, <1>3, <1>4
<1> QED BY <1>2, <1>4, <1>5 DEF Start, Length

\* Two chunks have no byte in common.
LEMMA ChunksAreDisjoint ==
    ASSUME NEW n \in Nat, NEW s \in Nat \ {0},
           NEW i \in ChunksOf(n, s), NEW j \in ChunksOf(n, s), i < j
    PROVE  BytesOf(i, n, s) \cap BytesOf(j, n, s) = {}
<1>1. i \in Nat /\ j \in Nat /\ Length(i, n, s) \in 1 .. s
      /\ Length(j, n, s) \in 1 .. s
  BY ChunkIsInside
<1>2. i * s + s <= j * s
  BY <1>1, Products
<1>3. i * s \in Nat /\ j * s \in Nat
  BY <1>1, SMT
<1> QED BY <1>1, <1>2, <1>3 DEF BytesOf, Start

\* The chunk of a byte.
LEMMA ByteHasChunk ==
    ASSUME NEW n \in Nat, NEW s \in Nat \ {0}, NEW o \in 0 .. n - 1
    PROVE  o \div s \in ChunksOf(n, s) /\ o \in BytesOf(o \div s, n, s)
<1> DEFINE q == o \div s
<1>1. q \in Nat /\ q * s <= o /\ o < q * s + s
  BY Quotient
<1>2. Count(n, s) \in Nat /\ n <= Count(n, s) * s
  BY CountBounds
<1> HIDE DEF q
<1>3. q < Count(n, s)
  <2> SUFFICES ASSUME Count(n, s) <= q PROVE FALSE
    BY <1>1, <1>2
  <2>1. CASE Count(n, s) = q
    <3>1. q * s \in Nat
      BY <1>1, SMT
    <3> QED BY <2>1, <1>1, <1>2, <3>1
  <2>2. CASE Count(n, s) < q
    <3>1. Count(n, s) * s + s <= q * s
      BY <2>2, <1>1, <1>2, Products
    <3>2. q * s \in Nat /\ Count(n, s) * s \in Nat
      BY <1>1, <1>2, SMT
    <3> QED BY <1>1, <1>2, <3>1, <3>2
  <2> QED BY <2>1, <2>2, <1>1, <1>2
<1>4. q \in ChunksOf(n, s)
  BY <1>1, <1>2, <1>3 DEF ChunksOf
<1>5. q * s \in Nat
  BY <1>1, SMT
<1>6. o \in BytesOf(q, n, s)
  BY <1>1, <1>5 DEF BytesOf, Start, Length
<1> QED BY <1>4, <1>6 DEF q

\* Planner.Plan cuts any object into chunks of any positive size so that no chunk
\* is empty or reaches past the end, and every byte is in exactly one chunk.
THEOREM PlanIsATiling ==
    ASSUME NEW n \in Nat, NEW s \in Nat \ {0}
    PROVE  Tiles(n, s)
<1>1. ASSUME NEW i \in ChunksOf(n, s)
      PROVE  Length(i, n, s) > 0 /\ BytesOf(i, n, s) \subseteq 0 .. n - 1
  <2>1. /\ Start(i, s) \in Nat
        /\ Length(i, n, s) \in 1 .. s
        /\ Start(i, s) + Length(i, n, s) <= n
    BY ChunkIsInside
  <2> QED BY <2>1 DEF BytesOf
<1>2. ASSUME NEW o \in 0 .. n - 1
      PROVE  \E i \in ChunksOf(n, s) :
                /\ o \in BytesOf(i, n, s)
                /\ \A j \in ChunksOf(n, s) : o \in BytesOf(j, n, s) => j = i
  <2>1. o \div s \in ChunksOf(n, s) /\ o \in BytesOf(o \div s, n, s)
    BY ByteHasChunk
  <2>2. PICK i \in ChunksOf(n, s) : o \in BytesOf(i, n, s)
    BY <2>1
  <2>3. ASSUME NEW j \in ChunksOf(n, s), o \in BytesOf(j, n, s)
        PROVE  j = i
    <3>1. i \in Nat /\ j \in Nat
      BY ChunkIsInside
    <3>2. ~(i < j)
      BY <2>2, <2>3, ChunksAreDisjoint
    <3>3. ~(j < i)
      BY <2>2, <2>3, ChunksAreDisjoint
    <3> QED BY <3>1, <3>2, <3>3
  <2> QED BY <2>2, <2>3
<1> QED BY <1>1, <1>2 DEF Tiles

-----------------------------------------------------------------------------

\* What every run keeps: an object of a positive size and a split size that the
\* command line may give.
PlanInputs == size \in 1 .. MaxSize /\ split \in Splits

\* No step leaves the sizes that the program can meet.
LEMMA InputsStep == ASSUME PlanInputs, [ResumeNext]_resumeVars PROVE PlanInputs'
<1>1. CASE Begin
  BY <1>1 DEF Begin, PlanInputs
<1>2. ASSUME NEW i \in Offsets, Write(i)
      PROVE  PlanInputs'
  BY <1>2 DEF Write, PlanInputs
<1>3. CASE Finish
  BY <1>3 DEF Finish, PlanInputs
<1>4. CASE Stop
  BY <1>4 DEF Stop, PlanInputs
<1>5. CASE Replace
  BY <1>5 DEF Replace, PlanInputs
<1>6. CASE UNCHANGED resumeVars
  BY <1>6 DEF resumeVars, PlanInputs
<1> QED BY <1>1, <1>2, <1>3, <1>4, <1>5, <1>6 DEF ResumeNext, Rest

\* Whatever the command line asked for and whichever version the server holds, the
\* plan of every run tiles the object, unless the split size is zero.
THEOREM EveryPlanTiles == ResumeSpec => []PlanTiles
<1>1. ResumeInit => PlanInputs
  BY DEF ResumeInit, PlanInputs
<1>2. PlanInputs /\ [ResumeNext]_resumeVars => PlanInputs'
  BY InputsStep
<1>3. PlanInputs => PlanTiles
  <2> SUFFICES ASSUME PlanInputs, split # 0
               PROVE  Tiles(size, split)
    BY DEF PlanTiles
  <2>1. MaxSize \in Nat /\ size \in Nat /\ split \in Nat \ {0}
    BY ResumeAssumption DEF PlanInputs
  <2> QED BY <2>1, PlanIsATiling
<1> QED BY <1>1, <1>2, <1>3, PTL DEF ResumeSpec

-----------------------------------------------------------------------------
(* The bitmap *)

\* A function on 1 .. n is a sequence of length n.
LEMMA BitSequence ==
    ASSUME NEW n \in Nat, NEW f \in [1 .. n -> BOOLEAN]
    PROVE  f \in Seq(BOOLEAN) /\ Len(f) = n
<1>1. f \in Seq(BOOLEAN)
  BY SeqDef
<1> QED BY <1>1, LenProperties

\* Padding and decoding keep the marks, whatever the length.
LEMMA EncodeKeeps ==
    ASSUME NEW bits \in Seq(BOOLEAN)
    PROVE  /\ Encode(bits) \in Seq(BOOLEAN) /\ Len(Encode(bits)) >= Len(bits)
           /\ Marked(Encode(bits)) = Marked(bits)
<1> DEFINE w == WholeBytes(Len(bits))
<1>0. Len(bits) \in Nat /\ ByteBits \in Nat \ {0}
  BY LenProperties, ResumeAssumption
<1>1. Count(Len(bits), ByteBits) \in Nat /\ Len(bits) <= Count(Len(bits), ByteBits) * ByteBits
  BY <1>0, CountBounds
<1>2. w = ByteBits * Count(Len(bits), ByteBits)
  BY DEF WholeBytes, Count
<1>3. w \in Nat /\ Len(bits) <= w
  <2>1. \A q \in Nat : ByteBits * q \in Nat /\ ByteBits * q = q * ByteBits
    BY <1>0, SMT
  <2> QED BY <1>1, <1>2, <2>1
<1>4. Encode(bits) = [j \in 1 .. w |-> j <= Len(bits) /\ bits[j]]
  BY DEF Encode
<1> HIDE DEF w
<1>5. Encode(bits) \in [1 .. w -> BOOLEAN]
  BY <1>4, Zenon
<1>6. Encode(bits) \in Seq(BOOLEAN) /\ Len(Encode(bits)) = w
  BY <1>3, <1>5, BitSequence
<1>7. \A j \in 1 .. w : Encode(bits)[j] <=> j <= Len(bits) /\ bits[j]
  BY <1>4, Zenon
<1> QED BY <1>0, <1>3, <1>6, <1>7 DEF Marked

\* DecodeBitmap pads with zeroes: no mark is added or lost.
LEMMA DecodeKeeps ==
    ASSUME NEW code \in Seq(BOOLEAN), NEW least \in Nat
    PROVE  /\ Decode(code, least) \in Seq(BOOLEAN)
           /\ Len(Decode(code, least)) >= least
           /\ Marked(Decode(code, least)) = Marked(code)
<1> DEFINE n == IF Len(code) < least THEN least ELSE Len(code)
<1>1. n \in Nat /\ n >= least /\ Len(code) <= n /\ Len(code) \in Nat
  BY LenProperties
<1>2. Decode(code, least) = [j \in 1 .. n |-> j <= Len(code) /\ code[j]]
  BY DEF Decode
<1> HIDE DEF n
<1>3. Decode(code, least) \in [1 .. n -> BOOLEAN]
  BY <1>2, Zenon
<1>4. Decode(code, least) \in Seq(BOOLEAN) /\ Len(Decode(code, least)) = n
  BY <1>1, <1>3, BitSequence
<1>5. \A j \in 1 .. n : Decode(code, least)[j] <=> j <= Len(code) /\ code[j]
  BY <1>2, Zenon
<1> QED BY <1>1, <1>4, <1>5 DEF Marked

\* Setting a bit marks that chunk and no other.
LEMMA SetKeeps ==
    ASSUME NEW bits \in Seq(BOOLEAN), NEW i \in 0 .. Len(bits) - 1
    PROVE  /\ [bits EXCEPT ![i + 1] = TRUE] \in Seq(BOOLEAN)
           /\ Len([bits EXCEPT ![i + 1] = TRUE]) = Len(bits)
           /\ Marked([bits EXCEPT ![i + 1] = TRUE]) = Marked(bits) \cup {i}
BY DEF Marked

\* The bitmap made of a set of chunks marks these.
LEMMA BitsMark ==
    ASSUME NEW set, NEW n \in Nat
    PROVE  /\ Bits(set, n) \in Seq(BOOLEAN) /\ Len(Bits(set, n)) = n
           /\ Marked(Bits(set, n)) = set \cap 0 .. n - 1
<1>1. Bits(set, n) = [j \in 1 .. n |-> j - 1 \in set]
  BY DEF Bits
<1>2. Bits(set, n) \in [1 .. n -> BOOLEAN]
  BY <1>1, SMT
<1>3. \A j \in 1 .. n : Bits(set, n)[j] <=> j - 1 \in set
  BY <1>1, Zenon
<1>4. Bits(set, n) \in Seq(BOOLEAN) /\ Len(Bits(set, n)) = n
  BY <1>2, BitSequence
<1> QED BY <1>3, <1>4 DEF Marked

\* A sidecar, and during a download the one that matches it.
SidecarOK ==
    /\ sidecar \in [length : 0 .. MaxSize, split : Nat \ {0}, bitmap : Seq(BOOLEAN)]
    /\ Marked(sidecar.bitmap) \subseteq ChunksOf(sidecar.length, sidecar.split)
    /\ phase = "download" =>
        /\ sidecar.length = size /\ sidecar.split = split
        /\ Marked(sidecar.bitmap) = finished

\* Without a sidecar nothing is marked.
LEMMA SidecarInit == ResumeInit => SidecarOK
<1>1. Len(<<>>) = 0 /\ <<>> \in Seq(BOOLEAN)
  OBVIOUS
<1>2. Marked(<<>>) = {}
  BY <1>1 DEF Marked
<1> QED BY <1>1, <1>2, ResumeAssumption DEF ResumeInit, SidecarOK, NoSidecar

\* Nor in the record that stands for no sidecar.
LEMMA NoSidecarOK ==
    /\ NoSidecar \in [length : 0 .. MaxSize, split : Nat \ {0}, bitmap : Seq(BOOLEAN)]
    /\ Marked(NoSidecar.bitmap) = {}
<1>1. Len(<<>>) = 0 /\ <<>> \in Seq(BOOLEAN)
  OBVIOUS
<1> QED BY <1>1, ResumeAssumption DEF NoSidecar, Marked

\* What a reader of the sidecar finds in it.
LEMMA RecordedIsMarked == SidecarOK => Recorded = Marked(sidecar.bitmap)
<1> SUFFICES ASSUME SidecarOK PROVE Recorded = Marked(sidecar.bitmap)
  OBVIOUS
<1>0. sidecar.length \in Nat /\ sidecar.split \in Nat \ {0}
  BY ResumeAssumption DEF SidecarOK
<1>1. Count(sidecar.length, sidecar.split) \in Nat
  BY <1>0, CountBounds
<1> QED BY <1>1, DecodeKeeps DEF SidecarOK, Recorded

\* Begin writes what it takes as completed, Write adds one chunk.
LEMMA BeginWrites ==
    ASSUME PlanInputs, SidecarOK, Begin, phase' = "download"
    PROVE  /\ SidecarOK' /\ finished' = Completed \cap ChunksOf(size, split)
           /\ split \in Nat \ {0}
<1>1. size \in Nat /\ size <= MaxSize /\ split \in Nat \ {0}
  BY ResumeAssumption DEF PlanInputs, Begin, PlanPanics
<1>2. Count(size, split) \in Nat
  BY <1>1, CountBounds
<1> DEFINE b == Bits(Completed, Count(size, split))
<1>3. b \in Seq(BOOLEAN) /\ Marked(b) = Completed \cap ChunksOf(size, split)
  BY <1>2, BitsMark DEF ChunksOf
<1>4. Encode(b) \in Seq(BOOLEAN) /\ Marked(Encode(b)) = Completed \cap ChunksOf(size, split)
  BY <1>3, EncodeKeeps
<1>5. /\ sidecar' = [length |-> size, split |-> split, bitmap |-> Encode(b)]
      /\ finished' = Completed \cap ChunksOf(size, split)
      /\ UNCHANGED <<size, split>>
  BY <1>1 DEF Begin, PlanPanics
<1> HIDE DEF b
<1> QED BY <1>1, <1>4, <1>5, ResumeAssumption DEF SidecarOK

\* WriteChunk adds its chunk to the marks, through the encoding.
LEMMA WriteAdds ==
    ASSUME PlanInputs, SidecarOK, NEW i \in Offsets, Write(i)
    PROVE  SidecarOK'
<1>1. /\ sidecar.length = size /\ sidecar.split = split /\ split \in Nat \ {0} /\ size \in Nat
      /\ sidecar.bitmap \in Seq(BOOLEAN) /\ Marked(sidecar.bitmap) = finished
  BY ResumeAssumption DEF SidecarOK, PlanInputs, Write
<1>2. Count(size, split) \in Nat
  BY <1>1, CountBounds
<1> DEFINE d == Decode(sidecar.bitmap, Count(size, split))
           e == [d EXCEPT ![i + 1] = TRUE]
<1>3. d \in Seq(BOOLEAN) /\ Len(d) >= Count(size, split) /\ Marked(d) = finished
  BY <1>1, <1>2, DecodeKeeps
<1>4. i \in ChunksOf(size, split)
  BY DEF Write
<1> HIDE DEF d
<1>5. i \in 0 .. Len(d) - 1
  BY <1>2, <1>3, <1>4, LenProperties DEF ChunksOf
<1>6. e \in Seq(BOOLEAN) /\ Marked(e) = finished \cup {i}
  BY <1>3, <1>5, SetKeeps
<1>7. Encode(e) \in Seq(BOOLEAN) /\ Marked(Encode(e)) = finished \cup {i}
  BY <1>6, EncodeKeeps
<1>8. /\ sidecar' = [sidecar EXCEPT !.bitmap = Encode(e)]
      /\ finished' = finished \cup {i} /\ UNCHANGED <<size, split, phase>>
  BY DEF Write, d
<1> HIDE DEF e
<1>9. /\ sidecar' \in [length : 0 .. MaxSize, split : Nat \ {0}, bitmap : Seq(BOOLEAN)]
      /\ sidecar'.length = sidecar.length /\ sidecar'.split = sidecar.split
      /\ sidecar'.bitmap = Encode(e)
  BY <1>7, <1>8 DEF SidecarOK
<1> QED BY <1>1, <1>4, <1>7, <1>8, <1>9 DEF SidecarOK

\* Every step leaves a sidecar that marks chunks of its own plan only.
LEMMA SidecarStep ==
    ASSUME PlanInputs, SidecarOK, [ResumeNext]_resumeVars
    PROVE  SidecarOK'
<1>1. CASE Begin
  <2>1. CASE phase' = "download"
    BY <1>1, <2>1, BeginWrites
  <2>2. CASE phase' # "download"
    <3>1. sidecar' = sidecar \/ sidecar' = NoSidecar
      BY <1>1, <2>2 DEF Begin
    <3> QED BY <2>2, <3>1, NoSidecarOK DEF SidecarOK
  <2> QED BY <2>1, <2>2
<1>2. ASSUME NEW i \in Offsets, Write(i) PROVE SidecarOK'
  BY <1>2, WriteAdds
<1>3. CASE Finish
  BY <1>3, NoSidecarOK DEF Finish, SidecarOK
<1>4. CASE Stop \/ Replace
  BY <1>4 DEF Stop, Replace, SidecarOK
<1>5. CASE UNCHANGED resumeVars
  BY <1>5 DEF resumeVars, SidecarOK
<1> QED BY <1>1, <1>2, <1>3, <1>4, <1>5 DEF ResumeNext, Rest

\* The sidecar on disk always marks chunks of the plan it was written for, and during a
\* download exactly the finished ones.
THEOREM SidecarIsWellFormed == ResumeSpec => [](PlanInputs /\ SidecarOK)
<1>1. ResumeInit => PlanInputs /\ SidecarOK
  BY SidecarInit DEF ResumeInit, PlanInputs
<1>2. PlanInputs /\ SidecarOK /\ [ResumeNext]_resumeVars => (PlanInputs /\ SidecarOK)'
  BY InputsStep, SidecarStep
<1> QED BY <1>1, <1>2, PTL DEF ResumeSpec

\* What a reader of the sidecar would take as completed is what is: for every number of
\* chunks, every size of a byte, and whatever the split sizes of the runs.
THEOREM BitmapStaysExact == ResumeSpec => []BitmapIsExact
<1>1. SidecarOK => BitmapIsExact
  BY RecordedIsMarked DEF SidecarOK, BitmapIsExact
<1> QED BY <1>1, SidecarIsWellFormed, PTL

-----------------------------------------------------------------------------
(* What is marked was written *)

OneSplit == ~SplitChanges

BytesWritten(i, n, s) == \A o \in BytesOf(i, n, s) : bytes[o] # 0

WrittenInv ==
    /\ version \in Nat \ {0} /\ bytes = [o \in Offsets |-> bytes[o]]
    /\ sidecar.length # 0 => sidecar.split = split
    /\ \A i \in Marked(sidecar.bitmap) : BytesWritten(i, sidecar.length, sidecar.split)
    /\ phase = "download" => split # 0
    /\ phase \in {"download", "done"} => \A i \in finished : BytesWritten(i, size, split)

\* A write touches bytes of the object, and takes none away.
LEMMA WriteKeeps ==
    ASSUME PlanInputs, SidecarOK, WrittenInv, NEW i \in Offsets, Write(i)
    PROVE  /\ \A o : bytes[o] # 0 /\ o \in Offsets => bytes'[o] # 0
           /\ \A o \in BytesOf(i, size, split) : bytes'[o] # 0
           /\ \A j \in ChunksOf(size, split) : BytesOf(j, size, split) \subseteq Offsets
<1>1. /\ size \in Nat /\ size <= MaxSize /\ split \in Nat \ {0}
      /\ i \in ChunksOf(size, split) /\ MaxSize \in Nat
  BY ResumeAssumption DEF PlanInputs, WrittenInv, Write
<1>2. \A j \in ChunksOf(size, split) : BytesOf(j, size, split) \subseteq 0 .. size - 1
  BY <1>1, PlanIsATiling DEF Tiles
<1>3. \A j \in ChunksOf(size, split) : BytesOf(j, size, split) \subseteq Offsets
  BY <1>1, <1>2 DEF Offsets
<1>4. bytes' = [o \in Offsets |-> IF o \in BytesOf(i, size, split) THEN version ELSE bytes[o]]
  BY DEF Write
<1> QED BY <1>1, <1>3, <1>4 DEF WrittenInv

\* With one split size no step marks what is not written.
LEMMA WrittenStep ==
    ASSUME OneSplit, PlanInputs, SidecarOK, WrittenInv, [ResumeNext]_resumeVars
    PROVE  WrittenInv'
<1>1. CASE Begin
  <2>1. UNCHANGED <<size, version, split, bytes>> /\ phase = "idle"
    BY <1>1 DEF Begin
  <2>2. Completed \subseteq Marked(sidecar.bitmap)
        /\ (Completed # {} => sidecar.length = size)
    BY RecordedIsMarked DEF Completed
  <2>3. \A i \in Completed : BytesWritten(i, size, split)
    BY <2>2, ResumeAssumption DEF WrittenInv, PlanInputs
  <2>4. phase' # "panic" => \A i \in finished' : BytesWritten(i, size, split)
    BY <1>1, <2>3 DEF Begin
  <2>5. CASE phase' = "download"
    <3>1. SidecarOK' /\ Marked(sidecar.bitmap)' = finished' /\ sidecar'.length = size
          /\ sidecar'.split = split /\ split # 0
      BY <1>1, <2>1, <2>5, BeginWrites DEF SidecarOK
    <3> QED BY <2>1, <2>4, <2>5, <3>1 DEF WrittenInv, BytesWritten
  <2>6. CASE phase' # "download"
    <3>1. sidecar' = sidecar \/ sidecar' = NoSidecar
      BY <1>1, <2>6 DEF Begin
    <3>2. NoSidecar.length = 0 /\ Marked(NoSidecar.bitmap) = {}
      BY NoSidecarOK DEF NoSidecar
    <3>3. phase' = "done" => \A i \in finished' : BytesWritten(i, size, split)'
      BY <2>1, <2>4 DEF BytesWritten
    <3> QED BY <2>1, <2>6, <3>1, <3>2, <3>3 DEF WrittenInv, BytesWritten
  <2> QED BY <2>5, <2>6
<1>2. ASSUME NEW i \in Offsets, Write(i) PROVE WrittenInv'
  <2>1. /\ UNCHANGED <<size, version, split, phase>> /\ phase = "download"
        /\ finished' = finished \cup {i} /\ i \in ChunksOf(size, split)
        /\ bytes' = [o \in Offsets |-> IF o \in BytesOf(i, size, split) THEN version
                                       ELSE bytes[o]]
    BY <1>2 DEF Write
  <2>2. SidecarOK' /\ finished \subseteq ChunksOf(size, split)
    BY <1>2, <2>1, WriteAdds DEF SidecarOK
  <2>3. sidecar'.length = size /\ sidecar'.split = split /\ Marked(sidecar.bitmap)' = finished'
    BY <2>1, <2>2 DEF SidecarOK
  <2>4. \A j \in finished' : BytesWritten(j, size, split)'
    BY <1>2, <2>1, <2>2, WriteKeeps DEF WrittenInv, BytesWritten
  <2>5. bytes' = [o \in Offsets |-> bytes'[o]]
    BY <2>1
  <2> QED BY <2>1, <2>3, <2>4, <2>5 DEF WrittenInv, BytesWritten
<1>3. CASE Finish
  <2>1. NoSidecar.length = 0 /\ Marked(NoSidecar.bitmap) = {}
    BY NoSidecarOK DEF NoSidecar
  <2> QED BY <1>3, <2>1 DEF Finish, WrittenInv, BytesWritten
<1>4. CASE Stop
  BY <1>4 DEF Stop, WrittenInv, BytesWritten, OneSplit
<1>5. CASE Replace
  BY <1>5, ResumeAssumption DEF Replace, WrittenInv, BytesWritten
<1>6. CASE UNCHANGED resumeVars
  BY <1>6 DEF resumeVars, WrittenInv, BytesWritten
<1> QED BY <1>1, <1>2, <1>3, <1>4, <1>5, <1>6 DEF ResumeNext, Rest

\* With one split size, every byte of a chunk that a run takes as completed was written,
\* by this run or an earlier one.
THEOREM WhatIsFinishedIsWritten ==
    ASSUME OneSplit
    PROVE  ResumeSpec => []FinishedIsWritten
<1>1. ResumeInit => WrittenInv
  BY NoSidecarOK DEF ResumeInit, WrittenInv, NoSidecar
<1>2. PlanInputs /\ SidecarOK /\ WrittenInv /\ [ResumeNext]_resumeVars => WrittenInv'
  BY OneSplit, WrittenStep
<1>3. WrittenInv => FinishedIsWritten
  BY DEF WrittenInv, FinishedIsWritten, BytesWritten
<1> QED BY <1>1, <1>2, <1>3, SidecarIsWellFormed, PTL DEF ResumeSpec
=============================================================================
