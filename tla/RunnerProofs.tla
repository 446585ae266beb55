----------------------------- MODULE RunnerProofs -----------------------------
(***************************************************************************)
(* What the jobs of one command leave behind, for any number of URLs, any  *)
(* sizes, crashes and further runs: exit codes tell, concatenations are    *)
(* exact, a sidecar tells the truth and marks its file until it is whole.  *)
(*                                                                         *)
(* Concatenation and the worst exit code are folds, defined by recursion   *)
(* over data; the first part proves what they compute, by induction from   *)
(* the well-foundedness of the natural numbers.  Then come the typing, one *)
(* inductive invariant per subject, and the theorems.                      *)
(***************************************************************************)
EXTENDS Runner, Integers, FiniteSetTheorems, SequenceTheorems, WellFoundedInduction, TLAPS

-----------------------------------------------------------------------------
(* Induction and recursion *)

\* Every non-empty set of natural numbers has a least element.
LEMMA LeastElement ==
    ASSUME NEW T \in SUBSET Nat, T # {}
    PROVE  \E n \in T : \A m \in T : n <= m
<1>1. PICK n \in T : \A m \in T : ~(<<m, n>> \in OpToRel(<, Nat))
  BY NatLessThanWellFounded, WFMin
<1>2. \A m \in T : ~(m < n)
  BY <1>1 DEF OpToRel
<1> QED BY <1>2

\* Induction: a set with 0 and with every successor of a member holds every number.
LEMMA SetInduction ==
    ASSUME NEW P, 0 \in P, \A n \in Nat : n \in P => n + 1 \in P
    PROVE  Nat \subseteq P
<1> SUFFICES ASSUME Nat \ P # {} PROVE FALSE
  OBVIOUS
<1>1. PICK n \in Nat \ P : \A m \in Nat \ P : n <= m
  BY LeastElement
<1>2. n # 0 /\ n - 1 \in Nat /\ n - 1 \in P
  BY <1>1
<1>3. (n - 1) + 1 = n
  BY <1>1
<1> QED BY <1>1, <1>2, <1>3

\* h[0] .. h[n], each made from the one before by turn.
Chain(h, V, origin, turn, n) ==
    /\ h \in [0 .. n -> V]
    /\ h[0] = origin
    /\ \A i \in 1 .. n : h[i] = turn[<<i, h[i - 1]>>]

\* Such a chain exists, of any length.
LEMMA ChainExists ==
    ASSUME NEW V, NEW origin \in V, NEW N \in Nat, NEW turn \in [(1 .. N) \X V -> V]
    PROVE  \E h : Chain(h, V, origin, turn, N)
<1> DEFINE P == {n \in Nat : n <= N => \E h : Chain(h, V, origin, turn, n)}
<1>1. 0 \in P
  <2>1. Chain([i \in 0 .. 0 |-> origin], V, origin, turn, 0)
    BY DEF Chain
  <2> QED BY <2>1
<1>2. ASSUME NEW n \in Nat, n \in P PROVE n + 1 \in P
  <2> SUFFICES ASSUME n + 1 <= N PROVE \E h : Chain(h, V, origin, turn, n + 1)
    OBVIOUS
  <2>1. PICK h : Chain(h, V, origin, turn, n)
    BY <1>2
  <2> DEFINE k == [i \in 0 .. n + 1 |-> IF i <= n THEN h[i] ELSE turn[<<n + 1, h[n]>>]]
  <2>2. <<n + 1, h[n]>> \in (1 .. N) \X V
    BY <2>1 DEF Chain
  <2>3. k[n + 1] = turn[<<n + 1, h[n]>>] /\ \A i \in 0 .. n : k[i] = h[i]
    OBVIOUS
  <2>4. k \in [0 .. n + 1 -> V] /\ k[0] = origin
    BY <2>1, <2>2 DEF Chain
  <2> HIDE DEF k
  <2>5. \A i \in 1 .. n + 1 : k[i] = turn[<<i, k[i - 1]>>]
    <3> SUFFICES ASSUME NEW i \in 1 .. n + 1 PROVE k[i] = turn[<<i, k[i - 1]>>]
      OBVIOUS
    <3>1. k[i - 1] = h[i - 1]
      BY <2>3
    <3>2. CASE i <= n
      BY <2>1, <2>3, <3>1, <3>2 DEF Chain
    <3>3. CASE i = n + 1
      <4>1. i - 1 = n
        BY <3>3
      <4> QED BY <2>3, <3>3, <4>1
    <3>4. i <= n \/ i = n + 1
      OBVIOUS
    <3> QED BY <3>2, <3>3, <3>4
  <2>6. Chain(k, V, origin, turn, n + 1)
    BY <2>4, <2>5 DEF Chain
  <2> QED BY <2>6
<1> HIDE DEF P
<1>3. Nat \subseteq P
  BY <1>1, <1>2, SetInduction
<1> QED BY <1>3 DEF P

\* FlattenSeq is the last of the partial concatenations.
LEMMA Flattened ==
    ASSUME NEW T, NEW s \in Seq(Seq(T)), NEW h \in [0 .. Len(s) -> Seq(T)], h[0] = <<>>,
           \A i \in 1 .. Len(s) : h[i] = h[i - 1] \o s[i], Len(s) > 0
    PROVE  FlattenSeq(s) = h[Len(s)]
<1> DEFINE Rec(f) == f = [i \in 1 .. Len(s) |-> IF i = 1 THEN s[i] ELSE f[i - 1] \o s[i]]
<1>1. FlattenSeq(s) = (CHOOSE f : Rec(f))[Len(s)]
  BY DEF FlattenSeq
<1>2. Len(s) \in Nat /\ 1 \in 1 .. Len(s) /\ 1 - 1 = 0
  OBVIOUS
<1>3. h[1] = s[1]
  <2>1. h[1] = h[0] \o s[1]
    BY <1>2
  <2>2. s[1] \in Seq(T)
    BY <1>2
  <2> QED BY <2>1, <2>2
<1>4. \A i \in 1 .. Len(s) : h[i] = IF i = 1 THEN s[i] ELSE h[i - 1] \o s[i]
  BY <1>3
<1>5. Rec([i \in 1 .. Len(s) |-> h[i]])
  <2> SUFFICES ASSUME NEW i \in 1 .. Len(s), i # 1 PROVE i - 1 \in 1 .. Len(s)
    BY <1>4
  <2> QED BY <1>2
<1> DEFINE f == CHOOSE f : Rec(f)
<1>6. Rec(f)
  BY <1>5, Zenon
<1> HIDE DEF f
<1>7. f[1] = s[1] /\ \A i \in 1 .. Len(s) : i # 1 => f[i] = f[i - 1] \o s[i]
  BY <1>2, <1>6
<1> DEFINE P == {n \in Nat : n + 1 <= Len(s) => f[n + 1] = h[n + 1]}
<1>8. 0 \in P
  BY <1>3, <1>7
<1>9. ASSUME NEW n \in Nat, n \in P PROVE n + 1 \in P
  <2> SUFFICES ASSUME (n + 1) + 1 <= Len(s) PROVE f[(n + 1) + 1] = h[(n + 1) + 1]
    OBVIOUS
  <2>1. /\ (n + 1) + 1 \in 1 .. Len(s) /\ (n + 1) + 1 # 1 /\ ((n + 1) + 1) - 1 = n + 1
        /\ n + 1 <= Len(s)
    BY <1>2
  <2>2. f[n + 1] = h[n + 1]
    BY <1>9, <2>1
  <2>3. f[(n + 1) + 1] = f[((n + 1) + 1) - 1] \o s[(n + 1) + 1]
    BY <1>7, <2>1
  <2>4. h[(n + 1) + 1] = h[((n + 1) + 1) - 1] \o s[(n + 1) + 1]
    BY <2>1
  <2> QED BY <2>1, <2>2, <2>3, <2>4
<1> HIDE DEF P
<1>10. Nat \subseteq P
  BY <1>8, <1>9, SetInduction
<1>11. Len(s) - 1 \in P /\ (Len(s) - 1) + 1 = Len(s)
  BY <1>2, <1>10
<1>12. f[Len(s)] = h[Len(s)]
  BY <1>2, <1>11 DEF P
<1> QED BY <1>1, <1>12 DEF f

\* Induction over the subsets of a finite set, one element taken away.
LEMMA FiniteInduction ==
    ASSUME NEW S, IsFiniteSet(S), NEW P, {} \in P,
           \A s \in SUBSET S : s # {} => \E x \in s : s \ {x} \in P => s \in P
    PROVE  SUBSET S \subseteq P
<1> DEFINE Sizes == {n \in Nat : \A s \in SUBSET S : Cardinality(s) = n => s \in P}
<1>1. \A s \in SUBSET S : IsFiniteSet(s) /\ Cardinality(s) \in Nat
  BY FS_Subset, FS_CardinalityType
<1>2. \A s \in SUBSET S : Cardinality(s) = 0 <=> s = {}
  BY <1>1, FS_EmptySet
<1>3. \A s \in SUBSET S : \A x \in s : Cardinality(s \ {x}) = Cardinality(s) - 1
  BY <1>1, FS_RemoveElement
<1>4. 0 \in Sizes
  BY <1>2
<1>5. ASSUME NEW n \in Nat, n \in Sizes PROVE n + 1 \in Sizes
  <2> SUFFICES ASSUME NEW s \in SUBSET S, Cardinality(s) = n + 1 PROVE s \in P
    OBVIOUS
  <2>1. s # {}
    BY <1>2
  <2>2. PICK x \in s : s \ {x} \in P => s \in P
    BY <2>1
  <2>3. Cardinality(s \ {x}) = n
    BY <1>3
  <2> QED BY <1>5, <2>2, <2>3
<1> HIDE DEF Sizes
<1>6. Nat \subseteq Sizes
  BY <1>4, <1>5, SetInduction
<1> QED BY <1>1, <1>6 DEF Sizes

\* g folds every set of D: turn joins an element picked from a set with the fold of the rest.
Folds(g, D, origin, turn, pick) ==
    \A s \in D : g[s] = IF s = {} THEN origin ELSE turn[<<pick[s], g[s \ {pick[s]}]>>]

\* Such a fold exists.
LEMMA FoldExists ==
    ASSUME NEW S, IsFiniteSet(S), NEW V, NEW origin \in V, NEW turn \in [S \X V -> V],
           NEW pick, \A s \in SUBSET S : s # {} => pick[s] \in s
    PROVE  \E g \in [SUBSET S -> V] : Folds(g, SUBSET S, origin, turn, pick)
<1> DEFINE Small(n) == {s \in SUBSET S : Cardinality(s) <= n}
           P == {n \in Nat : \E g \in [Small(n) -> V] : Folds(g, Small(n), origin, turn, pick)}
<1>1. \A s \in SUBSET S : IsFiniteSet(s) /\ Cardinality(s) \in Nat
  BY FS_Subset, FS_CardinalityType
<1>2. \A s \in SUBSET S : Cardinality(s) = 0 <=> s = {}
  BY <1>1, FS_EmptySet
<1>3. \A s \in SUBSET S : \A x \in s : Cardinality(s \ {x}) = Cardinality(s) - 1
  BY <1>1, FS_RemoveElement
<1>4. 0 \in P
  <2>1. Small(0) = {{}}
    BY <1>1, <1>2
  <2> DEFINE g == [s \in {{}} |-> origin]
  <2>2. g \in [{{}} -> V] /\ Folds(g, {{}}, origin, turn, pick)
    BY DEF Folds
  <2> HIDE DEF g, Small
  <2>3. g \in [Small(0) -> V] /\ Folds(g, Small(0), origin, turn, pick)
    BY <2>1, <2>2, Zenon
  <2>4. 0 \in Nat
    OBVIOUS
  <2> QED BY <2>3, <2>4, Zenon
<1>5. ASSUME NEW n \in Nat, n \in P PROVE n + 1 \in P
  <2>1. PICK g \in [Small(n) -> V] : Folds(g, Small(n), origin, turn, pick)
    BY <1>5
  <2> DEFINE Value(s) == IF s = {} THEN origin ELSE turn[<<pick[s], g[s \ {pick[s]}]>>]
             h == [s \in Small(n + 1) |-> Value(s)]
  <2>2. ASSUME NEW s \in Small(n + 1), s # {} PROVE s \ {pick[s]} \in Small(n)
    BY <1>1, <1>3, <2>2
  <2>3. \A s \in Small(n + 1) : Value(s) \in V
    BY <2>2
  <2>4. h \in [Small(n + 1) -> V]
    BY <2>3
  <2>5. \A s \in Small(n) : s \in Small(n + 1)
    BY <1>1
  <2>6. \A s \in Small(n) : Value(s) = g[s]
    BY <2>1 DEF Folds
  <2>7. \A s \in Small(n) : h[s] = g[s]
    BY <2>5, <2>6
  <2>8. \A s \in Small(n + 1) : h[s] = Value(s)
    OBVIOUS
  <2> HIDE DEF h
  <2>9. \A s \in Small(n + 1) : h[s] = IF s = {} THEN origin ELSE turn[<<pick[s], h[s \ {pick[s]}]>>]
    BY <2>2, <2>7, <2>8
  <2>10. Folds(h, Small(n + 1), origin, turn, pick)
    BY <2>9 DEF Folds
  <2> HIDE DEF Small
  <2> QED BY <2>4, <2>10
<1> HIDE DEF P
<1>6. Nat \subseteq P
  BY <1>4, <1>5, SetInduction
<1>7. Cardinality(S) \in P
  BY <1>1, <1>6
<1>8. Small(Cardinality(S)) = SUBSET S
  BY FS_Subset, <1>1
<1> HIDE DEF Small
<1>9. \E g \in [Small(Cardinality(S)) -> V] : Folds(g, Small(Cardinality(S)), origin, turn, pick)
  BY <1>7 DEF P
<1> QED BY <1>8, <1>9

-----------------------------------------------------------------------------
(* The folds of Runner *)

\* Worst is the greatest of the codes, or 0 where there are none.
LEMMA WorstIsGreatest ==
    ASSUME NEW seq \in Seq(Nat)
    PROVE  /\ Worst(seq) \in Nat
           /\ \A i \in 1 .. Len(seq) : seq[i] <= Worst(seq)
           /\ Worst(seq) # 0 => \E i \in 1 .. Len(seq) : seq[i] = Worst(seq)
<1> DEFINE S == DOMAIN seq
           pick == [s \in SUBSET S |-> CHOOSE x \in s : TRUE]
           turn == [p \in S \X Nat |-> IF seq[p[1]] > p[2] THEN seq[p[1]] ELSE p[2]]
           Turn(g, s) == IF s = {} THEN 0
                         ELSE LET x == CHOOSE y \in s : TRUE
                              IN  IF seq[x] > g[s \ {x}] THEN seq[x] ELSE g[s \ {x}]
           Rec(g) == g = [s \in SUBSET S |-> Turn(g, s)]
           f == CHOOSE g : Rec(g)
<1>1. S = 1 .. Len(seq) /\ IsFiniteSet(S) /\ seq \in [S -> Nat]
  <2>1. S = 1 .. Len(seq) /\ Len(seq) \in Nat /\ seq \in [1 .. Len(seq) -> Nat]
    OBVIOUS
  <2>2. IsFiniteSet(1 .. Len(seq))
    BY <2>1, FS_Interval
  <2> QED BY <2>1, <2>2
<1>2. Worst(seq) = f[S]
  BY DEF Worst, FoldSeq, FoldFunction, FoldFunctionOnSet, MapThenFoldSet
<1>3. \E g : Rec(g)
  <2>1. turn \in [S \X Nat -> Nat]
    BY <1>1
  <2>2. \A s \in SUBSET S : s # {} => pick[s] \in s
    OBVIOUS
  <2>3. PICK g \in [SUBSET S -> Nat] : Folds(g, SUBSET S, 0, turn, pick)
    BY <1>1, <2>1, <2>2, FoldExists
  <2>4. \A s \in SUBSET S : g[s] = Turn(g, s)
    <3> SUFFICES ASSUME NEW s \in SUBSET S, s # {} PROVE g[s] = Turn(g, s)
      BY <2>3 DEF Folds
    <3>1. pick[s] \in S /\ g[s \ {pick[s]}] \in Nat
      BY <2>2
    <3>2. g[s] = turn[<<pick[s], g[s \ {pick[s]}]>>]
      BY <2>3 DEF Folds
    <3> QED BY <3>1, <3>2
  <2> HIDE DEF Turn
  <2>5. g = [s \in SUBSET S |-> Turn(g, s)]
    BY <2>3, <2>4, Zenon
  <2> QED BY <2>5, Zenon
<1>4. \A s \in SUBSET S : f[s] = Turn(f, s)
  BY <1>3
<1> HIDE DEF f
<1> DEFINE P == {s \in SUBSET S : /\ f[s] \in Nat
                                  /\ \A i \in s : seq[i] <= f[s]
                                  /\ f[s] # 0 => \E i \in s : seq[i] = f[s]}
<1>5. {} \in P
  BY <1>4
<1>6. \A s \in SUBSET S : s # {} => \E x \in s : s \ {x} \in P => s \in P
  <2> SUFFICES ASSUME NEW s \in SUBSET S, s # {} PROVE \E x \in s : s \ {x} \in P => s \in P
    OBVIOUS
  <2> DEFINE x == CHOOSE y \in s : TRUE
  <2>1. x \in s /\ f[s] = IF seq[x] > f[s \ {x}] THEN seq[x] ELSE f[s \ {x}]
    BY <1>4
  <2> HIDE DEF x
  <2>2. seq[x] \in Nat
    BY <1>1, <2>1
  <2>3. ASSUME s \ {x} \in P PROVE s \in P
    <3> DEFINE r == s \ {x}
    <3>1. /\ f[r] \in Nat /\ \A i \in r : seq[i] <= f[r]
          /\ f[r] # 0 => \E i \in r : seq[i] = f[r]
      BY <2>3
    <3>2. f[s] = IF seq[x] > f[r] THEN seq[x] ELSE f[r]
      BY <2>1
    <3>3. \A i \in s : i = x \/ i \in r
      OBVIOUS
    <3> HIDE DEF r
    <3>4. \A i \in s : seq[i] <= f[s]
      <4> SUFFICES ASSUME NEW i \in s PROVE seq[i] <= f[s]
        OBVIOUS
      <4>1. seq[i] \in Nat
        BY <1>1
      <4>2. CASE i = x
        BY <2>2, <3>1, <3>2, <4>2
      <4>3. CASE i \in r
        <5>1. seq[i] <= f[r]
          BY <3>1, <4>3, Zenon
        <5> QED BY <2>2, <3>1, <3>2, <4>1, <5>1
      <4> QED BY <3>3, <4>2, <4>3
    <3>5. f[s] # 0 => \E i \in s : seq[i] = f[s]
      BY <2>1, <3>1, <3>2 DEF r
    <3> QED BY <2>2, <3>1, <3>2, <3>4, <3>5
  <2> QED BY <2>1, <2>3
<1> HIDE DEF P
<1>7. S \in P
  <2> HIDE DEF S
  <2>1. IsFiniteSet(S)
    BY <1>1
  <2>2. SUBSET S \subseteq P
    BY <1>5, <1>6, <2>1, FiniteInduction, Zenon
  <2> QED BY <2>2
<1> QED BY <1>1, <1>2, <1>7 DEF P

\* The objects of a number of URLs.
LEMMA ObjectsAreTyped ==
    \A n \in Nat : Objects(n) \subseteq [1 .. n -> [kind : Servers, size : 1 .. MaxSize]]
BY DEF Objects

\* What typing says of them.
LEMMA RemoteIsTyped ==
    ASSUME RunnerTypeOK
    PROVE  /\ NumUrls \in Nat \ {0}
           /\ \A u \in Urls :
                /\ remote[u].size \in Nat \ {0} /\ remote[u].size <= MaxSize
                /\ remote[u].kind \in ServerKinds
                /\ Object(u) \in Seq(Unit) /\ Len(Object(u)) = remote[u].size
                /\ \A i \in UnitsOf(u) : Object(u)[i + 1] = <<u, i>>
<1>1. NumUrls \in Nat \ {0} /\ MaxSize \in Nat /\ Servers \subseteq ServerKinds
  BY RunnerAssumption DEF RunnerTypeOK
<1>2. remote \in [Urls -> [kind : Servers, size : 1 .. MaxSize]]
  BY <1>1, ObjectsAreTyped DEF RunnerTypeOK, Urls
<1> SUFFICES ASSUME NEW u \in Urls
             PROVE  /\ remote[u].size \in Nat \ {0} /\ remote[u].size <= MaxSize
                    /\ remote[u].kind \in ServerKinds
                    /\ Object(u) \in Seq(Unit) /\ Len(Object(u)) = remote[u].size
                    /\ \A i \in UnitsOf(u) : Object(u)[i + 1] = <<u, i>>
  BY <1>1
<1>3. /\ remote[u].size \in Nat \ {0} /\ remote[u].size <= MaxSize
      /\ remote[u].kind \in ServerKinds
  BY <1>1, <1>2
<1>4. \A i \in 1 .. remote[u].size : <<u, i - 1>> \in Unit
  BY <1>1, <1>3 DEF Unit
<1>5. Object(u) \in [1 .. remote[u].size -> Unit]
  BY <1>4 DEF Object
<1>6. Object(u) \in Seq(Unit) /\ Len(Object(u)) = remote[u].size
  BY <1>3, <1>5
<1>7. \A i \in UnitsOf(u) : Object(u)[i + 1] = <<u, i>>
  BY <1>3 DEF Object, UnitsOf
<1> QED BY <1>3, <1>6, <1>7

\* Before[n] is the concatenation of the first n objects.
IsBefore(h) ==
    /\ h \in [0 .. NumUrls -> Seq(Unit)]
    /\ h[0] = <<>>
    /\ \A u \in Urls : h[u] = h[u - 1] \o Object(u)
Before == CHOOSE h : IsBefore(h)

\* AllObjects is a fold over the URLs; Before follows it object by object.
LEMMA BeforeIsConcatenation ==
    ASSUME RunnerTypeOK
    PROVE  IsBefore(Before) /\ AllObjects = Before[NumUrls]
<1> DEFINE turn == [p \in (1 .. NumUrls) \X Seq(Unit) |-> p[2] \o Object(p[1])]
<1>1. NumUrls \in Nat \ {0} /\ \A u \in Urls : Object(u) \in Seq(Unit)
  BY RemoteIsTyped
<1>2. turn \in [(1 .. NumUrls) \X Seq(Unit) -> Seq(Unit)]
  <2> SUFFICES ASSUME NEW p \in (1 .. NumUrls) \X Seq(Unit)
               PROVE  p[2] \o Object(p[1]) \in Seq(Unit)
    OBVIOUS
  <2>1. p[2] \in Seq(Unit) /\ Object(p[1]) \in Seq(Unit)
    BY <1>1 DEF Urls
  <2> QED BY <2>1, ConcatProperties
<1>3. PICK h : Chain(h, Seq(Unit), <<>>, turn, NumUrls)
  <2>1. <<>> \in Seq(Unit)
    OBVIOUS
  <2> HIDE DEF turn
  <2> QED BY <1>1, <1>2, <2>1, ChainExists, Zenon
<1>4. IsBefore(h)
  <2>1. h \in [0 .. NumUrls -> Seq(Unit)] /\ h[0] = <<>>
    BY <1>3 DEF Chain
  <2>2. ASSUME NEW u \in Urls PROVE h[u] = h[u - 1] \o Object(u)
    <3>1. u \in 1 .. NumUrls /\ u - 1 \in 0 .. NumUrls /\ h[u - 1] \in Seq(Unit)
      BY <1>1, <2>1 DEF Urls
    <3>2. h[u] = turn[<<u, h[u - 1]>>]
      BY <1>3, <3>1 DEF Chain
    <3> QED BY <3>1, <3>2
  <2> QED BY <2>1, <2>2 DEF IsBefore
<1>5. IsBefore(Before)
  BY <1>4 DEF Before
<1>6. AllObjects = Before[NumUrls]
  <2> DEFINE s == [u \in Urls |-> Object(u)]
  <2>1. s \in Seq(Seq(Unit)) /\ Len(s) = NumUrls
    BY <1>1 DEF Urls
  <2>2. \A i \in 1 .. Len(s) : Before[i] = Before[i - 1] \o s[i]
    BY <1>5, <2>1 DEF IsBefore, Urls
  <2> HIDE DEF s
  <2>3. Before \in [0 .. Len(s) -> Seq(Unit)] /\ Before[0] = <<>> /\ Len(s) > 0
    BY <1>1, <1>5, <2>1 DEF IsBefore
  <2>4. FlattenSeq(s) = Before[Len(s)]
    BY <2>1, <2>2, <2>3, Flattened, Zenon
  <2> QED BY <2>1, <2>4 DEF AllObjects, s
<1> QED BY <1>5, <1>6

\* whole is one sequence of units after another.
Joined(whole, first, second) ==
    /\ whole \in Seq(Unit) /\ Len(whole) = Len(first) + Len(second)
    /\ \A k \in 1 .. Len(first) + Len(second) :
         whole[k] = IF k <= Len(first) THEN first[k] ELSE second[k - Len(first)]

\* A unit that moves from the front of what is left to the end of what is there.
LEMMA HeadMoves ==
    \A x, y \in Seq(Unit) : y # <<>> => Append(x, Head(y)) \o Tail(y) = x \o y
OBVIOUS

\* Concatenation of two and of three sequences of units.
LEMMA UnitsJoin == \A x, y \in Seq(Unit) : Joined(x \o y, x, y)
BY ConcatProperties DEF Joined

LEMMA UnitsAssociate == \A x, y, z \in Seq(Unit) : (x \o y) \o z = x \o (y \o z)
BY ConcatAssociative

\* Each of the concatenations begins the whole one.
LEMMA BeforeIsPrefix ==
    ASSUME RunnerTypeOK, NEW n \in 0 .. NumUrls
    PROVE  \E left \in Seq(Unit) : Before[n] \o left = AllObjects
<1> DEFINE Begins(k) == \E left \in Seq(Unit) : Before[k] \o left = Before[NumUrls]
           P == {d \in Nat : d <= NumUrls => Begins(NumUrls - d)}
<1>1. NumUrls \in Nat /\ IsBefore(Before) /\ \A u \in Urls : Object(u) \in Seq(Unit)
  BY RemoteIsTyped, BeforeIsConcatenation
<1>2. 0 \in P
  <2>1. Before[NumUrls] \o <<>> = Before[NumUrls]
    BY <1>1, ConcatEmptySeq DEF IsBefore
  <2>2. NumUrls - 0 = NumUrls /\ <<>> \in Seq(Unit)
    BY <1>1
  <2> QED BY <2>1, <2>2
<1>3. ASSUME NEW d \in Nat, d \in P PROVE d + 1 \in P
  <2> SUFFICES ASSUME d + 1 <= NumUrls PROVE Begins(NumUrls - (d + 1))
    OBVIOUS
  <2> DEFINE u == NumUrls - d
  <2>1. u \in Urls /\ u - 1 = NumUrls - (d + 1) /\ u - 1 \in 0 .. NumUrls /\ d <= NumUrls
    BY <1>1 DEF Urls
  <2>2. PICK left \in Seq(Unit) : Before[u] \o left = Before[NumUrls]
    BY <1>3, <2>1
  <2> HIDE DEF u
  <2>3. /\ Before[u - 1] \in Seq(Unit) /\ Object(u) \in Seq(Unit)
        /\ Before[u] = Before[u - 1] \o Object(u)
    BY <1>1, <2>1 DEF IsBefore
  <2>4. Object(u) \o left \in Seq(Unit)
    BY <2>3, ConcatProperties
  <2>5. Before[u - 1] \o (Object(u) \o left) = (Before[u - 1] \o Object(u)) \o left
    <3> DEFINE a == Before[u - 1]
               b == Object(u)
    <3>1. a \in Seq(Unit) /\ b \in Seq(Unit) /\ left \in Seq(Unit)
      BY <2>3
    <3> HIDE DEF a, b
    <3>2. (a \o b) \o left = a \o (b \o left)
      BY <3>1, UnitsAssociate, Zenon
    <3> QED BY <3>2 DEF a, b
  <2>6. Before[u - 1] \o (Object(u) \o left) = Before[NumUrls]
    BY <2>2, <2>3, <2>5
  <2> QED BY <2>1, <2>4, <2>6
<1> HIDE DEF P
<1>4. NumUrls - n \in P /\ NumUrls - n <= NumUrls /\ NumUrls - (NumUrls - n) = n
  BY <1>1, <1>2, <1>3, SetInduction
<1>5. Begins(n)
  BY <1>4 DEF P
<1> QED BY <1>5, BeforeIsConcatenation

-----------------------------------------------------------------------------
(* Types *)

\* new is content with one unit written at offset, and a gap before it filled with holes.
OneWritten(new, content, offset, unit) ==
    /\ new \in Seq(Unit)
    /\ Len(new) = IF offset < Len(content) THEN Len(content) ELSE offset + 1
    /\ \A k \in 1 .. Len(new) :
         new[k] = IF k = offset + 1 THEN unit
                  ELSE IF k <= Len(content) THEN content[k] ELSE Hole

\* Put writes one unit.
LEMMA PutWritesOne ==
    \A content \in Seq(Unit), offset \in Nat, unit \in Unit :
        OneWritten(Put(content, offset, unit), content, offset, unit)
<1> TAKE content \in Seq(Unit), offset \in Nat, unit \in Unit
<1>0. Hole \in Unit
  BY DEF Unit
<1> DEFINE n == IF offset < Len(content) THEN Len(content) ELSE offset + 1
           Value(k) == IF k = offset + 1 THEN unit ELSE IF k <= Len(content) THEN content[k] ELSE Hole
<1>1. n \in Nat /\ \A k \in 1 .. n : Value(k) \in Unit
  BY <1>0
<1>2. Put(content, offset, unit) = [k \in 1 .. n |-> Value(k)]
  BY DEF Put
<1>3. [k \in 1 .. n |-> Value(k)] \in [1 .. n -> Unit]
  BY <1>1
<1> HIDE DEF n, Value
<1>4. Put(content, offset, unit) \in Seq(Unit) /\ Len(Put(content, offset, unit)) = n
  BY <1>1, <1>2, <1>3
<1>5. \A k \in 1 .. n : Put(content, offset, unit)[k] = Value(k)
  BY <1>2, Zenon
<1> QED BY <1>4, <1>5 DEF n, Value, OneWritten

\* And leaves a sequence of units.
LEMMA PutIsTyped ==
    \A content \in Seq(Unit), offset \in Nat, unit \in Unit :
        Put(content, offset, unit) \in Seq(Unit)
BY PutWritesOne, Zenon DEF OneWritten

\* The ways a job ends: the next URL, or the end of the command.
EndShape(code) ==
    /\ handle' = "none" /\ resumed' = {} /\ rest' = <<>>
    /\ \/ /\ code = Success \/ plan.mode = "file"
          /\ url < NumUrls /\ url' = url + 1
          /\ step' = "job" /\ exit' = exit
       \/ /\ url' = url /\ step' = "over"
          /\ \/ code # Success /\ plan.mode # "file" /\ exit' = code
             \/ /\ code = Success \/ plan.mode = "file"
                /\ url = NumUrls /\ exit' = Worst(codes')

\* EndJob appends one code, and goes on or ends the command with a code.
LEMMA EndJobShape ==
    ASSUME RunnerTypeOK, NEW code \in Nat, EndJob(code)
    PROVE  /\ EndShape(code)
           /\ codes' \in Seq(Nat) /\ Len(codes') = Len(codes) + 1
           /\ codes'[Len(codes')] = code
           /\ \A i \in 1 .. Len(codes) : codes'[i] = codes[i]
           /\ exit' \in Nat /\ url' \in Urls /\ step' \in {"job", "over"}
<1>1. codes \in Seq(Nat) /\ codes' = Append(codes, code) /\ NumUrls \in Nat /\ url \in 1 .. NumUrls
  BY RemoteIsTyped DEF RunnerTypeOK, EndJob, Urls
<1>2. /\ codes' \in Seq(Nat) /\ Len(codes') = Len(codes) + 1
      /\ codes'[Len(codes) + 1] = code
      /\ \A i \in 1 .. Len(codes) : codes'[i] = codes[i]
  BY <1>1, AppendProperties
<1>3. EndShape(code)
  BY <1>1 DEF EndJob, EndShape
<1>4. exit' \in Nat /\ url' \in Urls /\ step' \in {"job", "over"}
  <2>1. Worst(codes') \in Nat
    BY <1>2, WorstIsGreatest
  <2>2. exit \in Nat /\ code \in Nat
    BY DEF RunnerTypeOK
  <2> QED BY <1>1, <1>3, <2>1, <2>2 DEF EndShape, Urls
<1> QED BY <1>2, <1>3, <1>4

\* The initial states are well typed.
LEMMA RunnerTypeInit == RunnerInit => RunnerTypeOK
<1> SUFFICES ASSUME RunnerInit PROVE RunnerTypeOK
  OBVIOUS
<1>1. PICK n \in UrlCounts : remote \in Objects(n)
  BY DEF RunnerInit
<1>2. n \in Nat \ {0} /\ MaxSize \in Nat \ {0}
  BY RunnerAssumption
<1>3. remote \in [1 .. n -> [kind : Servers, size : 1 .. MaxSize]]
  BY <1>1, <1>2, ObjectsAreTyped
<1>4. NumUrls = n
  BY <1>2, <1>3 DEF NumUrls
<1>5. NumUrls \in UrlCounts /\ remote \in Objects(NumUrls) /\ url \in Urls
  BY <1>1, <1>2, <1>4 DEF RunnerInit, Urls
<1>6. data \in [Urls -> Seq(Unit)]
  <2>1. Hole \in Unit
    BY DEF Unit
  <2>2. [i \in 1 .. MaxSize + 1 |-> Hole] \in Seq(Unit) /\ <<>> \in Seq(Unit)
    BY <1>2, <2>1
  <2> QED BY <2>2 DEF RunnerInit
<1>7. exists \subseteq Urls /\ recorded \in [Urls -> SUBSET (0 .. MaxSize - 1)]
  BY DEF RunnerInit
<1>8. recordedSize \in [Urls -> 0 .. MaxSize]
  BY <1>2 DEF RunnerInit
<1> QED BY <1>5, <1>6, <1>7, <1>8 DEF RunnerInit, RunnerTypeOK, Steps, NoCode

\* What types say of the outputs, and of the place in the loop.
FilesTyped ==
    /\ data \in [Urls -> Seq(Unit)]
    /\ recorded \in [Urls -> SUBSET (0 .. MaxSize - 1)]
    /\ recordedSize \in [Urls -> 0 .. MaxSize]
    /\ exists \subseteq Urls
    /\ out \in Seq(Unit) /\ pos \in Nat /\ base \in Nat
LoopTyped ==
    /\ url \in Urls /\ step \in Steps
    /\ handle \in {"none", "shared", "own", "resume"}
    /\ resumed \subseteq 0 .. MaxSize - 1
    /\ rest \in Seq(Unit)
    /\ codes \in Seq(Nat) /\ exit \in Nat

\* Every step keeps the types: above all, files stay sequences of units, and sidecars name
\* places within MaxSize.
LEMMA RunnerTypeStep == RunnerTypeOK /\ [RunnerNext]_runnerVars => RunnerTypeOK'
<1> SUFFICES ASSUME RunnerTypeOK, [RunnerNext]_runnerVars PROVE RunnerTypeOK'
  OBVIOUS
<1> USE RunnerAssumption
<1>1. /\ NumUrls \in Nat \ {0} /\ url \in Urls /\ 1 \in Urls
      /\ remote[url].size \in Nat \ {0} /\ remote[url].size <= MaxSize
      /\ Object(url) \in Seq(Unit) /\ Len(Object(url)) = remote[url].size
      /\ KnownSize(url) \in Nat
      /\ MaxSize \in Nat \ {0}
  <2>1. /\ NumUrls \in Nat \ {0} /\ url \in Urls /\ MaxSize \in Nat \ {0}
        /\ remote[url].size \in Nat \ {0} /\ remote[url].size <= MaxSize
        /\ Object(url) \in Seq(Unit) /\ Len(Object(url)) = remote[url].size
    BY RemoteIsTyped DEF RunnerTypeOK
  <2> QED BY <2>1 DEF Urls, KnownSize
<1>2. Dest \in Urls /\ data[Dest] \in Seq(Unit) /\ Len(data[Dest]) \in Nat
  <2>1. Dest \in Urls
    BY <1>1 DEF Dest, Name
  <2>2. data \in [Urls -> Seq(Unit)]
    BY Zenon DEF RunnerTypeOK
  <2>3. data[Dest] \in Seq(Unit)
    BY <2>1, <2>2, Zenon
  <2> QED BY <2>1, <2>3
<1>3. Hole \in Unit /\ \A i \in UnitsOf(url) : <<url, i>> \in Unit /\ i \in 0 .. MaxSize - 1
  BY <1>1 DEF Unit, UnitsOf
<1>4. Completed \in SUBSET (0 .. MaxSize - 1)
  BY <1>2 DEF RunnerTypeOK, Completed
<1>5. FilesTyped /\ LoopTyped
  BY DEF RunnerTypeOK, FilesTyped, LoopTyped
<1>6. ASSUME UNCHANGED given, FilesTyped', LoopTyped'
      PROVE  RunnerTypeOK'
  BY <1>6 DEF RunnerTypeOK, FilesTyped, LoopTyped, given, NumUrls
<1>7. ASSUME UNCHANGED given
      PROVE  NumUrls' = NumUrls /\ Urls' = Urls /\ Unit' = Unit
  BY <1>7 DEF NumUrls, Urls, Unit, given
<1>8. ASSUME UNCHANGED given, UNCHANGED <<fileState, sidecarState, out>>, base' \in Nat
      PROVE  FilesTyped'
  <2>1. UNCHANGED <<data, exists, pos, recorded, recordedSize, out>>
    BY <1>8, Zenon DEF fileState, sidecarState
  <2> QED BY <1>5, <1>7, <1>8, <2>1, Zenon DEF FilesTyped
<1>9. ASSUME UNCHANGED given, NEW code \in Nat, EndJob(code)
      PROVE  LoopTyped'
  <2>1. url' \in Urls /\ codes' \in Seq(Nat) /\ exit' \in Nat /\ EndShape(code)
    BY <1>9, EndJobShape
  <2> QED BY <1>7, <1>9, <2>1 DEF EndShape, LoopTyped, Steps
<1>10. ASSUME UNCHANGED given, UNCHANGED <<url, codes, exit>>, step' \in Steps,
              handle' \in {"none", "shared", "own", "resume"},
              resumed' \subseteq 0 .. MaxSize - 1, rest' \in Seq(Unit)
       PROVE  LoopTyped'
  BY <1>5, <1>7, <1>10 DEF LoopTyped
<1>11. ASSUME UNCHANGED given, UNCHANGED <<fileState, out, base>>,
              \/ UNCHANGED sidecarState
              \/ RemoveSidecar
              \/ /\ recorded' = [recorded EXCEPT ![Dest] = Completed]
                 /\ recordedSize' = [recordedSize EXCEPT ![Dest] = remote[url].size]
       PROVE  FilesTyped'
  <2>1. /\ recorded \in [Urls -> SUBSET (0 .. MaxSize - 1)]
        /\ recordedSize \in [Urls -> 0 .. MaxSize]
        /\ 0 \in 0 .. MaxSize /\ remote[url].size \in 0 .. MaxSize
    BY <1>1, <1>5 DEF FilesTyped
  <2>2. /\ recorded' \in [Urls -> SUBSET (0 .. MaxSize - 1)]
        /\ recordedSize' \in [Urls -> 0 .. MaxSize]
    BY <1>4, <1>11, <2>1 DEF sidecarState, RemoveSidecar
  <2> QED BY <1>5, <1>7, <1>11, <2>2 DEF FilesTyped, fileState
<1>12. IOError \in Nat /\ NetworkFail \in Nat /\ ServerError \in Nat /\ Success \in Nat
  BY DEF IOError, NetworkFail, ServerError, Success
<1>13. base + remote[url].size \in Nat /\ base + KnownSize(url) \in Nat
  <2>1. base \in Nat
    BY <1>5, Zenon DEF FilesTyped
  <2> QED BY <1>1, <2>1
<1>14. CASE RunAgain
  <2>1. remote' \in Objects(NumUrls)
    BY <1>14 DEF RunAgain
  <2>2. NumUrls' = NumUrls
    <3>1. remote' \in [1 .. NumUrls -> [kind : Servers, size : 1 .. MaxSize]]
      BY <1>1, <2>1, ObjectsAreTyped
    <3> QED BY <1>1, <3>1 DEF NumUrls
  <2>3. Urls' = Urls /\ Unit' = Unit
    BY <2>2 DEF Urls, Unit
  <2> USE <1>1, <1>14, <2>1, <2>2, <2>3 DEF RunAgain
  <2>4. NumUrls' \in UrlCounts /\ remote' \in Objects(NumUrls') /\ url' \in Urls'
    BY DEF RunnerTypeOK
  <2>5. UNCHANGED <<plan, data, exists, recorded, recordedSize>>
    BY DEF sidecarState
  <2>6. step' \in Steps /\ exit' \in Nat /\ codes' \in Seq(Nat) /\ rest' \in Seq(Unit)
    BY DEF Steps, NoCode
  <2>7. /\ data' \in [Urls' -> Seq(Unit')] /\ exists' \subseteq Urls'
        /\ recorded' \in [Urls' -> SUBSET (0 .. MaxSize - 1)]
        /\ recordedSize' \in [Urls' -> 0 .. MaxSize]
    BY <2>5, Zenon DEF RunnerTypeOK
  <2>8. /\ plan' \in Plans /\ out' \in Seq(Unit') /\ rest' \in Seq(Unit')
        /\ pos' \in Nat /\ base' \in Nat /\ runs' \in Nat \ {0}
        /\ handle' \in {"none", "shared", "own", "resume"} /\ resumed' \subseteq 0 .. MaxSize - 1
    BY <2>5 DEF RunnerTypeOK
  <2> QED BY <2>4, <2>6, <2>7, <2>8, Zenon DEF RunnerTypeOK
<1>15. CASE UNCHANGED runnerVars
  BY <1>5, <1>6, <1>7, <1>15 DEF FilesTyped, LoopTyped, runnerVars, fileState, sidecarState, locals
<1>16. CASE Open
  <2>1. data' \in [Urls -> Seq(Unit)] /\ exists' \subseteq Urls
    <3>1. data \in [Urls -> Seq(Unit)] /\ exists \subseteq Urls /\ <<>> \in Seq(Unit)
      BY <1>5 DEF FilesTyped
    <3> QED BY <1>1, <1>16, <3>1 DEF Open
  <2>2. FilesTyped'
    BY <1>5, <1>7, <1>16, <2>1 DEF Open, FilesTyped, sidecarState
  <2> QED BY <1>5, <1>6, <1>10, <1>16, <2>2 DEF Open, LoopTyped, Steps, locals
<1>17. CASE OpenFails
  BY <1>5, <1>6, <1>7, <1>8, <1>12, <1>17
     DEF OpenFails, FilesTyped, LoopTyped, Steps, sidecarState, locals
<1>18. CASE Skip
  BY <1>5, <1>6, <1>8, <1>9, <1>12, <1>18 DEF Skip, FilesTyped
<1>19. CASE ProbeFails
  BY <1>5, <1>6, <1>8, <1>9, <1>12, <1>19 DEF ProbeFails, FilesTyped
<1>20. CASE StartSequential
  BY <1>4, <1>5, <1>6, <1>10, <1>11, <1>20
     DEF StartSequential, TryRemoveSidecar, Steps, LoopTyped
<1>21. CASE StartStream
  BY <1>1, <1>5, <1>6, <1>8, <1>10, <1>21 DEF StartStream, Steps, LoopTyped, FilesTyped
<1>22. CASE StartChunks
  <2>1. UNCHANGED <<given, data, pos, out, base, handle, rest, url, codes, exit>>
    BY <1>22, Zenon DEF StartChunks
  <2>2. exists' \subseteq Urls
    BY <1>2, <1>5, <1>22 DEF StartChunks, FilesTyped
  <2>3. /\ recorded' \in [Urls -> SUBSET (0 .. MaxSize - 1)]
        /\ recordedSize' \in [Urls -> 0 .. MaxSize]
    <3>1. remote[url].size \in 0 .. MaxSize
      BY <1>1
    <3>2. /\ recorded \in [Urls -> SUBSET (0 .. MaxSize - 1)]
          /\ recordedSize \in [Urls -> 0 .. MaxSize]
      BY <1>5, Zenon DEF FilesTyped
    <3> QED BY <1>4, <1>22, <3>1, <3>2 DEF StartChunks
  <2>4. FilesTyped'
    BY <1>5, <1>7, <2>1, <2>2, <2>3, Zenon DEF FilesTyped
  <2>5. LoopTyped'
    BY <1>4, <1>5, <1>10, <1>22, <2>1 DEF StartChunks, Steps, LoopTyped
  <2> QED BY <1>6, <2>1, <2>4, <2>5
<1>23. CASE ChunksRefused
  BY <1>6, <1>9, <1>11, <1>12, <1>23 DEF ChunksRefused, TryRemoveSidecar
<1>24. CASE AlreadyComplete
  <2>1. FilesTyped'
    <3>1. /\ recorded \in [Urls -> SUBSET (0 .. MaxSize - 1)]
          /\ recordedSize \in [Urls -> 0 .. MaxSize] /\ 0 \in 0 .. MaxSize
      BY <1>1, <1>5 DEF FilesTyped
    <3>2. /\ recorded' \in [Urls -> SUBSET (0 .. MaxSize - 1)]
          /\ recordedSize' \in [Urls -> 0 .. MaxSize]
      BY <1>24, <3>1 DEF AlreadyComplete, TryRemoveSidecar, RemoveSidecar, sidecarState
    <3>3. base' \in Nat
      BY <1>13, <1>24 DEF AlreadyComplete
    <3> QED BY <1>5, <1>7, <1>24, <3>2, <3>3 DEF AlreadyComplete, FilesTyped, fileState
  <2> QED BY <1>6, <1>9, <1>12, <1>24, <2>1 DEF AlreadyComplete
<1>25. ASSUME NEW i \in 0 .. MaxSize - 1, WriteChunk(i) PROVE RunnerTypeOK'
  <2>1. base + i \in Nat /\ <<url, i>> \in Unit
    BY <1>3, <1>5, <1>25 DEF FilesTyped, WriteChunk
  <2>2. Put(data[Dest], base + i, <<url, i>>) \in Seq(Unit)
    BY <1>2, <1>3, <2>1, PutIsTyped, Zenon
  <2>3. FilesTyped'
    BY <1>2, <1>5, <1>7, <1>25, <2>2 DEF WriteChunk, FilesTyped
  <2>4. LoopTyped'
    BY <1>5, <1>10, <1>25 DEF WriteChunk, LoopTyped, locals
  <2> QED BY <1>6, <1>25, <2>3, <2>4 DEF WriteChunk
<1>26. CASE ChunksDone
  <2>1. UNCHANGED <<data, exists, pos, out>> /\ base' \in Nat
    BY <1>13, <1>26 DEF ChunksDone, fileState
  <2>2. /\ recorded' \in [Urls -> SUBSET (0 .. MaxSize - 1)]
        /\ recordedSize' \in [Urls -> 0 .. MaxSize]
    <3>1. /\ recorded \in [Urls -> SUBSET (0 .. MaxSize - 1)]
          /\ recordedSize \in [Urls -> 0 .. MaxSize]
      BY <1>5, Zenon DEF FilesTyped
    <3> QED BY <1>1, <1>2, <1>26, <3>1 DEF ChunksDone, RemoveSidecar
  <2>3. UNCHANGED given /\ EndJob(Success)
    BY <1>26, Zenon DEF ChunksDone
  <2>4. FilesTyped'
    BY <1>5, <1>7, <2>1, <2>2, <2>3, Zenon DEF FilesTyped
  <2> QED BY <1>6, <1>9, <1>12, <2>3, <2>4
<1>27. CASE ChunksFail
  <2>1. FilesTyped'
    BY <1>8, <1>13, <1>27 DEF ChunksFail
  <2> QED BY <1>6, <1>9, <1>12, <1>27, <2>1 DEF ChunksFail
<1>28. CASE StreamUnit
  <2>1. Head(rest) \in Unit /\ Tail(rest) \in Seq(Unit)
    BY <1>5, <1>28 DEF StreamUnit, LoopTyped
  <2>2. Append(out, Head(rest)) \in Seq(Unit)
    BY <1>5, <2>1 DEF FilesTyped
  <2>3. FilesTyped'
    BY <1>5, <1>7, <1>28, <2>2 DEF StreamUnit, FilesTyped, fileState, sidecarState
  <2> QED BY <1>5, <1>6, <1>10, <1>28, <2>1, <2>3 DEF StreamUnit, LoopTyped
<1>29. CASE StreamEnds
  BY <1>5, <1>6, <1>8, <1>9, <1>12, <1>29 DEF StreamEnds, FilesTyped
<1>30. ASSUME OpenDestination, UNCHANGED given, UNCHANGED <<pos, sidecarState, out, base>>
       PROVE  FilesTyped'
  <2>1. data \in [Urls -> Seq(Unit)] /\ exists \subseteq Urls /\ <<>> \in Seq(Unit)
    BY <1>5 DEF FilesTyped
  <2>2. data' \in [Urls -> Seq(Unit)] /\ exists' \subseteq Urls
    BY <1>2, <1>30, <2>1 DEF OpenDestination
  <2> QED BY <1>5, <1>7, <1>30, <2>2 DEF FilesTyped, sidecarState
<1>31. CASE Request
  <2>1. Offset \in Nat
    BY <1>2 DEF Offset
  <2>2. Body(Offset) \in Seq(Unit)
    <3>1. SubSeq(Object(url), Offset + 1, remote[url].size) \in Seq(Unit)
      BY <1>1, <2>1
    <3> QED BY <1>1, <3>1 DEF Body
  <2> QED BY <1>5, <1>6, <1>10, <1>30, <1>31, <2>2 DEF Request, LoopTyped, Steps
<1>32. CASE RequestFails
  <2>1. FilesTyped'
    BY <1>5, <1>7, <1>30, <1>32 DEF RequestFails, FilesTyped, sidecarState
  <2> QED BY <1>6, <1>9, <1>12, <1>32, <2>1 DEF RequestFails
<1>33. CASE CopyUnit
  <2>1. Head(rest) \in Unit /\ Tail(rest) \in Seq(Unit)
    BY <1>5, <1>33 DEF CopyUnit, LoopTyped
  <2>2. Append(out, Head(rest)) \in Seq(Unit) /\ Append(data[Dest], Head(rest)) \in Seq(Unit)
    BY <1>2, <1>5, <2>1 DEF FilesTyped
  <2>3. Put(data[Dest], pos, Head(rest)) \in Seq(Unit) /\ pos \in Nat
    <3>1. pos \in Nat
      BY <1>5, Zenon DEF FilesTyped
    <3> QED BY <1>2, <2>1, <3>1, PutIsTyped, Zenon
  <2>4. FilesTyped'
    <3>1. data \in [Urls -> Seq(Unit)] /\ out \in Seq(Unit) /\ pos + 1 \in Nat
      BY <1>5, <2>3 DEF FilesTyped
    <3>2. data' \in [Urls -> Seq(Unit)] /\ out' \in Seq(Unit) /\ pos' \in Nat
      BY <1>33, <2>2, <2>3, <3>1 DEF CopyUnit
    <3> QED BY <1>5, <1>7, <1>33, <3>2 DEF CopyUnit, FilesTyped, sidecarState
  <2> QED BY <1>5, <1>6, <1>10, <1>33, <2>1, <2>4 DEF CopyUnit, LoopTyped
<1>34. CASE CopyDone
  <2>1. FilesTyped'
    BY <1>5, <1>8, <1>13, <1>34 DEF CopyDone, FilesTyped
  <2> QED BY <1>6, <1>9, <1>12, <1>34, <2>1 DEF CopyDone
<1>35. CASE CopyFails
  BY <1>5, <1>6, <1>8, <1>9, <1>12, <1>35 DEF CopyFails, FilesTyped
<1>36. CASE Kill
  BY <1>5, <1>6, <1>8, <1>10, <1>36 DEF Kill, FilesTyped, LoopTyped, Steps, locals
<1> QED BY <1>14, <1>15, <1>16, <1>17, <1>18, <1>19, <1>20, <1>21, <1>22, <1>23, <1>24, <1>25,
           <1>26, <1>27, <1>28, <1>29, <1>31, <1>32, <1>33, <1>34, <1>35, <1>36
        DEF RunnerNext, Idle

\* The types hold at every moment.
THEOREM RunnerIsTyped == RunnerSpec => []RunnerTypeOK
<1>1. RunnerInit => RunnerTypeOK
  BY RunnerTypeInit
<1>2. RunnerTypeOK /\ [RunnerNext]_runnerVars => RunnerTypeOK'
  BY RunnerTypeStep
<1> QED BY <1>1, <1>2, PTL DEF RunnerSpec

-----------------------------------------------------------------------------
(* Exit codes *)

\* While the command runs there is one code for every URL before this one, and where a
\* failure ends the command it is success.
Ledger ==
    /\ Alive => Len(codes) = url - 1
    /\ Alive /\ plan.mode # "file" => \A i \in 1 .. Len(codes) : codes[i] = Success
    /\ step # "over" => exit = NoCode
    /\ ExitTellsAll

\* The steps that neither end a job nor begin a run.
GoesOn ==
    /\ UNCHANGED <<given, url, codes, exit>>
    /\ Alive /\ step' # "over"

\* For the exit codes there are only five kinds of step.
LEMMA StepKinds ==
    ASSUME RunnerTypeOK, [RunnerNext]_runnerVars
    PROVE  \/ UNCHANGED runnerVars
           \/ RunAgain
           \/ OpenFails
           \/ GoesOn
           \/ Alive /\ UNCHANGED given /\ \E code \in Nat : EndJob(code)
<1>1. CASE \/ Open \/ StartSequential \/ StartStream \/ StartChunks \/ Kill \/ Request
           \/ StreamUnit \/ CopyUnit \/ \E i \in 0 .. MaxSize - 1 : WriteChunk(i)
  BY <1>1 DEF GoesOn, Alive, Open, StartSequential, StartStream, StartChunks, StartsChunks, Kill,
     Request, StreamUnit, CopyUnit, WriteChunk
<1>2. CASE \/ Skip \/ ProbeFails \/ ChunksRefused \/ AlreadyComplete \/ ChunksDone \/ ChunksFail
           \/ StreamEnds \/ RequestFails \/ CopyDone \/ CopyFails
  <2>1. {Success, IOError, NetworkFail, ServerError} \subseteq Nat
    BY DEF Success, IOError, NetworkFail, ServerError
  <2> QED BY <1>2, <2>1 DEF Alive, Skip, ProbeFails, ChunksRefused, AlreadyComplete, StartsChunks,
     ChunksDone, ChunksFail, StreamEnds, RequestFails, CopyDone, CopyFails
<1> QED BY <1>1, <1>2 DEF RunnerNext, Idle

\* Nothing has ended yet.
LEMMA LedgerInit == RunnerInit => Ledger
BY DEF RunnerInit, Ledger, Alive, ExitTellsAll

\* A job adds one code; the last one, or the first failure where it ends the command, is
\* the exit code or goes into it.
LEMMA LedgerStep ==
    RunnerTypeOK /\ Ledger /\ [RunnerNext]_runnerVars => Ledger'
<1> SUFFICES ASSUME RunnerTypeOK, Ledger, [RunnerNext]_runnerVars PROVE Ledger'
  OBVIOUS
<1>1. CASE UNCHANGED runnerVars
  BY <1>1 DEF Ledger, Alive, ExitTellsAll, NumUrls, runnerVars, given
<1>2. CASE RunAgain
  BY <1>2 DEF RunAgain, Ledger, Alive, ExitTellsAll
<1>3. CASE OpenFails
  BY <1>3 DEF OpenFails, Ledger, Alive, ExitTellsAll, Single, Success, IOError, given
<1>4. CASE GoesOn
  BY <1>4 DEF GoesOn, Ledger, Alive, ExitTellsAll, given
<1>5. CASE Alive /\ UNCHANGED given /\ \E code \in Nat : EndJob(code)
  <2>1. PICK code \in Nat : EndJob(code)
    BY <1>5
  <2>2. /\ EndShape(code)
        /\ codes' \in Seq(Nat) /\ Len(codes') = Len(codes) + 1
        /\ codes'[Len(codes')] = code
        /\ \A i \in 1 .. Len(codes) : codes'[i] = codes[i]
        /\ NumUrls' = NumUrls /\ NumUrls \in Nat \ {0}
    BY <1>5, <2>1, EndJobShape, RemoteIsTyped DEF NumUrls, given
  <2>3. Len(codes) = url - 1 /\ exit = NoCode /\ url \in Nat /\ Len(codes') = url
    BY <1>5, <2>2 DEF Ledger, Alive, RunnerTypeOK, Urls
  <2>4. code = Success /\ plan.mode # "file" => \A i \in 1 .. Len(codes') : codes'[i] = Success
    BY <1>5, <2>2, <2>3 DEF Ledger
  <2>5. CASE step' = "job"
    BY <1>5, <2>2, <2>3, <2>4, <2>5 DEF EndShape, Ledger, Alive, ExitTellsAll, given
  <2>6. CASE step' = "over" /\ code # Success /\ plan.mode # "file" /\ exit' = code
    BY <1>5, <2>6 DEF Ledger, Alive, ExitTellsAll, given
  <2>7. CASE step' = "over" /\ url = NumUrls /\ exit' = Worst(codes')
             /\ (code = Success \/ plan.mode = "file")
    <3>1. /\ exit' \in Nat
          /\ \A i \in 1 .. Len(codes') : codes'[i] <= exit'
          /\ exit' # 0 => \E i \in 1 .. Len(codes') : codes'[i] = exit'
      BY <2>2, <2>7, WorstIsGreatest
    <3>2. ToSet(codes') = {codes'[i] : i \in 1 .. Len(codes')}
      BY <2>2 DEF ToSet
    <3>3. 1 \in 1 .. Len(codes') /\ \A i \in 1 .. Len(codes') : codes'[i] \in Nat
      BY <2>2, <2>3, <2>7
    <3>4. exit' = Success => ToSet(codes') = {Success}
      BY <3>1, <3>2, <3>3 DEF Success
    <3>5. exit' \in ToSet(codes') /\ \A c \in ToSet(codes') : c <= exit'
      BY <3>1, <3>2, <3>3
    <3> QED BY <1>5, <2>2, <2>3, <2>7, <3>4, <3>5 DEF Ledger, Alive, ExitTellsAll, given
  <2> QED BY <2>2, <2>5, <2>6, <2>7 DEF EndShape
<1> QED BY <1>1, <1>2, <1>3, <1>4, <1>5, StepKinds

\* A command that is over has a code for every URL unless a failure ended it, succeeds
\* only if all of them did, and reports the worst.
THEOREM ExitCodesTell == RunnerSpec => []ExitTellsAll
<1>1. RunnerInit => Ledger
  BY LedgerInit
<1>2. RunnerTypeOK /\ Ledger /\ [RunnerNext]_runnerVars => Ledger'
  BY LedgerStep
<1>3. Ledger => ExitTellsAll
  BY DEF Ledger
<1> QED BY <1>1, <1>2, <1>3, RunnerIsTyped, PTL DEF RunnerSpec

-----------------------------------------------------------------------------
(* One file and its sidecar *)

\* What the sidecar names is in the file; there is nothing named without a sidecar, and
\* no sidecar but of a parallel download.
SidecarPart ==
    /\ \A i \in recorded[1] : i < Len(data[1]) /\ data[1][i + 1] = <<1, i>>
    /\ recorded[1] # {} => recordedSize[1] # 0
    /\ recordedSize[1] # 0 => UseParallel(1)

\* Where the job is, and what the file holds then.  A sequential job has no sidecar; the
\* file and what is still to come make up the object, unless a whole answer is appended.
FilePart ==
    /\ Alive => base = 0
    /\ step = "chunks" => recordedSize[1] = remote[1].size
    /\ step \in {"open", "copy"} => recordedSize[1] = 0 /\ handle \in {"own", "resume"}
    /\ step = "open" /\ handle = "own" => Offset = 0
    /\ step = "copy" =>
         \/ handle = "resume" /\ remote[1].kind = "whole"
         \/ Len(data[1]) + Len(rest) = remote[1].size
    /\ step = "copy" /\ handle = "own" => data[1] \o rest = Object(1)

AloneInv == Alone => SidecarPart /\ FilePart

\* With one URL and a file of its own, there is one file, one sidecar and one object.
LEMMA AloneFacts ==
    ASSUME RunnerTypeOK, Alone
    PROVE  /\ NumUrls = 1 /\ url = 1 /\ Dest = 1 /\ ~Stdout /\ ~Single
           /\ data[1] \in Seq(Unit) /\ recorded[1] \subseteq Nat
           /\ remote[1].size \in Nat \ {0} /\ 1 \in Urls /\ url \in Urls
           /\ DOMAIN data = Urls /\ DOMAIN recorded = Urls /\ DOMAIN recordedSize = Urls
           /\ Object(1) \in Seq(Unit) /\ Len(Object(1)) = remote[1].size
           /\ \A i \in UnitsOf(1) : Object(1)[i + 1] = <<1, i>>
<1>1. NumUrls = 1 /\ plan.mode = "file"
  BY DEF Alone
<1>2. 1 \in Urls /\ url \in Urls /\ \A u \in Urls : u = 1
  BY <1>1 DEF Urls, RunnerTypeOK
<1>3. /\ remote[1].size \in Nat \ {0}
      /\ Object(1) \in Seq(Unit) /\ Len(Object(1)) = remote[1].size
      /\ \A i \in UnitsOf(1) : Object(1)[i + 1] = <<1, i>>
  BY <1>2, RemoteIsTyped
<1>4. data \in [Urls -> Seq(Unit)] /\ recorded \in [Urls -> SUBSET (0 .. MaxSize - 1)]
      /\ recordedSize \in [Urls -> 0 .. MaxSize]
  BY DEF RunnerTypeOK
<1>5. data[1] \in Seq(Unit) /\ recorded[1] \subseteq Nat
  BY <1>2, <1>4
<1> QED BY <1>1, <1>2, <1>3, <1>4, <1>5 DEF Dest, Name, Single, Stdout

\* The steps that leave the file alone treat the sidecar in one of three ways.
LEMMA SidecarPartKept ==
    ASSUME RunnerTypeOK, Alone, SidecarPart, UNCHANGED given, UNCHANGED data,
           \/ UNCHANGED sidecarState
           \/ RemoveSidecar
           \/ /\ UseParallel(url)
              /\ recorded' = [recorded EXCEPT ![Dest] = Completed]
              /\ recordedSize' = [recordedSize EXCEPT ![Dest] = remote[url].size]
    PROVE  SidecarPart'
<1>1. /\ 1 \in Urls /\ url = 1 /\ Dest = 1
      /\ DOMAIN recorded = Urls /\ DOMAIN recordedSize = Urls
      /\ remote[1].size # 0
  BY AloneFacts
<1>2. Completed \subseteq recorded[1]
  BY <1>1 DEF Completed
<1>3. /\ recorded'[1] \subseteq recorded[1]
      /\ recorded'[1] # {} => recordedSize'[1] # 0
      /\ recordedSize'[1] # 0 => UseParallel(1)
  BY <1>1, <1>2 DEF SidecarPart, sidecarState, RemoveSidecar
<1> QED BY <1>3 DEF SidecarPart, UseParallel, given

\* A job that ends is the last one: nothing remains to be said of its place.
LEMMA LastJobEnds ==
    ASSUME RunnerTypeOK, Alone, NEW code \in Nat, EndJob(code)
    PROVE  step' = "over" /\ FilePart'
<1>1. step' = "over"
  BY EndJobShape, AloneFacts DEF EndShape
<1> QED BY <1>1 DEF FilePart, Alive

\* An old file of the first run has no sidecar.
LEMMA AloneInit == RunnerInit => AloneInv
<1> SUFFICES ASSUME RunnerInit, Alone PROVE SidecarPart /\ FilePart
  BY DEF AloneInv
<1>1. RunnerTypeOK
  BY RunnerTypeInit
<1>2. 1 \in Urls
  BY <1>1, AloneFacts
<1> QED BY <1>2 DEF RunnerInit, SidecarPart, FilePart, Alive

\* A unit is recorded after it was written, and nothing written is taken back but by a
\* sequential download or a truncation that finds no sidecar.
LEMMA AloneStep ==
    ASSUME "kind" \notin Changes
    PROVE  RunnerTypeOK /\ AloneInv /\ [RunnerNext]_runnerVars => AloneInv'
<1> SUFFICES ASSUME RunnerTypeOK, AloneInv, [RunnerNext]_runnerVars, Alone'
             PROVE  SidecarPart' /\ FilePart'
  BY DEF AloneInv
<1>1. RunnerTypeOK'
  BY RunnerTypeStep
<1>2. CASE UNCHANGED given
  <2> USE <1>2
  <2>1. Alone
    BY DEF Alone, given, NumUrls
  <2>2. SidecarPart /\ FilePart
    BY <2>1 DEF AloneInv
  <2>3. /\ NumUrls = 1 /\ url = 1 /\ Dest = 1 /\ ~Stdout /\ ~Single
        /\ data[1] \in Seq(Unit) /\ recorded[1] \subseteq Nat
        /\ remote[1].size \in Nat \ {0} /\ 1 \in Urls
        /\ DOMAIN data = Urls /\ DOMAIN recorded = Urls /\ DOMAIN recordedSize = Urls
        /\ Object(1) \in Seq(Unit) /\ Len(Object(1)) = remote[1].size
    BY <2>1, AloneFacts
  <2>4. /\ IOError \in Nat /\ NetworkFail \in Nat /\ ServerError \in Nat /\ Success \in Nat
        /\ \A code \in Nat : EndJob(code) => FilePart'
    BY <2>1, LastJobEnds DEF IOError, NetworkFail, ServerError, Success
  <2>5. CASE UNCHANGED runnerVars
    BY <2>2, <2>5 DEF SidecarPart, FilePart, Alive, runnerVars, fileState, sidecarState, locals,
       given, UseParallel, Object, Offset, Shared, DestExists, Stdout, Dest, Name, Single, KnownSize
  <2>6. CASE Open
    BY <2>1, <2>2, <2>3, <2>6, SidecarPartKept DEF Open, FilePart, Alive
  <2>7. CASE OpenFails
    BY <2>3, <2>7 DEF OpenFails
  <2>8. CASE Skip
    BY <2>1, <2>2, <2>4, <2>8, SidecarPartKept DEF Skip, fileState
  <2>9. CASE ProbeFails
    BY <2>1, <2>2, <2>4, <2>9, SidecarPartKept DEF ProbeFails, fileState
  <2>10. CASE StartSequential
    <3>1. ~HasSidecar /\ recordedSize[1] = 0
      BY <2>2, <2>3, <2>10 DEF StartSequential, Contiguous, HasSidecar, SidecarPart
    <3>2. UNCHANGED sidecarState
      BY <2>10, <3>1 DEF StartSequential, StaleSidecar
    <3>3. SidecarPart'
      BY <2>1, <2>2, <2>10, <3>2, SidecarPartKept DEF StartSequential, fileState
    <3>4. /\ step' = "open" /\ base' = 0 /\ recordedSize'[1] = 0
          /\ handle' = IF Contiguous THEN "resume" ELSE "own"
      BY <2>1, <2>2, <2>10, <3>1, <3>2 DEF StartSequential, FilePart, Alive, Alone, sidecarState
    <3>5. ~Contiguous => Offset' = 0
      BY <2>3, <2>10, <3>1
         DEF StartSequential, Contiguous, Offset, DestExists, Dest, Name, Single, Stdout, given, fileState
    <3> QED BY <3>3, <3>4, <3>5 DEF FilePart, Alive
  <2>11. CASE StartStream
    BY <2>3, <2>11 DEF StartStream
  <2>12. CASE StartChunks
    <3>1. SidecarPart'
      BY <2>1, <2>2, <2>12, SidecarPartKept DEF StartChunks, StartsChunks
    <3>2. step' = "chunks" /\ recordedSize'[1] = remote'[1].size /\ base' = 0
      BY <2>2, <2>3, <2>12 DEF StartChunks, StartsChunks, FilePart, Alive, given
    <3> QED BY <3>1, <3>2 DEF FilePart, Alive
  <2>13. CASE ChunksRefused
    <3>1. SidecarPart'
      BY <2>1, <2>2, <2>13, SidecarPartKept
         DEF ChunksRefused, StartsChunks, TryRemoveSidecar, fileState
    <3> QED BY <2>4, <2>13, <3>1 DEF ChunksRefused
  <2>14. CASE AlreadyComplete
    <3>1. SidecarPart'
      BY <2>1, <2>2, <2>14, SidecarPartKept DEF AlreadyComplete, TryRemoveSidecar, fileState
    <3> QED BY <2>4, <2>14, <3>1 DEF AlreadyComplete
  <2>15. ASSUME NEW i \in 0 .. MaxSize - 1, WriteChunk(i) PROVE SidecarPart' /\ FilePart'
    <3>1. base = 0 /\ recordedSize[1] = remote[1].size /\ i \in Nat /\ i < remote[1].size
      BY <2>2, <2>3, <2>15 DEF WriteChunk, FilePart, Alive, UnitsOf
    <3>2. <<1, i>> \in Unit /\ Hole \in Unit
      BY <1>1, <2>3, <2>15 DEF Unit, UnitsOf
    <3>3. data'[1] = Put(data[1], i, <<1, i>>) /\ recorded'[1] = recorded[1] \cup {i}
      BY <2>3, <2>15, <3>1 DEF WriteChunk
    <3>4. \A j \in recorded'[1] : j < Len(data'[1]) /\ data'[1][j + 1] = <<1, j>>
      <4> SUFFICES ASSUME NEW j \in recorded'[1]
                   PROVE  j < Len(data'[1]) /\ data'[1][j + 1] = <<1, j>>
        OBVIOUS
      <4>1. /\ Len(data'[1]) = IF i < Len(data[1]) THEN Len(data[1]) ELSE i + 1
            /\ \A k \in 1 .. Len(data'[1]) :
                 data'[1][k] = IF k = i + 1 THEN <<1, i>>
                               ELSE IF k <= Len(data[1]) THEN data[1][k] ELSE Hole
        <5>1. data[1] \in Seq(Unit) /\ i \in Nat /\ <<1, i>> \in Unit
          BY <2>3, <3>1, <3>2
        <5>2. OneWritten(data'[1], data[1], i, <<1, i>>)
          BY <3>3, <5>1, PutWritesOne, Zenon
        <5> QED BY <5>2, Zenon DEF OneWritten
      <4>2. Len(data[1]) \in Nat /\ j \in Nat /\ i \in Nat
        BY <2>3, <3>1, <3>3
      <4> DEFINE new == data'[1]
                 old == Len(data[1])
      <4>3. /\ Len(new) = IF i < old THEN old ELSE i + 1
            /\ old \in Nat
        BY <4>1, <4>2
      <4>4. CASE j = i
        <5>1. j + 1 \in 1 .. Len(new) /\ j < Len(new)
          BY <4>2, <4>3, <4>4
        <5> QED BY <4>1, <4>4, <5>1
      <4>5. CASE j # i
        <5>1. j < old /\ data[1][j + 1] = <<1, j>>
          BY <2>2, <3>3, <4>5 DEF SidecarPart
        <5> HIDE DEF old
        <5>2. j + 1 \in 1 .. Len(new) /\ j < Len(new) /\ j + 1 # i + 1 /\ j + 1 <= old
          BY <4>2, <4>3, <4>5, <5>1
        <5> QED BY <4>1, <5>1, <5>2 DEF old
      <4> QED BY <4>4, <4>5
    <3>5. SidecarPart'
      BY <2>2, <2>3, <2>15, <3>1, <3>4 DEF SidecarPart, WriteChunk, UseParallel, given
    <3>6. FilePart'
      BY <2>2, <2>15, <3>1 DEF FilePart, WriteChunk, Alive, given
    <3> QED BY <3>5, <3>6
  <2>16. CASE ChunksDone
    <3>1. SidecarPart'
      BY <2>1, <2>2, <2>16, SidecarPartKept DEF ChunksDone, fileState
    <3> QED BY <2>4, <2>16, <3>1 DEF ChunksDone
  <2>17. CASE ChunksFail
    BY <2>1, <2>2, <2>4, <2>17, SidecarPartKept DEF ChunksFail, fileState
  <2>18. CASE StreamUnit
    BY <2>1, <2>2, <2>18, SidecarPartKept DEF StreamUnit, fileState, sidecarState, FilePart, Alive
  <2>19. CASE StreamEnds
    BY <2>1, <2>2, <2>4, <2>19, SidecarPartKept DEF StreamEnds, fileState
  <2>20. ASSUME step = "open"
         PROVE  recordedSize[1] = 0 /\ recorded[1] = {} /\ handle \in {"own", "resume"} /\ ~Shared
    BY <2>2, <2>20 DEF SidecarPart, FilePart, Shared
  <2>21. ASSUME step \in {"open", "copy"}, UNCHANGED sidecarState
         PROVE  SidecarPart' /\ recordedSize'[1] = 0
    BY <2>2, <2>21 DEF SidecarPart, FilePart, sidecarState
  <2>22. CASE Request
    <3>1. SidecarPart' /\ recordedSize'[1] = 0
      BY <2>21, <2>22 DEF Request
    <3>2. /\ data'[1] = IF Offset > 0 THEN data[1] ELSE <<>>
          /\ rest' = Body(Offset) /\ handle' = handle /\ remote' = remote /\ base' = 0
          /\ step' = "copy" /\ handle \in {"own", "resume"}
      BY <2>2, <2>3, <2>20, <2>22 DEF Request, OpenDestination, locals, given, FilePart, Alive
    <3>3. Object(1)' = Object(1)
      BY <3>2 DEF Object
    <3>4. CASE Offset = 0
      <4>1. SubSeq(Object(1), Offset + 1, remote[1].size) = Object(1)
        BY <2>3, <3>4, SubSeqFull
      <4>2. rest' = Object(1) /\ data'[1] = <<>>
        BY <2>3, <3>2, <3>4, <4>1 DEF Body
      <4>3. data'[1] \o rest' = Object(1) /\ Len(data'[1]) + Len(rest') = remote[1].size
        BY <2>3, <4>2, ConcatEmptySeq
      <4> QED BY <3>1, <3>2, <3>3, <4>3 DEF FilePart, Alive
    <3>5. CASE Offset # 0
      <4>1. handle = "resume" /\ Offset = Len(data[1]) /\ Offset \in Nat
            /\ remote[1].kind # "unsized"
        BY <2>2, <2>3, <2>20, <2>22, <3>2, <3>5 DEF FilePart, Request, Offset, KnownSize
      <4>2. CASE remote[1].kind = "whole"
        BY <3>1, <3>2, <4>1, <4>2 DEF FilePart, Alive
      <4>3. CASE remote[1].kind # "whole"
        <5>1. remote[1].kind \in {"ranges", "novalidator"}
          BY <2>3, <4>1, <4>3, RemoteIsTyped DEF ServerKinds
        <5>2. rest' = SubSeq(Object(1), Offset + 1, remote[1].size) /\ rest' # <<>>
              /\ data'[1] = data[1]
          <6>1. Offset > 0 /\ data'[1] = data[1] /\ rest' = Body(Offset) /\ ~Refused(Offset)
            BY <2>22, <3>2, <3>5, <4>1 DEF Request
          <6>2. rest' = SubSeq(Object(1), Offset + 1, remote[1].size)
            BY <2>3, <5>1, <6>1 DEF Body
          <6>3. rest' # <<>>
            BY <2>3, <5>1, <6>1, <6>2 DEF Refused
          <6> QED BY <6>1, <6>2, <6>3
        <5> DEFINE n == remote[1].size
                   o == Offset
        <5>7. n \in Nat /\ o \in Nat /\ Object(1) \in Seq(Unit) /\ Len(Object(1)) = n
          BY <2>3, <4>1
        <5>8. rest' = SubSeq(Object(1), o + 1, n) /\ rest' # <<>>
          BY <5>2
        <5> HIDE DEF n, o
        <5>9. o + 1 <= n
          BY <5>7, <5>8
        <5>10. Len(rest') = n - o
          BY <5>7, <5>8, <5>9
        <5>4. Len(rest') = remote[1].size - Offset
          BY <5>10 DEF n, o
        <5>5. Len(data'[1]) + Len(rest') = remote'[1].size
          <6>1. Len(data'[1]) = Offset /\ remote'[1].size = remote[1].size
            BY <3>2, <4>1, <5>2
          <6> QED BY <2>3, <4>1, <5>4, <6>1
        <5>6. step' = "copy" /\ handle' = "resume"
          BY <3>2, <4>1
        <5> QED BY <3>1, <3>2, <5>5, <5>6 DEF FilePart, Alive
      <4> QED BY <4>2, <4>3
    <3> QED BY <3>4, <3>5
  <2>23. CASE RequestFails
    BY <2>4, <2>21, <2>23 DEF RequestFails
  <2>24. CASE CopyUnit
    <3>1. SidecarPart' /\ recordedSize'[1] = 0
      BY <2>21, <2>24 DEF CopyUnit
    <3>2. /\ rest \in Seq(Unit) /\ rest # <<>> /\ rest' = Tail(rest)
          /\ data'[1] = Append(data[1], Head(rest))
          /\ handle' = handle /\ remote' = remote /\ base' = 0 /\ step' = "copy"
          /\ handle \in {"own", "resume"}
      BY <2>2, <2>3, <2>24 DEF CopyUnit, FilePart, Shared, given, Alive, RunnerTypeOK
    <3>3. Len(data'[1]) + Len(rest') = Len(data[1]) + Len(rest)
      BY <2>3, <3>2
    <3>4. data'[1] \o rest' = data[1] \o rest
      <4>1. data[1] \in Seq(Unit)
        BY <2>3
      <4> QED BY <3>2, <4>1, HeadMoves, Zenon
    <3>5. Object(1)' = Object(1)
      BY <3>2 DEF Object
    <3> QED BY <2>2, <2>24, <3>1, <3>2, <3>3, <3>4, <3>5 DEF FilePart, Alive, CopyUnit
  <2>25. CASE CopyDone
    BY <2>4, <2>21, <2>25 DEF CopyDone
  <2>26. CASE CopyFails
    BY <2>4, <2>21, <2>26 DEF CopyFails
  <2>27. CASE Kill
    <3>1. SidecarPart'
      BY <2>1, <2>2, <2>27, SidecarPartKept DEF Kill, fileState
    <3> QED BY <2>27, <3>1 DEF Kill, FilePart, Alive
  <2>28. CASE RunAgain
    BY <2>28 DEF RunAgain, given, RunnerTypeOK
  <2> QED BY <2>5, <2>6, <2>7, <2>8, <2>9, <2>10, <2>11, <2>12, <2>13, <2>14, <2>15, <2>16,
             <2>17, <2>18, <2>19, <2>22, <2>23, <2>24, <2>25, <2>26, <2>27, <2>28
          DEF RunnerNext, Idle
<1>3. CASE RunAgain
  <2>1. remote' \in Objects(NumUrls) /\ NumUrls \in Nat \ {0}
    BY <1>3, RemoteIsTyped DEF RunAgain
  <2>2. NumUrls' = NumUrls
    BY <2>1, ObjectsAreTyped DEF NumUrls
  <2>3. Alone
    BY <1>3, <2>2 DEF Alone, RunAgain
  <2>4. 1 \in Urls /\ remote'[1].kind = remote[1].kind
    BY <1>3, <2>3, AloneFacts DEF RunAgain
  <2>5. SidecarPart
    BY <2>3 DEF AloneInv
  <2> QED BY <1>3, <2>4, <2>5 DEF RunAgain, SidecarPart, FilePart, Alive, UseParallel, sidecarState
<1> QED BY <1>2, <1>3, StepKinds DEF GoesOn, OpenFails, runnerVars

\* Every unit that the sidecar names being in the file, the object begins the file.
LEMMA WholeWhenAllRecorded ==
    ASSUME RunnerTypeOK, Alone, SidecarPart, recorded[1] = UnitsOf(1)
    PROVE  IsPrefix(Object(1), data[1])
<1>1. /\ data[1] \in Seq(Unit) /\ remote[1].size \in Nat \ {0}
      /\ Object(1) \in Seq(Unit) /\ Len(Object(1)) = remote[1].size
      /\ \A i \in UnitsOf(1) : Object(1)[i + 1] = <<1, i>>
  BY AloneFacts
<1> DEFINE n == remote[1].size
<1>2. UnitsOf(1) = 0 .. n - 1
  BY DEF UnitsOf
<1>3. n - 1 \in UnitsOf(1)
  BY <1>1, <1>2
<1>4. n <= Len(data[1])
  BY <1>1, <1>3 DEF SidecarPart
<1>5. ASSUME NEW k \in 1 .. n PROVE Object(1)[k] = data[1][k]
  <2>1. k - 1 \in UnitsOf(1) /\ (k - 1) + 1 = k
    BY <1>1, <1>2
  <2> QED BY <1>1, <2>1 DEF SidecarPart
<1> HIDE DEF n
<1>6. SubSeq(Object(1), 1, n) = SubSeq(data[1], 1, n)
  BY <1>1, <1>4, <1>5 DEF n
<1> QED BY <1>1, <1>4, <1>6 DEF IsPrefix, n

\* The two ways to success: all units recorded, or the answer copied to its end.
LEMMA JobIsExactStep ==
    RunnerTypeOK /\ AloneInv /\ [RunnerNext]_runnerVars
        => [JobEndsWell => data'[url] = Object(url)]_runnerVars
<1> SUFFICES ASSUME RunnerTypeOK, AloneInv, RunnerNext, JobEndsWell
             PROVE  data'[url] = Object(url)
  BY DEF runnerVars
<1>1. Alone /\ SidecarPart /\ FilePart /\ step \in {"chunks", "copy"} /\ InOrder(resumed)
      /\ ContinuesWell /\ JobSucceeds
  BY DEF JobEndsWell, AloneInv
<1>2. /\ url = 1 /\ Dest = 1 /\ data[1] \in Seq(Unit) /\ codes \in Seq(Nat)
      /\ remote[1].size \in Nat \ {0}
      /\ Object(1) \in Seq(Unit) /\ Len(Object(1)) = remote[1].size
  BY <1>1, AloneFacts DEF RunnerTypeOK
<1>3. CASE UNCHANGED codes
  BY <1>1, <1>2, <1>3 DEF JobSucceeds
<1>4. CASE RunAgain \/ OpenFails
  BY <1>1, <1>4 DEF RunAgain, OpenFails, Alive
<1>5. CASE Skip \/ ProbeFails \/ ChunksRefused \/ AlreadyComplete \/ StreamEnds \/ RequestFails
  BY <1>1, <1>5 DEF Skip, ProbeFails, ChunksRefused, AlreadyComplete, StreamEnds, RequestFails,
     StartsChunks
<1>6. ASSUME NEW code \in Nat, code # Success PROVE ~EndJob(code)
  BY <1>1, <1>6, EndJobShape DEF JobSucceeds
<1>7. CASE ChunksFail \/ CopyFails
  BY <1>6, <1>7 DEF ChunksFail, CopyFails, IOError, NetworkFail, ServerError, Success
<1>8. CASE ChunksDone
  <2>1. recorded[1] = UnitsOf(1) /\ data' = data
    BY <1>1, <1>2, <1>8 DEF ChunksDone, fileState
  <2>2. IsPrefix(Object(1), data[1])
    BY <1>1, <2>1, WholeWhenAllRecorded
  <2>3. Len(data[1]) <= remote[1].size
    BY <1>2, <1>8 DEF JobEndsWell, ChunksDone
  <2>4. Len(data[1]) = Len(Object(1))
    BY <1>2, <2>2, <2>3 DEF IsPrefix
  <2>5. SubSeq(Object(1), 1, Len(Object(1))) = SubSeq(data[1], 1, Len(data[1]))
    BY <2>2, <2>4 DEF IsPrefix
  <2>6. Object(1) = data[1]
    BY <1>2, <2>5, SubSeqFull
  <2> QED BY <1>2, <2>1, <2>6
<1>9. CASE CopyDone
  <2>1. data' = data /\ rest = <<>> /\ step = "copy"
    BY <1>9 DEF CopyDone, fileState
  <2>2. CASE handle = "own"
    <3>1. data[1] \o <<>> = Object(1)
      BY <1>1, <2>1, <2>2 DEF FilePart
    <3> QED BY <1>2, <2>1, <3>1, ConcatEmptySeq
  <2>3. CASE handle = "resume"
    <3>1. IsPrefix(data[1], Object(1)) /\ Len(data[1]) + Len(rest) = remote[1].size
      BY <1>1, <2>1, <2>3 DEF FilePart, ContinuesWell, IsContinued
    <3> QED BY <1>2, <2>1, <3>1 DEF IsPrefix
  <2> QED BY <1>1, <2>1, <2>2, <2>3 DEF FilePart
<1>10. CASE \/ Open \/ StartSequential \/ StartStream \/ StartChunks \/ Kill \/ Request
            \/ StreamUnit \/ CopyUnit \/ Idle \/ \E i \in 0 .. MaxSize - 1 : WriteChunk(i)
  BY <1>3, <1>10 DEF Open, StartSequential, StartStream, StartChunks, Kill, Request, StreamUnit,
     CopyUnit, WriteChunk, Idle, runnerVars
<1> QED BY <1>3, <1>4, <1>5, <1>7, <1>8, <1>9, <1>10 DEF RunnerNext

\* The two places where the sidecar of a parallel download goes find every unit recorded.
LEMMA MarkedStep ==
    RunnerTypeOK /\ AloneInv /\ [RunnerNext]_runnerVars
        => [Alone /\ InOrder(resumed) /\ recordedSize[1] = remote[1].size /\ recordedSize'[1] = 0
              => IsPrefix(Object(1), data[1])]_runnerVars
<1> SUFFICES ASSUME RunnerTypeOK, AloneInv, RunnerNext, Alone, InOrder(resumed),
                    recordedSize[1] = remote[1].size, recordedSize'[1] = 0
             PROVE  IsPrefix(Object(1), data[1])
  BY DEF runnerVars
<1>1. /\ SidecarPart /\ FilePart /\ url = 1 /\ Dest = 1 /\ ~Stdout
      /\ remote[1].size \in Nat \ {0} /\ DOMAIN recordedSize = Urls /\ 1 \in Urls
  BY AloneFacts DEF AloneInv
<1>2. UseParallel(1) /\ HasSidecar /\ ~StaleSidecar /\ Completed = recorded[1]
  BY <1>1 DEF SidecarPart, HasSidecar, StaleSidecar, Completed, KnownSize, UseParallel
<1>3. ~UNCHANGED sidecarState
  BY <1>1 DEF sidecarState
<1>4. CASE StartSequential
  BY <1>1, <1>2, <1>4 DEF StartSequential, Contiguous
<1>5. CASE StartChunks
  BY <1>1, <1>5 DEF StartChunks
<1>6. CASE ChunksRefused
  BY <1>1, <1>2, <1>3, <1>6 DEF ChunksRefused
<1>7. CASE AlreadyComplete
  BY <1>1, <1>2, <1>7, WholeWhenAllRecorded DEF AlreadyComplete
<1>8. CASE ChunksDone
  BY <1>1, <1>8, WholeWhenAllRecorded DEF ChunksDone
<1>9. ASSUME NEW i \in 0 .. MaxSize - 1, WriteChunk(i) PROVE FALSE
  BY <1>1, <1>9 DEF WriteChunk
<1> QED BY <1>3, <1>4, <1>5, <1>6, <1>7, <1>8, <1>9
        DEF RunnerNext, Open, OpenFails, Skip, ProbeFails, StartStream, ChunksFail, StreamUnit,
            StreamEnds, Request, RequestFails, CopyUnit, CopyDone, CopyFails, Kill, RunAgain, Idle,
            runnerVars

\* The inductive invariant of a command with one file, while servers keep answering the
\* same way.
THEOREM AloneIsConsistent ==
    ASSUME "kind" \notin Changes
    PROVE  RunnerSpec => []AloneInv
<1>1. RunnerInit => AloneInv
  BY AloneInit
<1>2. RunnerTypeOK /\ AloneInv /\ [RunnerNext]_runnerVars => AloneInv'
  BY AloneStep
<1> QED BY <1>1, <1>2, RunnerIsTyped, PTL DEF RunnerSpec

\* The units that a sidecar names are in the file, through failures, kills and further
\* runs with longer objects.
THEOREM SidecarsTellTheTruth ==
    ASSUME "kind" \notin Changes
    PROVE  RunnerSpec => []SidecarsAreTruthful
<1>1. AloneInv => SidecarsAreTruthful
  BY DEF AloneInv, SidecarPart, SidecarsAreTruthful
<1> QED BY <1>1, AloneIsConsistent, PTL

\* A download to a file that ends with success, resumed in order, leaves the object.
THEOREM SuccessLeavesTheObject ==
    ASSUME "kind" \notin Changes
    PROVE  RunnerSpec => JobIsExact
<1>1. RunnerTypeOK /\ AloneInv /\ [RunnerNext]_runnerVars
        => [JobEndsWell => data'[url] = Object(url)]_runnerVars
  BY JobIsExactStep
<1> QED BY <1>1, AloneIsConsistent, RunnerIsTyped, PTL DEF RunnerSpec, JobIsExact

\* The sidecar of a file goes only when the file is whole, or when the object has another
\* size.
THEOREM MarkStaysUntilWhole ==
    ASSUME "kind" \notin Changes
    PROVE  RunnerSpec => MarkedUntilWhole
<1>1. RunnerTypeOK /\ AloneInv /\ [RunnerNext]_runnerVars
        => [Alone /\ InOrder(resumed) /\ recordedSize[1] = remote[1].size /\ recordedSize'[1] = 0
              => IsPrefix(Object(1), data[1])]_runnerVars
  BY MarkedStep
<1> QED BY <1>1, AloneIsConsistent, RunnerIsTyped, PTL DEF RunnerSpec, MarkedUntilWhole

-----------------------------------------------------------------------------
(* Standard output *)

\* Between jobs the output is the concatenation of the objects so far; in a job, with
\* what is still to come, the concatenation up to this object.
OutputPart ==
    /\ step # "chunks"
    /\ step \in {"start", "job", "open"} => out = Before[url - 1]
    /\ step \in {"stream", "copy"} => out \o rest = Before[url]
    /\ step \in {"open", "copy"} => handle = "shared"
Begun == \E left \in Seq(Unit) : out \o left = AllObjects
StdoutInv == Stdout => OutputPart /\ Begun /\ (exit = Success => out = AllObjects)

\* The concatenation depends on what is given only.
LEMMA BeforeStays ==
    ASSUME UNCHANGED given
    PROVE  Before' = Before /\ AllObjects' = AllObjects /\ NumUrls' = NumUrls /\ Unit' = Unit
<1>1. NumUrls' = NumUrls /\ Unit' = Unit /\ Urls' = Urls
  BY DEF given, NumUrls, Unit, Urls
<1>2. \A u : Object(u)' = Object(u)
  BY DEF Object, given
<1>3. AllObjects' = AllObjects
  BY <1>1, <1>2 DEF AllObjects
<1> QED BY <1>1, <1>2, <1>3 DEF Before, IsBefore

\* Before the first URL there is no content.
LEMMA BeginsEmpty == RunnerTypeOK => Before[0] = <<>>
BY BeforeIsConcatenation DEF IsBefore

\* The concatenation at the URL of the job and one further.
LEMMA BeforeFacts ==
    ASSUME RunnerTypeOK
    PROVE  /\ url - 1 \in 0 .. NumUrls /\ url \in 0 .. NumUrls /\ (url + 1) - 1 = url
           /\ Before[url - 1] \in Seq(Unit)
           /\ Before[url] = Before[url - 1] \o Object(url)
           /\ Before[0] = <<>> /\ Before[NumUrls] = AllObjects
<1>1. url \in 1 .. NumUrls /\ NumUrls \in Nat /\ IsBefore(Before) /\ AllObjects = Before[NumUrls]
  BY RemoteIsTyped, BeforeIsConcatenation DEF RunnerTypeOK, Urls
<1>2. url \in Urls /\ url - 1 \in 0 .. NumUrls /\ url \in 0 .. NumUrls /\ (url + 1) - 1 = url
  BY <1>1 DEF Urls
<1> QED BY <1>1, <1>2 DEF IsBefore

\* While the command runs, its output is a beginning of the concatenation.
LEMMA OutputHasBegun == RunnerTypeOK /\ OutputPart /\ Alive => Begun
<1> SUFFICES ASSUME RunnerTypeOK, OutputPart, Alive PROVE Begun
  OBVIOUS
<1>1. CASE step \in {"start", "job", "open"}
  <2>1. out = Before[url - 1] /\ url - 1 \in 0 .. NumUrls
    BY <1>1, BeforeFacts DEF OutputPart
  <2> QED BY <2>1, BeforeIsPrefix DEF Begun
<1>2. CASE step \in {"stream", "copy"}
  <2>1. /\ out \in Seq(Unit) /\ rest \in Seq(Unit) /\ out \o rest = Before[url]
        /\ url \in 0 .. NumUrls
    BY <1>2, BeforeFacts DEF OutputPart, RunnerTypeOK
  <2>2. PICK left \in Seq(Unit) : Before[url] \o left = AllObjects
    BY <2>1, BeforeIsPrefix
  <2>3. rest \o left \in Seq(Unit) /\ out \o (rest \o left) = AllObjects
    <3>1. \A x, y, z \in Seq(Unit) : (x \o y) \o z = x \o (y \o z) /\ y \o z \in Seq(Unit)
      BY ConcatAssociative, ConcatProperties
    <3>2. (out \o rest) \o left = out \o (rest \o left) /\ rest \o left \in Seq(Unit)
      BY <2>1, <2>2, <3>1
    <3> QED BY <2>1, <2>2, <3>2
  <2> QED BY <2>3 DEF Begun
<1> QED BY <1>1, <1>2 DEF OutputPart, Alive, RunnerTypeOK, Steps

\* The output is empty at first.
LEMMA StdoutInit == RunnerInit => StdoutInv
<1> SUFFICES ASSUME RunnerInit PROVE StdoutInv
  OBVIOUS
<1>1. RunnerTypeOK
  BY RunnerTypeInit
<1>2. OutputPart
  BY <1>1, BeforeFacts DEF RunnerInit, OutputPart
<1>3. Begun
  BY <1>1, <1>2, OutputHasBegun DEF RunnerInit, Alive
<1> QED BY <1>2, <1>3 DEF StdoutInv, RunnerInit, NoCode, Success

\* Every unit written is the next of the concatenation, and a job ends with success only
\* when nothing of its object is left.
LEMMA StdoutStep ==
    RunnerTypeOK /\ Ledger /\ StdoutInv /\ [RunnerNext]_runnerVars => StdoutInv'
<1> SUFFICES ASSUME RunnerTypeOK, Ledger, StdoutInv, [RunnerNext]_runnerVars, Stdout'
             PROVE  OutputPart' /\ Begun' /\ (exit' = Success => out' = AllObjects')
  BY DEF StdoutInv
<1>1. RunnerTypeOK' /\ Ledger'
  BY RunnerTypeStep, LedgerStep
<1>2. plan' = plan /\ Stdout /\ plan.mode = "stdout" /\ ~plan.continue /\ ~Single
  <2>1. plan' = plan
    BY StepKinds DEF GoesOn, runnerVars, given, RunAgain, OpenFails
  <2> QED BY <2>1, RunnerAssumption DEF Stdout, Single, RunnerTypeOK, Accepted, Plan
<1>3. OutputPart /\ Begun /\ (exit = Success => out = AllObjects)
  BY <1>2 DEF StdoutInv
<1>4. ASSUME Alive', OutputPart'
      PROVE  Begun' /\ (exit' = Success => out' = AllObjects')
  <2>1. Begun'
    <3>1. (RunnerTypeOK /\ OutputPart /\ Alive => Begun)'
      BY OutputHasBegun, PTL
    <3> QED BY <1>1, <1>4, <3>1
  <2> QED BY <1>1, <1>4, <2>1 DEF Ledger, Alive, NoCode, Success
<1>5. CASE UNCHANGED runnerVars
  <2>1. Before' = Before /\ AllObjects' = AllObjects /\ Unit' = Unit
    BY <1>5, BeforeStays DEF runnerVars
  <2> QED BY <1>3, <1>5, <2>1 DEF runnerVars, OutputPart, Begun, locals
<1>6. CASE RunAgain
  <2>1. (RunnerTypeOK => Before[0] = <<>>)'
    BY BeginsEmpty, PTL
  <2>2. OutputPart'
    BY <1>1, <1>6, <2>1 DEF RunAgain, OutputPart
  <2> QED BY <1>4, <1>6, <2>2 DEF RunAgain, Alive
<1>7. ASSUME UNCHANGED given
      PROVE  Before' = Before /\ AllObjects' = AllObjects /\ NumUrls' = NumUrls /\ Unit' = Unit
  BY <1>7, BeforeStays
<1>8. /\ Before[url] = Before[url - 1] \o Object(url) /\ (url + 1) - 1 = url
      /\ Before[NumUrls] = AllObjects /\ Object(url) \in Seq(Unit)
      /\ Len(Object(url)) = remote[url].size
      /\ out \in Seq(Unit) /\ rest \in Seq(Unit)
  BY BeforeFacts, RemoteIsTyped DEF RunnerTypeOK
<1>9. ~DestExists /\ ~HasSidecar /\ ~NoClobberSkips /\ ~MayBeCurrent /\ ~Contiguous
  BY <1>2 DEF DestExists, HasSidecar, NoClobberSkips, MayBeCurrent, Contiguous
<1>10. ASSUME Alive, UNCHANGED given, UNCHANGED out, NEW code \in Nat, EndJob(code),
              code = Success => step \in {"stream", "copy"} /\ rest = <<>>
       PROVE  OutputPart' /\ Begun' /\ (exit' = Success => out' = AllObjects')
  <2>1. EndShape(code)
    BY <1>10, EndJobShape
  <2>2. CASE code # Success
    <3>1. step' = "over" /\ exit' # Success
      BY <1>2, <2>1, <2>2 DEF EndShape
    <3> QED BY <1>3, <1>7, <1>10, <3>1 DEF OutputPart, Begun
  <2>3. CASE code = Success
    <3>1. out = Before[url]
      <4>1. out \o <<>> = Before[url]
        BY <1>3, <1>10, <2>3 DEF OutputPart
      <4> QED BY <1>8, <4>1, ConcatEmptySeq
    <3>2. CASE step' = "job"
      <4>1. OutputPart'
        BY <1>2, <1>7, <1>8, <1>10, <2>1, <3>1, <3>2 DEF OutputPart, EndShape
      <4> QED BY <1>4, <3>2, <4>1 DEF Alive
    <3>3. CASE step' = "over"
      <4>1. out' = AllObjects'
        BY <1>7, <1>8, <1>10, <2>1, <2>3, <3>1, <3>3 DEF EndShape
      <4> QED BY <1>3, <1>7, <1>10, <3>3, <4>1 DEF OutputPart, Begun
    <3> QED BY <2>1, <3>2, <3>3 DEF EndShape
  <2> QED BY <2>2, <2>3
<1>11. /\ IOError \in Nat \ {Success} /\ NetworkFail \in Nat \ {Success}
       /\ ServerError \in Nat \ {Success} /\ Success \in Nat
  BY DEF IOError, NetworkFail, ServerError, Success
<1>12. CASE Open
  <2>1. OutputPart'
    BY <1>3, <1>7, <1>12 DEF Open, OutputPart
  <2> QED BY <1>4, <1>12, <2>1 DEF Open, Alive
<1>13. CASE OpenFails \/ Skip \/ StartChunks \/ ChunksRefused \/ AlreadyComplete
  BY <1>2, <1>9, <1>13 DEF OpenFails, Skip, StartChunks, ChunksRefused, AlreadyComplete, StartsChunks
<1>14. CASE ProbeFails
  BY <1>10, <1>11, <1>14 DEF ProbeFails, Alive
<1>15. CASE StartSequential
  <2>1. step' = "open" /\ handle' = "shared" /\ step = "job"
        /\ out' = out /\ url' = url /\ UNCHANGED given
    BY <1>2, <1>9, <1>15 DEF StartSequential
  <2>2. OutputPart'
    BY <1>3, <1>7, <2>1 DEF OutputPart
  <2> QED BY <1>4, <2>1, <2>2 DEF Alive
<1>16. CASE StartStream
  <2>1. step' = "stream" /\ rest' = Object(url) /\ step = "job"
        /\ out' = out /\ url' = url /\ UNCHANGED given
    BY <1>16 DEF StartStream
  <2>2. OutputPart'
    BY <1>3, <1>7, <1>8, <2>1 DEF OutputPart
  <2> QED BY <1>4, <2>1, <2>2 DEF Alive
<1>17. CASE (\E i \in 0 .. MaxSize - 1 : WriteChunk(i)) \/ ChunksDone \/ ChunksFail
  BY <1>3, <1>17 DEF OutputPart, WriteChunk, ChunksDone, ChunksFail
<1>18. ASSUME rest # <<>> PROVE Append(out, Head(rest)) \o Tail(rest) = out \o rest
  BY <1>8, <1>18
<1>19. CASE StreamUnit
  <2>1. step' = "stream" /\ step = "stream" /\ out' \o rest' = out \o rest
        /\ url' = url /\ UNCHANGED given
    BY <1>18, <1>19 DEF StreamUnit
  <2>2. OutputPart'
    BY <1>3, <1>7, <2>1 DEF OutputPart
  <2> QED BY <1>4, <2>1, <2>2 DEF Alive
<1>20. CASE StreamEnds
  BY <1>10, <1>11, <1>20 DEF StreamEnds, Alive
<1>21. CASE Request
  <2>1. Offset = 0 /\ handle = "shared"
    BY <1>3, <1>21 DEF Request, OutputPart, Offset, Shared
  <2>2. SubSeq(Object(url), 1, remote[url].size) = Object(url)
    BY <1>8, SubSeqFull
  <2>3. rest' = Object(url)
    BY <1>21, <2>1, <2>2 DEF Request, Body
  <2>4. step' = "copy" /\ handle' = "shared" /\ step = "open"
        /\ out' = out /\ url' = url /\ UNCHANGED given
    BY <1>21, <2>1 DEF Request
  <2>5. OutputPart'
    BY <1>3, <1>7, <1>8, <2>3, <2>4 DEF OutputPart
  <2> QED BY <1>4, <2>4, <2>5 DEF Alive
<1>22. CASE RequestFails
  BY <1>10, <1>11, <1>22 DEF RequestFails, Alive
<1>23. CASE CopyUnit
  <2>1. handle = "shared" /\ step = "copy"
    BY <1>3, <1>23 DEF CopyUnit, OutputPart
  <2>2. step' = "copy" /\ handle' = handle /\ out' \o rest' = out \o rest
        /\ url' = url /\ UNCHANGED given
    BY <1>2, <1>18, <1>23, <2>1 DEF CopyUnit, Shared
  <2>3. OutputPart'
    BY <1>3, <1>7, <2>1, <2>2 DEF OutputPart
  <2> QED BY <1>4, <2>1, <2>2, <2>3 DEF Alive
<1>24. CASE CopyDone
  BY <1>10, <1>11, <1>24 DEF CopyDone, Alive
<1>25. CASE CopyFails
  BY <1>10, <1>11, <1>25 DEF CopyFails, Alive
<1>26. CASE Kill
  <2>1. step' = "killed" /\ UNCHANGED <<given, out, exit>>
    BY <1>26 DEF Kill
  <2> QED BY <1>3, <1>7, <2>1 DEF OutputPart, Begun
<1> QED BY <1>5, <1>6, <1>12, <1>13, <1>14, <1>15, <1>16, <1>17, <1>19, <1>20, <1>21, <1>22, <1>23,
           <1>24, <1>25, <1>26
        DEF RunnerNext, Idle

\* Standard output carries a prefix of the concatenation at every moment, and all of it
\* when the command succeeds.
THEOREM StdoutIsExact == RunnerSpec => []StdoutIsConcatenation
<1>1. RunnerInit => StdoutInv
  BY StdoutInit
<1>2. RunnerTypeOK /\ Ledger /\ StdoutInv /\ [RunnerNext]_runnerVars => StdoutInv'
  BY StdoutStep
<1>3. RunnerInit => Ledger
  BY LedgerInit
<1>4. RunnerTypeOK /\ Ledger /\ [RunnerNext]_runnerVars => Ledger'
  BY LedgerStep
<1>5. RunnerTypeOK /\ StdoutInv => StdoutIsConcatenation
  <2> SUFFICES ASSUME RunnerTypeOK, StdoutInv, Stdout
               PROVE  IsPrefix(out, AllObjects) /\ (exit = Success => out = AllObjects)
    BY DEF StdoutIsConcatenation
  <2>1. PICK left \in Seq(Unit) : out \o left = AllObjects
    BY DEF StdoutInv, Begun
  <2>2. out \in Seq(Unit)
    BY DEF RunnerTypeOK
  <2>3. Len(out) <= Len(out \o left) /\ SubSeq(out, 1, Len(out)) = SubSeq(out \o left, 1, Len(out))
    BY <2>1, <2>2
  <2> QED BY <2>1, <2>3 DEF StdoutInv, IsPrefix
<1> QED BY <1>1, <1>2, <1>3, <1>4, <1>5, RunnerIsTyped, PTL DEF RunnerSpec

-----------------------------------------------------------------------------
(* One -O FILE *)

Plainly  == Single /\ PlainPlan /\ AllAlike /\ runs = 1
Parallel == \A u \in Urls : UseParallel(u)

\* The parallel jobs write from the base offset, the sequential ones where the handle of
\* Run stands: both are the end of the file.
AtEnd == IF Parallel THEN base = Len(data[1]) ELSE pos = Len(data[1])

\* The units of a parallel job follow the file as it was, each in its place.
ChunksPart ==
    /\ UseParallel(url) /\ resumed = {}
    /\ base = Len(Before[url - 1])
    /\ recorded[1] \subseteq UnitsOf(url)
    /\ base <= Len(data[1]) /\ Len(data[1]) <= base + remote[url].size
    /\ \A k \in 1 .. base : data[1][k] = Before[url - 1][k]
    /\ \A i \in recorded[1] : base + i < Len(data[1]) /\ data[1][base + i + 1] = <<url, i>>

ConcatPart ==
    /\ step # "stream"
    /\ Alive /\ step # "chunks" => recordedSize[1] = 0
    /\ step = "start" => base = 0 /\ pos = 0 /\ url = 1
    /\ step = "job" => data[1] = Before[url - 1] /\ AtEnd
    /\ step = "chunks" => ChunksPart
    /\ step \in {"open", "copy"} => ~UseParallel(url) /\ handle = "shared" /\ pos = Len(data[1])
    /\ step = "open" => data[1] = Before[url - 1]
    /\ step = "copy" => data[1] \o rest = Before[url]
    /\ exit = Success => data[1] = AllObjects

ConcatInv == Plainly => ConcatPart

\* Writing at the end of a file appends.
LEMMA PutAtEnd ==
    \A content \in Seq(Unit), unit \in Unit : Put(content, Len(content), unit) = Append(content, unit)
<1> TAKE content \in Seq(Unit), unit \in Unit
<1> DEFINE new == Put(content, Len(content), unit)
<1>1. /\ new \in Seq(Unit) /\ Len(new) = Len(content) + 1
      /\ \A k \in 1 .. Len(new) :
           new[k] = IF k = Len(content) + 1 THEN unit
                    ELSE IF k <= Len(content) THEN content[k] ELSE Hole
  <2>1. Len(content) \in Nat /\ ~(Len(content) < Len(content))
    OBVIOUS
  <2>2. OneWritten(new, content, Len(content), unit)
    BY <2>1, PutWritesOne, Zenon
  <2> HIDE DEF new
  <2> QED BY <2>1, <2>2 DEF OneWritten
<1>2. /\ Append(content, unit) \in Seq(Unit) /\ Len(Append(content, unit)) = Len(content) + 1
      /\ \A k \in 1 .. Len(content) : Append(content, unit)[k] = content[k]
      /\ Append(content, unit)[Len(content) + 1] = unit
  BY AppendProperties
<1> HIDE DEF new
<1>3. \A k \in 1 .. Len(new) : new[k] = Append(content, unit)[k]
  BY <1>1, <1>2
<1> QED BY <1>1, <1>2, <1>3, SeqEqual DEF new

\* All units recorded, the file is the old one and the object.
LEMMA ChunksFillTheGap ==
    ASSUME RunnerTypeOK, Single, ChunksPart, recorded[1] = UnitsOf(url)
    PROVE  data[1] = Before[url] /\ Len(data[1]) = base + remote[url].size
<1>1. /\ Before[url - 1] \in Seq(Unit) /\ Before[url] = Before[url - 1] \o Object(url)
      /\ Object(url) \in Seq(Unit) /\ Len(Object(url)) = remote[url].size
      /\ \A i \in UnitsOf(url) : Object(url)[i + 1] = <<url, i>>
      /\ remote[url].size \in Nat \ {0} /\ base \in Nat /\ base = Len(Before[url - 1])
  BY BeforeFacts, RemoteIsTyped DEF RunnerTypeOK, ChunksPart
<1>2. data[1] \in Seq(Unit)
  <2>1. 1 \in Urls
    BY RemoteIsTyped DEF Urls
  <2>2. data \in [Urls -> Seq(Unit)]
    BY Zenon DEF RunnerTypeOK
  <2> QED BY <2>1, <2>2, Zenon
<1> DEFINE n == remote[url].size
           whole == Before[url - 1] \o Object(url)
<1>3. UnitsOf(url) = 0 .. n - 1 /\ n \in Nat /\ n > 0 /\ n - 1 \in UnitsOf(url)
  BY <1>1 DEF UnitsOf
<1>4. /\ whole \in Seq(Unit) /\ Len(whole) = base + n
      /\ \A k \in 1 .. base + n : whole[k] = IF k <= base THEN Before[url - 1][k] ELSE Object(url)[k - base]
  <2> HIDE DEF n, whole
  <2>1. Before[url - 1] \in Seq(Unit) /\ Object(url) \in Seq(Unit)
    BY <1>1, Zenon
  <2>2. Len(Before[url - 1]) = base /\ Len(Object(url)) = n
    BY <1>1, Zenon DEF n
  <2>3. Joined(whole, Before[url - 1], Object(url))
    BY <2>1, UnitsJoin, Zenon DEF whole
  <2> QED BY <2>2, <2>3, Zenon DEF Joined
<1>5. base + (n - 1) < Len(data[1]) /\ Len(data[1]) <= base + n
  BY <1>3 DEF ChunksPart
<1>6. Len(data[1]) = base + n
  <2>1. base \in Nat /\ Len(data[1]) \in Nat
    BY <1>1, <1>2
  <2> HIDE DEF n
  <2> QED BY <1>3, <1>5, <2>1
<1>7. ASSUME NEW k \in 1 .. base + n PROVE data[1][k] = whole[k]
  <2>1. CASE k <= base
    BY <1>1, <1>4, <2>1 DEF ChunksPart
  <2>2. CASE k > base
    <3>1. k - base - 1 \in UnitsOf(url) /\ base + (k - base - 1) + 1 = k /\ (k - base - 1) + 1 = k - base
      <4>1. base \in Nat /\ n \in Nat
        BY <1>1, <1>3
      <4> HIDE DEF n
      <4> QED BY <1>3, <2>2, <4>1
    <3>2. data[1][k] = <<url, k - base - 1>>
      BY <3>1 DEF ChunksPart
    <3>3. Object(url)[k - base] = <<url, k - base - 1>>
      BY <1>1, <3>1
    <3>4. ~(k <= base)
      BY <1>1, <2>2
    <3>5. whole[k] = Object(url)[k - base]
      BY <1>4, <3>4, Zenon
    <3> QED BY <3>2, <3>3, <3>5, Zenon
  <2> QED BY <1>1, <2>1, <2>2
<1> HIDE DEF n, whole
<1>8. data[1] = whole
  BY <1>2, <1>4, <1>6, <1>7, SeqEqual
<1> QED BY <1>1, <1>6, <1>8 DEF n, whole

\* A run begins before the first URL.
LEMMA ConcatInit == RunnerInit => ConcatInv
<1> SUFFICES ASSUME RunnerInit PROVE ConcatPart
  BY DEF ConcatInv
<1>1. 1 \in Urls
  BY RunnerTypeInit, RemoteIsTyped DEF Urls
<1> QED BY <1>1 DEF RunnerInit, ConcatPart, NoCode, Success

\* A job begins at the end of the file and, if it succeeds, leaves its whole object there.
LEMMA ConcatStep ==
    RunnerTypeOK /\ Ledger /\ ConcatInv /\ [RunnerNext]_runnerVars => ConcatInv'
<1> SUFFICES ASSUME RunnerTypeOK, Ledger, ConcatInv, [RunnerNext]_runnerVars, Plainly'
             PROVE  ConcatPart'
  BY DEF ConcatInv
<1>1. UNCHANGED given
  BY StepKinds DEF Plainly, RunnerTypeOK, GoesOn, RunAgain, OpenFails, runnerVars
<1> USE <1>1
<1>2. /\ Before' = Before /\ AllObjects' = AllObjects /\ NumUrls' = NumUrls
      /\ (\A u \in Urls : UseParallel(u)' = UseParallel(u)) /\ Parallel' = Parallel
  BY BeforeStays DEF UseParallel, Parallel, given, Urls, NumUrls
<1>3. Plainly /\ ConcatPart
  BY DEF Plainly, ConcatInv, Single, PlainPlan, AllAlike, UseParallel, Urls, NumUrls, given
<1>4. /\ ~plan.noClobber /\ ~plan.timestamps /\ ~plan.continue /\ Single /\ plan.mode = "single"
      /\ ~Stdout /\ Dest = 1 /\ (UseParallel(url) => Parallel) /\ (Parallel => UseParallel(url))
  BY <1>3 DEF Plainly, PlainPlan, Single, Stdout, Dest, Name, AllAlike, Parallel, RunnerTypeOK
<1>5. /\ Before[url - 1] \in Seq(Unit) /\ Before[url] = Before[url - 1] \o Object(url)
      /\ Before[0] = <<>> /\ Before[NumUrls] = AllObjects /\ (url + 1) - 1 = url
      /\ Object(url) \in Seq(Unit) /\ Len(Object(url)) = remote[url].size
      /\ remote[url].size \in Nat \ {0}
  BY BeforeFacts, RemoteIsTyped DEF RunnerTypeOK
<1>6. /\ 1 \in Urls /\ data[1] \in Seq(Unit) /\ Len(data[1]) \in Nat /\ rest \in Seq(Unit)
      /\ pos \in Nat /\ base \in Nat /\ url \in Urls
      /\ DOMAIN data = Urls /\ DOMAIN recorded = Urls /\ DOMAIN recordedSize = Urls
  <2>1. 1 \in Urls
    BY RemoteIsTyped DEF Urls
  <2> QED BY <2>1 DEF RunnerTypeOK
<1>7. ~NoClobberSkips /\ ~MayBeCurrent /\ ~Contiguous
  BY <1>4 DEF NoClobberSkips, MayBeCurrent, Contiguous
<1>8. ASSUME step = "job"
      PROVE  /\ ~HasSidecar /\ ~StaleSidecar /\ Completed = {} /\ recordedSize[1] = 0
             /\ data[1] = Before[url - 1] /\ AtEnd
  BY <1>3, <1>4, <1>8 DEF ConcatPart, Alive, HasSidecar, StaleSidecar, Completed
<1>9. ASSUME Alive' PROVE exit' # Success
  <2>1. Ledger'
    BY LedgerStep
  <2> QED BY <1>9, <2>1 DEF Ledger, Alive, NoCode, Success
<1>10. ASSUME NEW code \in Nat, EndJob(code), UNCHANGED fileState,
              code = Success =>
                /\ data[1] = Before[url] /\ recordedSize'[1] = 0
                /\ IF Parallel THEN base' = Len(data[1]) ELSE pos = Len(data[1])
       PROVE  ConcatPart'
  <2>1. EndShape(code)
    BY <1>10, EndJobShape
  <2>2. CASE code # Success
    <3>1. step' = "over" /\ exit' # Success
      BY <1>4, <2>1, <2>2 DEF EndShape
    <3> QED BY <3>1 DEF ConcatPart, Alive
  <2>3. CASE code = Success
    <3>1. data'[1] = Before[url] /\ pos' = pos
      BY <1>10, <2>3 DEF fileState
    <3>2. CASE step' = "job"
      <4>1. url' = url + 1 /\ data'[1] = Before'[url' - 1]
        BY <1>2, <1>5, <2>1, <3>1, <3>2 DEF EndShape
      <4>2. AtEnd'
        BY <1>2, <1>10, <2>3, <3>1 DEF AtEnd
      <4> QED BY <1>9, <1>10, <2>3, <3>2, <4>1, <4>2 DEF ConcatPart, Alive
    <3>3. CASE step' = "over"
      <4>1. data'[1] = AllObjects'
        BY <1>2, <1>4, <1>5, <2>1, <2>3, <3>1, <3>3 DEF EndShape
      <4> QED BY <3>3, <4>1 DEF ConcatPart, Alive
    <3> QED BY <2>1, <3>2, <3>3 DEF EndShape
  <2> QED BY <2>2, <2>3
<1>11. /\ IOError \in Nat \ {Success} /\ NetworkFail \in Nat \ {Success}
       /\ ServerError \in Nat \ {Success} /\ Success \in Nat
  BY DEF IOError, NetworkFail, ServerError, Success
<1>12. CASE UNCHANGED runnerVars
  <2>1. UNCHANGED <<data, pos, base, recorded, recordedSize, url, step, handle, resumed, rest, exit,
                    remote>>
    BY <1>12 DEF runnerVars, fileState, sidecarState, locals, given
  <2>2. ChunksPart' = ChunksPart /\ AtEnd' = AtEnd /\ UseParallel(url)' = UseParallel(url)
    BY <1>2, <1>6, <2>1 DEF ChunksPart, AtEnd, UnitsOf
  <2> QED BY <1>2, <1>3, <2>1, <2>2 DEF ConcatPart, Alive
<1>13. CASE Open
  <2>1. /\ step = "start" /\ step' = "job" /\ data'[1] = <<>> /\ url' = 1 /\ base' = 0 /\ pos' = 0
        /\ recordedSize' = recordedSize /\ recordedSize[1] = 0
    BY <1>3, <1>4, <1>6, <1>13 DEF Open, ConcatPart, Alive, sidecarState
  <2>2. AtEnd'
    BY <2>1 DEF AtEnd
  <2>3. Before'[url' - 1] = <<>>
    BY <1>2, <1>5, <2>1
  <2> QED BY <1>9, <2>1, <2>2, <2>3 DEF ConcatPart, Alive
<1>14. CASE OpenFails
  BY <1>11, <1>14 DEF OpenFails, ConcatPart, Alive
<1>15. CASE Skip \/ StartStream
  BY <1>4, <1>7, <1>15 DEF Skip, StartStream
<1>16. CASE ProbeFails
  BY <1>10, <1>11, <1>16 DEF ProbeFails
<1>17. CASE StartSequential
  <2>1. step = "job" /\ ~UseParallel(url) /\ ~Parallel
    BY <1>4, <1>7, <1>17 DEF StartSequential
  <2>2. /\ step' = "open" /\ handle' = "shared" /\ data'[1] = data[1] /\ pos' = pos /\ url' = url
        /\ recordedSize'[1] = 0 /\ data[1] = Before[url - 1] /\ pos = Len(data[1])
    BY <1>4, <1>7, <1>8, <1>17, <2>1 DEF StartSequential, fileState, sidecarState, AtEnd
  <2> QED BY <1>2, <1>6, <1>9, <2>1, <2>2 DEF ConcatPart, Alive
<1>18. CASE StartChunks
  <2>1. step = "job" /\ UseParallel(url) /\ Parallel
    BY <1>4, <1>18 DEF StartChunks, StartsChunks
  <2>2. /\ step' = "chunks" /\ resumed' = {} /\ recorded'[1] = {} /\ data'[1] = data[1]
        /\ base' = base /\ url' = url /\ remote' = remote
        /\ data[1] = Before[url - 1] /\ base = Len(data[1])
    BY <1>4, <1>6, <1>8, <1>18, <2>1 DEF StartChunks, AtEnd, given
  <2>3. ChunksPart'
    BY <1>2, <1>5, <1>6, <2>1, <2>2 DEF ChunksPart
  <2> QED BY <1>9, <2>2, <2>3 DEF ConcatPart, Alive
<1>19. CASE ChunksRefused
  BY <1>10, <1>11, <1>19 DEF ChunksRefused
<1>20. CASE AlreadyComplete
  <2>1. 0 \in UnitsOf(url)
    BY <1>5 DEF UnitsOf
  <2> QED BY <1>8, <1>20, <2>1 DEF AlreadyComplete, StartsChunks
<1>21. ASSUME NEW i \in 0 .. MaxSize - 1, WriteChunk(i) PROVE ConcatPart'
  <2>1. ChunksPart /\ step' = "chunks" /\ i \in UnitsOf(url) /\ i \in Nat /\ i < remote[url].size
    BY <1>3, <1>5, <1>21 DEF WriteChunk, ConcatPart, UnitsOf
  <2> DEFINE new == Put(data[1], base + i, <<url, i>>)
  <2>2. /\ data'[1] = new /\ recorded'[1] = recorded[1] \cup {i}
        /\ base' = base /\ url' = url /\ remote' = remote /\ resumed' = resumed
    BY <1>4, <1>6, <1>21 DEF WriteChunk, locals, given
  <2>3. /\ Len(new) = IF base + i < Len(data[1]) THEN Len(data[1]) ELSE base + i + 1
        /\ \A k \in 1 .. Len(new) :
             new[k] = IF k = base + i + 1 THEN <<url, i>>
                      ELSE IF k <= Len(data[1]) THEN data[1][k] ELSE Hole
    <3>1. data[1] \in Seq(Unit) /\ base + i \in Nat /\ <<url, i>> \in Unit
      BY <1>6, <2>1 DEF Unit
    <3>2. OneWritten(new, data[1], base + i, <<url, i>>)
      BY <3>1, PutWritesOne, Zenon
    <3> QED BY <3>2, Zenon DEF OneWritten
  <2> HIDE DEF new
  <2>4. /\ base <= Len(new) /\ Len(new) <= base + remote[url].size
        /\ \A k \in 1 .. base : new[k] = Before[url - 1][k]
    <3>1. /\ base \in Nat /\ i \in Nat /\ remote[url].size \in Nat /\ Len(data[1]) \in Nat
          /\ base <= Len(data[1]) /\ Len(data[1]) <= base + remote[url].size
          /\ i < remote[url].size /\ Len(new) \in Nat
      BY <1>5, <1>6, <2>1, <2>3 DEF ChunksPart
    <3>2. base <= Len(new) /\ Len(new) <= base + remote[url].size
      BY <2>3, <3>1
    <3>3. ASSUME NEW k \in 1 .. base PROVE new[k] = Before[url - 1][k]
      <4>1. k \in 1 .. Len(new) /\ k # base + i + 1 /\ k <= Len(data[1])
        BY <3>1, <3>2
      <4>2. data[1][k] = Before[url - 1][k]
        BY <2>1 DEF ChunksPart
      <4> QED BY <2>3, <4>1, <4>2
    <3> QED BY <3>2, <3>3
  <2>5. ASSUME NEW j \in recorded[1] \cup {i}
        PROVE  base + j < Len(new) /\ new[base + j + 1] = <<url, j>>
    <3>1. j \in Nat
      BY <1>5, <2>1 DEF ChunksPart, UnitsOf
    <3>2. CASE j = i
      <4> DEFINE old == Len(data[1])
                 at == base + i
      <4>1. /\ at \in Nat /\ old \in Nat
            /\ Len(new) = IF at < old THEN old ELSE at + 1
        BY <1>6, <2>1, <2>3
      <4> HIDE DEF old, at
      <4>2. at < Len(new) /\ at + 1 \in 1 .. Len(new)
        BY <4>1
      <4>3. new[at + 1] = <<url, i>>
        BY <2>3, <4>2 DEF at
      <4> QED BY <3>2, <4>2, <4>3 DEF at
    <3>3. CASE j # i
      <4>1. base + j < Len(data[1]) /\ data[1][base + j + 1] = <<url, j>>
        BY <2>1, <3>3 DEF ChunksPart
      <4> DEFINE old == Len(data[1])
                 at == base + j
      <4>2. /\ at \in Nat /\ old \in Nat /\ at < old /\ at # base + i /\ base + i \in Nat
            /\ Len(new) = IF base + i < old THEN old ELSE base + i + 1
        BY <1>6, <2>1, <2>3, <3>1, <3>3, <4>1
      <4> HIDE DEF old, at
      <4>3. at < Len(new) /\ at + 1 \in 1 .. Len(new) /\ at + 1 # base + i + 1 /\ at + 1 <= old
        BY <4>2
      <4>4. new[at + 1] = data[1][at + 1]
        BY <2>3, <4>3 DEF old
      <4> QED BY <4>1, <4>3, <4>4 DEF at
    <3> QED BY <3>2, <3>3
  <2>6. ChunksPart'
    BY <1>2, <1>6, <2>1, <2>2, <2>4, <2>5 DEF ChunksPart, UnitsOf
  <2> QED BY <1>9, <2>1, <2>6 DEF ConcatPart, Alive
<1>22. CASE ChunksDone
  <2>1. ChunksPart /\ InOrder(resumed)
    BY <1>3, <1>22 DEF ChunksDone, ConcatPart, ChunksPart, InOrder
  <2>2. data[1] = Before[url] /\ base' = Len(data[1]) /\ Parallel
    BY <1>4, <1>22, <2>1, ChunksFillTheGap DEF ChunksDone, ChunksPart
  <2>3. recordedSize'[1] = 0
    BY <1>4, <1>6, <1>22 DEF ChunksDone, RemoveSidecar
  <2> QED BY <1>10, <1>11, <1>22, <2>2, <2>3 DEF ChunksDone
<1>23. CASE ChunksFail
  BY <1>10, <1>11, <1>23 DEF ChunksFail
<1>24. CASE StreamUnit \/ StreamEnds
  BY <1>3, <1>24 DEF StreamUnit, StreamEnds, ConcatPart
<1>25. CASE Request
  <2>1. /\ step = "open" /\ handle = "shared" /\ ~UseParallel(url) /\ pos = Len(data[1])
        /\ data[1] = Before[url - 1] /\ Offset = 0 /\ recordedSize[1] = 0
    BY <1>3, <1>25 DEF Request, ConcatPart, Offset, Shared, Alive
  <2>2. SubSeq(Object(url), 1, remote[url].size) = Object(url)
    BY <1>5, SubSeqFull
  <2>3. rest' = Object(url)
    BY <1>25, <2>1, <2>2 DEF Request, Body
  <2>4. /\ step' = "copy" /\ handle' = "shared" /\ data' = data /\ pos' = pos /\ url' = url
        /\ recordedSize'[1] = 0
    BY <1>25, <2>1 DEF Request, OpenDestination, Shared, sidecarState
  <2> QED BY <1>2, <1>5, <1>6, <1>9, <2>1, <2>3, <2>4 DEF ConcatPart, Alive
<1>26. CASE RequestFails
  <2>1. step = "open" /\ Shared
    BY <1>3, <1>26 DEF RequestFails, ConcatPart, Shared
  <2> QED BY <1>10, <1>11, <1>26, <2>1 DEF RequestFails, OpenDestination, fileState
<1>27. CASE CopyUnit
  <2>1. /\ step = "copy" /\ handle = "shared" /\ ~UseParallel(url) /\ pos = Len(data[1])
        /\ data[1] \o rest = Before[url] /\ recordedSize[1] = 0 /\ rest # <<>>
    BY <1>3, <1>27 DEF CopyUnit, ConcatPart, Alive
  <2>2. Head(rest) \in Unit
    BY <1>6, <2>1
  <2>3. data'[1] = Append(data[1], Head(rest)) /\ pos' = pos + 1
    BY <1>4, <1>6, <1>27, <2>1, <2>2, PutAtEnd DEF CopyUnit, Shared
  <2>4. data'[1] \o Tail(rest) = data[1] \o rest /\ pos' = Len(data'[1])
    <3>1. data[1] \in Seq(Unit) /\ rest \in Seq(Unit)
      BY <1>6
    <3>2. data'[1] \o Tail(rest) = data[1] \o rest
      BY <2>1, <2>3, <3>1, HeadMoves, Zenon
    <3>3. Len(data'[1]) = Len(data[1]) + 1
      BY <2>2, <2>3, <3>1
    <3> QED BY <2>1, <2>3, <3>2, <3>3
  <2>5. /\ step' = "copy" /\ handle' = "shared" /\ url' = url /\ rest' = Tail(rest)
        /\ recordedSize'[1] = 0
    BY <1>27, <2>1 DEF CopyUnit, sidecarState
  <2> QED BY <1>2, <1>6, <1>9, <2>1, <2>4, <2>5 DEF ConcatPart, Alive
<1>28. CASE CopyDone
  <2>1. /\ step = "copy" /\ ~Parallel /\ pos = Len(data[1]) /\ rest = <<>> /\ recordedSize[1] = 0
        /\ data[1] \o rest = Before[url]
    BY <1>3, <1>4, <1>28 DEF CopyDone, ConcatPart, Alive
  <2>2. data[1] = Before[url]
    BY <1>6, <2>1, ConcatEmptySeq
  <2> QED BY <1>10, <1>11, <1>28, <2>1, <2>2 DEF CopyDone, sidecarState
<1>29. CASE CopyFails
  BY <1>10, <1>11, <1>29 DEF CopyFails
<1>30. CASE Kill
  <2>1. step' = "killed" /\ exit' = exit /\ data' = data
    BY <1>30 DEF Kill, fileState
  <2> QED BY <1>2, <1>3, <2>1 DEF ConcatPart, Alive
<1>31. CASE RunAgain
  BY <1>31 DEF RunAgain, RunnerTypeOK, given
<1> QED BY <1>12, <1>13, <1>14, <1>15, <1>16, <1>17, <1>18, <1>19, <1>20, <1>21, <1>22, <1>23, <1>24,
           <1>25, <1>26, <1>27, <1>28, <1>29, <1>30, <1>31
        DEF RunnerNext, Idle

\* A first run into one -O FILE, all parallel or all sequential, leaves the concatenation.
THEOREM ConcatenationIsExactWhenAlike == RunnerSpec => []UniformConcatenationIsExact
<1>1. RunnerInit => ConcatInv
  BY ConcatInit
<1>2. RunnerTypeOK /\ Ledger /\ ConcatInv /\ [RunnerNext]_runnerVars => ConcatInv'
  BY ConcatStep
<1>3. RunnerInit => Ledger
  BY LedgerInit
<1>4. RunnerTypeOK /\ Ledger /\ [RunnerNext]_runnerVars => Ledger'
  BY LedgerStep
<1>5. ConcatInv => UniformConcatenationIsExact
  BY DEF ConcatInv, Plainly, ConcatPart, UniformConcatenationIsExact
<1> QED BY <1>1, <1>2, <1>3, <1>4, <1>5, RunnerIsTyped, PTL DEF RunnerSpec
===============================================================================
