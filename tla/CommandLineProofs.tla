-------------------------- MODULE CommandLineProofs --------------------------
(***************************************************************************)
(* For every command line, of any length, over any words: what the parser  *)
(* makes of it is its meaning, and a child in the background arrives at    *)
(* what its parent was asked to do.                                        *)
(*                                                                         *)
(* Meaning is defined by recursive functions over the places of the words. *)
(* The first parts prove what these compute, and how they change when the  *)
(* words "-b" are taken out.  The invariant of the parser then says that   *)
(* after each turn of its loop the words read so far have had their        *)
(* meaning; the child's part needs the reference reading only, twice.      *)
(***************************************************************************)
EXTENDS CommandLine, Integers, SequenceTheorems, WellFoundedInduction, TLAPS

-----------------------------------------------------------------------------
(* Induction and recursion *)

\* Every non-empty set of natural numbers has a least element.
LEMMA LeastElement ==
    ASSUME NEW T \in SUBSET Nat, T # {}
    PROVE  \E n \in T : \A m \in T : n <= m
<1>1. PICK n \in T : \A m \in T : ~(<<m, n>> \in OpToRel(<, Nat))
  BY NatLessThanWellFounded, WFMin
<1>2. \A m \in T : ~(m < n)
  BY <1>1 DEF OpToRel
<1> QED BY <1>2

\* Induction: a set with 0 and with every successor of a member holds every number.
LEMMA SetInduction ==
    ASSUME NEW P, 0 \in P, \A n \in Nat : n \in P => n + 1 \in P
    PROVE  Nat \subseteq P
<1> SUFFICES ASSUME Nat \ P # {} PROVE FALSE
  OBVIOUS
<1>1. PICK n \in Nat \ P : \A m \in Nat \ P : n <= m
  BY LeastElement
<1>2. n # 0 /\ n - 1 \in Nat /\ n - 1 \in P
  BY <1>1
<1>3. (n - 1) + 1 = n
  BY <1>1
<1> QED BY <1>1, <1>2, <1>3

\* h[0] .. h[n], each made from the one before by turn.
Chain(h, V, base, turn, n) ==
    /\ h \in [0 .. n -> V]
    /\ h[0] = base
    /\ \A j \in 1 .. n : h[j] = turn[<<j, h[j - 1]>>]

\* Such a chain exists, of any length.
LEMMA ChainExists ==
    ASSUME NEW V, NEW base \in V, NEW N \in Nat, NEW turn \in [(1 .. N) \X V -> V]
    PROVE  \E h : Chain(h, V, base, turn, N)
<1> DEFINE P == {n \in Nat : n <= N => \E h : Chain(h, V, base, turn, n)}
<1>1. 0 \in P
  <2>1. Chain([j \in 0 .. 0 |-> base], V, base, turn, 0)
    BY DEF Chain
  <2> QED BY <2>1
<1>2. ASSUME NEW n \in Nat, n \in P PROVE n + 1 \in P
  <2> SUFFICES ASSUME n + 1 <= N PROVE \E h : Chain(h, V, base, turn, n + 1)
    OBVIOUS
  <2>1. PICK h : Chain(h, V, base, turn, n)
    BY <1>2
  <2> DEFINE k == [j \in 0 .. n + 1 |-> IF j <= n THEN h[j] ELSE turn[<<n + 1, h[n]>>]]
  <2>2. <<n + 1, h[n]>> \in (1 .. N) \X V
    BY <2>1 DEF Chain
  <2>3. k[n + 1] = turn[<<n + 1, h[n]>>] /\ \A j \in 0 .. n : k[j] = h[j]
    OBVIOUS
  <2>4. k \in [0 .. n + 1 -> V] /\ k[0] = base
    BY <2>1, <2>2 DEF Chain
  <2> HIDE DEF k
  <2>5. \A j \in 1 .. n + 1 : k[j] = turn[<<j, k[j - 1]>>]
    <3> SUFFICES ASSUME NEW j \in 1 .. n + 1 PROVE k[j] = turn[<<j, k[j - 1]>>]
      OBVIOUS
    <3>1. k[j - 1] = h[j - 1]
      BY <2>3
    <3>2. CASE j <= n
      BY <2>1, <2>3, <3>1, <3>2 DEF Chain
    <3>3. CASE j = n + 1
      <4>1. j - 1 = n
        BY <3>3
      <4> QED BY <2>3, <3>3, <4>1
    <3>4. j <= n \/ j = n + 1
      OBVIOUS
    <3> QED BY <3>2, <3>3, <3>4
  <2>6. Chain(k, V, base, turn, n + 1)
    BY <2>4, <2>5 DEF Chain
  <2> QED BY <2>6
<1> HIDE DEF P
<1>3. Nat \subseteq P
  BY <1>1, <1>2, SetInduction
<1> QED BY <1>3 DEF P

-----------------------------------------------------------------------------
(* What the recursive functions compute *)

\* The partial results of Picked, by the number of places considered.
PickedTo(seq, places) ==
    CHOOSE upTo : upTo = [n \in 0 .. Len(seq) |->
        IF n = 0 THEN <<>>
        ELSE IF n \in places THEN Append(upTo[n - 1], seq[n])
        ELSE upTo[n - 1]]

\* Picked takes the elements one by one from the left.
LEMMA PickedStepwise ==
    ASSUME NEW T, NEW seq \in Seq(T), NEW places
    PROVE  /\ Picked(seq, places) = PickedTo(seq, places)[Len(seq)]
           /\ PickedTo(seq, places) \in [0 .. Len(seq) -> Seq(T)]
           /\ PickedTo(seq, places)[0] = <<>>
           /\ \A n \in 1 .. Len(seq) :
                PickedTo(seq, places)[n] =
                    IF n \in places THEN Append(PickedTo(seq, places)[n - 1], seq[n])
                    ELSE PickedTo(seq, places)[n - 1]
<1> DEFINE N == Len(seq)
           turn == [p \in (1 .. N) \X Seq(T) |->
                        IF p[1] \in places THEN Append(p[2], seq[p[1]]) ELSE p[2]]
           Next(f, n) == IF n = 0 THEN <<>>
                         ELSE IF n \in places THEN Append(f[n - 1], seq[n])
                         ELSE f[n - 1]
           Rec(f) == f = [n \in 0 .. N |-> Next(f, n)]
           all == CHOOSE f : Rec(f)
<1>1. N \in Nat /\ seq \in [1 .. N -> T]
  OBVIOUS
<1>2. turn \in [(1 .. N) \X Seq(T) -> Seq(T)]
  BY <1>1
<1>3. <<>> \in Seq(T)
  OBVIOUS
<1>4. PICK h : Chain(h, Seq(T), <<>>, turn, N)
  BY <1>1, <1>2, <1>3, ChainExists
<1>5. \A n \in 0 .. N : h[n] = Next(h, n)
  <2> SUFFICES ASSUME NEW n \in 0 .. N, n # 0 PROVE h[n] = Next(h, n)
    BY <1>4 DEF Chain
  <2>1. n \in 1 .. N /\ n - 1 \in 0 .. N
    BY <1>1
  <2>2. h[n] = turn[<<n, h[n - 1]>>] /\ h[n - 1] \in Seq(T)
    BY <1>4, <2>1 DEF Chain
  <2> QED BY <2>1, <2>2
<1>6. h \in [0 .. N -> Seq(T)]
  BY <1>4 DEF Chain
<1>7. Rec(h)
  BY <1>5, <1>6
<1>8. Rec(all)
  BY <1>7, Zenon
<1>9. PickedTo(seq, places) = all
  BY DEF PickedTo
<1>10. Picked(seq, places) = all[N]
  BY DEF Picked
<1> HIDE DEF all
<1>11. \A n \in 0 .. N : all[n] = Next(all, n)
  BY <1>8
<1> DEFINE P == {n \in Nat : n <= N => all[n] \in Seq(T)}
<1>12. 0 \in P
  <2>1. all[0] = <<>>
    BY <1>1, <1>11
  <2> QED BY <1>3, <2>1
<1>13. ASSUME NEW n \in Nat, n \in P PROVE n + 1 \in P
  <2> SUFFICES ASSUME n + 1 <= N PROVE all[n + 1] \in Seq(T)
    OBVIOUS
  <2>1. (n + 1) - 1 = n /\ n + 1 \in 1 .. N /\ n + 1 \in 0 .. N /\ n + 1 # 0 /\ n <= N
    BY <1>1
  <2>2. all[n] \in Seq(T) /\ seq[n + 1] \in T
    BY <1>1, <1>13, <2>1
  <2>3. all[n + 1] = IF n + 1 \in places THEN Append(all[n], seq[n + 1]) ELSE all[n]
    BY <1>11, <2>1
  <2> QED BY <2>2, <2>3
<1> HIDE DEF P
<1>14. Nat \subseteq P
  BY <1>12, <1>13, SetInduction
<1>15. all \in [0 .. N -> Seq(T)]
  <2>1. \A n \in 0 .. N : all[n] \in Seq(T)
    BY <1>1, <1>14 DEF P
  <2> HIDE DEF Next, N
  <2> QED BY <1>8, <2>1, Zenon
<1>16. all[0] = <<>>
  BY <1>1, <1>11
<1>17. ASSUME NEW n \in 1 .. N
       PROVE  all[n] = IF n \in places THEN Append(all[n - 1], seq[n]) ELSE all[n - 1]
  <2>1. n \in 0 .. N /\ n # 0
    BY <1>1
  <2> QED BY <1>11, <2>1
<1> QED BY <1>9, <1>10, <1>15, <1>16, <1>17

\* A separator among the first n words, and a word that takes the next one as its value.
Stops(words, n) == \E k \in 1 .. n : Roles(words)[k] = "separator"
Takes(words, j) == Roles(words)[j] = "options" /\ WantsNext(words[j])

\* The equation that defines Roles has a solution.
LEMMA RolesStepwise ==
    ASSUME NEW words \in Seq(Words)
    PROVE  /\ Roles(words)[0] = "none"
           /\ \A j \in 1 .. Len(words) :
                Roles(words)[j] = IF Takes(words, j - 1) THEN "value"
                                  ELSE IF Stops(words, j - 1) THEN "plain"
                                  ELSE words[j].form

<1> DEFINE N == Len(words)
           Forms == {"none", "value", "options", "plain", "separator", "dash", "unknown"}
           V == Forms \X {0, 1}
           Form(j, v) == IF v[1] = "options" /\ WantsNext(words[j - 1]) THEN "value"
                         ELSE IF v[2] = 1 THEN "plain"
                         ELSE words[j].form
           turn == [p \in (1 .. N) \X V |->
                       <<Form(p[1], p[2]), IF Form(p[1], p[2]) = "separator" THEN 1 ELSE p[2][2]>>]
           Next(f, j) == IF j = 0 THEN "none"
                         ELSE IF f[j - 1] = "options" /\ WantsNext(words[j - 1]) THEN "value"
                         ELSE IF \E k \in 1 .. j - 1 : f[k] = "separator" THEN "plain"
                         ELSE words[j].form
           Rec(f) == f = [j \in 0 .. N |-> Next(f, j)]
           all == CHOOSE f : Rec(f)
<1>1. N \in Nat /\ \A j \in 1 .. N : words[j].form \in Forms
  BY CommandAssumption
<1>2. turn \in [(1 .. N) \X V -> V]
  <2>1. ASSUME NEW j \in 1 .. N, NEW v \in V PROVE Form(j, v) \in Forms /\ v[2] \in {0, 1}
    BY <1>1
  <2> HIDE DEF Form, Forms
  <2>2. \A p \in (1 .. N) \X V : turn[p] \in V
    BY <2>1
  <2> QED BY <2>2
<1>3. <<"none", 0>> \in V
  OBVIOUS
<1>4. PICK h : Chain(h, V, <<"none", 0>>, turn, N)
  <2> HIDE DEF V, turn, N
  <2> QED BY <1>1, <1>2, <1>3, ChainExists
<1>5. /\ h \in [0 .. N -> V] /\ h[0] = <<"none", 0>>
      /\ \A j \in 1 .. N :
            /\ h[j][1] = Form(j, h[j - 1])
            /\ h[j][2] = IF h[j][1] = "separator" THEN 1 ELSE h[j - 1][2]
  <2>1. h \in [0 .. N -> V] /\ h[0] = <<"none", 0>>
    BY <1>4 DEF Chain
  <2> SUFFICES ASSUME NEW j \in 1 .. N
               PROVE  /\ h[j][1] = Form(j, h[j - 1])
                      /\ h[j][2] = IF h[j][1] = "separator" THEN 1 ELSE h[j - 1][2]
    BY <2>1
  <2>2. j - 1 \in 0 .. N
    BY <1>1
  <2>3. h[j] = turn[<<j, h[j - 1]>>] /\ h[j - 1] \in V
    BY <1>4, <2>1, <2>2 DEF Chain
  <2> HIDE DEF V, Form
  <2>4. h[j] = <<Form(j, h[j - 1]), IF Form(j, h[j - 1]) = "separator" THEN 1 ELSE h[j - 1][2]>>
    BY <2>3
  <2> QED BY <2>4
<1> HIDE DEF turn
<1> DEFINE Seen(j) == \E k \in 1 .. j : h[k][1] = "separator"
           P == {n \in Nat : n <= N => (h[n][2] = 1 <=> Seen(n))}
<1>6. 0 \in P
  BY <1>1, <1>5
<1>7. ASSUME NEW n \in Nat, n \in P PROVE n + 1 \in P
  <2> SUFFICES ASSUME n + 1 <= N PROVE h[n + 1][2] = 1 <=> Seen(n + 1)
    OBVIOUS
  <2>1. n + 1 \in 1 .. N /\ (n + 1) - 1 = n /\ n <= N
    BY <1>1
  <2>2. h[n + 1][2] = IF h[n + 1][1] = "separator" THEN 1 ELSE h[n][2]
    BY <1>5, <2>1
  <2>3. \A k \in 1 .. n + 1 : k \in 1 .. n \/ k = n + 1
    OBVIOUS
  <2>4. Seen(n + 1) <=> (Seen(n) \/ h[n + 1][1] = "separator")
    BY <2>3
  <2>5. h[n][2] = 1 <=> Seen(n)
    BY <1>7, <2>1
  <2> QED BY <2>2, <2>4, <2>5
<1> HIDE DEF P
<1>8. Nat \subseteq P
  BY <1>6, <1>7, SetInduction
<1> DEFINE role == [j \in 0 .. N |-> h[j][1]]
<1>9. \A j \in 0 .. N : role[j] = Next(role, j)
  <2>0. role[0] = "none"
    BY <1>1, <1>5
  <2> SUFFICES ASSUME NEW j \in 0 .. N, j # 0 PROVE role[j] = Next(role, j)
    BY <2>0
  <2>1. j \in 1 .. N /\ j - 1 \in 0 .. N /\ \A k \in 1 .. j - 1 : k \in 0 .. N
    BY <1>1
  <2>2. h[j - 1][2] = 1 <=> \E k \in 1 .. j - 1 : role[k] = "separator"
    <3>1. j - 1 \in P /\ j - 1 <= N
      BY <1>1, <1>8, <2>1
    <3>2. h[j - 1][2] = 1 <=> Seen(j - 1)
      BY <3>1 DEF P
    <3>3. \A k \in 1 .. j - 1 : role[k] = h[k][1]
      BY <2>1
    <3> QED BY <3>2, <3>3
  <2>3. role[j] = Form(j, h[j - 1]) /\ role[j - 1] = h[j - 1][1]
    BY <1>5, <2>1
  <2> HIDE DEF role
  <2> QED BY <2>2, <2>3
<1>10. Rec(role)
  BY <1>9
<1>11. Rec(all)
  BY <1>10
<1>12. Roles(words) = all
  BY DEF Roles
<1> HIDE DEF all
<1>13. \A j \in 0 .. N : all[j] = Next(all, j)
  BY <1>11
<1>14. \A j \in 1 .. N : j \in 0 .. N /\ j # 0
  BY <1>1
<1> QED BY <1>1, <1>12, <1>13, <1>14 DEF Stops, Takes

-----------------------------------------------------------------------------
(* Setting the options of a word *)

Value == Words \cup {NoWord, Number(1)} \cup {w.attached : w \in {v \in Words : v.form = "options"}}
Plans == [flags : SUBSET Flags, text : [Counts \cup Texts -> Value],
          log : {<<"stderr">>} \cup (Logs \X Value), lists : [Lists -> Seq(Value)]]

\* The kinds of options are disjoint.
LEMMA KindsOfOptions ==
    /\ \A o \in Flags : o \notin Logs \cup Lists \cup Counts \cup Texts
    /\ \A o \in Logs : o \notin Lists \cup Counts \cup Texts
    /\ \A o \in Lists : o \notin Counts \cup Texts
    /\ Option = Flags \cup Exits \cup Valued
    /\ Valued = Logs \cup Lists \cup Counts \cup Texts
    /\ \A o \in Exits : o \notin Flags \cup Valued
BY DEF Flags, Logs, Lists, Counts, Texts, Sizes, Times, Option, Valued, Exits

\* What one option sets, and that it sets nothing else.
LEMMA SetOptionSets ==
    ASSUME NEW p \in Plans, NEW o \in Flags \cup Valued, NEW v \in Value
    PROVE  LET q == SetOption(p, o, v)
           IN  /\ q \in Plans
               /\ q.flags = p.flags \cup ({o} \cap Flags)
               /\ \A x \in Counts \cup Texts : q.text[x] = IF x = o THEN v ELSE p.text[x]
               /\ q.log = IF o \in Logs THEN <<o, v>> ELSE p.log
               /\ \A x \in Lists : q.lists[x] = IF x = o THEN Append(p.lists[x], v) ELSE p.lists[x]
<1>1. CASE o \in Flags
  <2>1. SetOption(p, o, v) = [p EXCEPT !.flags = @ \cup {o}]
    BY <1>1, KindsOfOptions DEF SetOption
  <2> QED BY <1>1, <2>1, KindsOfOptions DEF Plans
<1>2. CASE o \in Logs
  <2>1. SetOption(p, o, v) = [p EXCEPT !.log = <<o, v>>]
    BY <1>2, KindsOfOptions DEF SetOption
  <2> QED BY <1>2, <2>1, KindsOfOptions DEF Plans
<1>3. CASE o \in Lists
  <2>1. SetOption(p, o, v) = [p EXCEPT !.lists[o] = Append(@, v)]
    BY <1>3, KindsOfOptions DEF SetOption
  <2> DEFINE q == SetOption(p, o, v)
             new == [p.lists EXCEPT ![o] = Append(@, v)]
  <2>2. p.lists \in [Lists -> Seq(Value)]
    BY DEF Plans
  <2>3. new \in [Lists -> Seq(Value)]
    BY <1>3, <2>2
  <2>4. \A x \in Lists : new[x] = IF x = o THEN Append(p.lists[x], v) ELSE p.lists[x]
    BY <1>3, <2>2
  <2>5. q = [p EXCEPT !.lists = new]
    BY <2>1 DEF Plans
  <2> HIDE DEF q, new
  <2>6. q \in Plans /\ q.flags = p.flags /\ q.text = p.text /\ q.log = p.log /\ q.lists = new
    BY <2>3, <2>5 DEF Plans
  <2> QED BY <1>3, <2>4, <2>6, KindsOfOptions DEF q
<1>4. CASE o \in Counts \cup Texts
  <2>1. SetOption(p, o, v) = [p EXCEPT !.text[o] = v]
    BY <1>4, KindsOfOptions DEF SetOption
  <2> DEFINE q == SetOption(p, o, v)
             new == [p.text EXCEPT ![o] = v]
  <2>2. p.text \in [Counts \cup Texts -> Value]
    BY DEF Plans
  <2>3. new \in [Counts \cup Texts -> Value]
    BY <1>4, <2>2
  <2>4. \A x \in Counts \cup Texts : new[x] = IF x = o THEN v ELSE p.text[x]
    BY <1>4, <2>2
  <2>5. q = [p EXCEPT !.text = new]
    BY <2>1 DEF Plans
  <2> HIDE DEF q, new
  <2>6. q \in Plans /\ q.flags = p.flags /\ q.text = new /\ q.log = p.log /\ q.lists = p.lists
    BY <2>3, <2>5 DEF Plans
  <2> QED BY <1>4, <2>4, <2>6, KindsOfOptions DEF q
<1> QED BY <1>1, <1>2, <1>3, <1>4, KindsOfOptions

\* The options of a word: flags, and then one more.
LEMMA OptionsOfAWord ==
    ASSUME NEW w \in Words, w.form = "options"
    PROVE  /\ w.options \in Seq(Option) /\ w.options # <<>>
           /\ Last(w.options) \in ToSet(w.options) /\ ToSet(w.options) \subseteq Option
           /\ ToSet(w.options) = ToSet(Front(w.options)) \cup {Last(w.options)}
           /\ ToSet(Front(w.options)) \subseteq Flags \cup Exits
<1> DEFINE s == w.options
           N == Len(s)
<1>1. /\ s \in Seq(Option) /\ s # <<>>
      /\ \A k \in 1 .. N - 1 : s[k] \notin Valued
  BY CommandAssumption
<1>2. N \in Nat /\ N # 0 /\ N \in 1 .. N /\ s \in [1 .. N -> Option] /\ DOMAIN s = 1 .. N
  BY <1>1
<1>3. Front(s) \in Seq(Option) /\ Len(Front(s)) = N - 1 /\ \A k \in 1 .. N - 1 : Front(s)[k] = s[k]
  BY <1>1, <1>2 DEF Front
<1>4. DOMAIN Front(s) = 1 .. N - 1
  BY <1>2, <1>3
<1>5. Last(s) = s[N]
  BY DEF Last
<1>6. \A k \in 1 .. N : k = N \/ k \in 1 .. N - 1
  BY <1>2
<1>7. \A k \in 1 .. N - 1 : k \in 1 .. N
  BY <1>2
<1> HIDE DEF s, N
<1>8. ToSet(s) = {s[k] : k \in 1 .. N} /\ ToSet(Front(s)) = {s[k] : k \in 1 .. N - 1}
  BY <1>2, <1>3, <1>4 DEF ToSet
<1>9. ToSet(s) = ToSet(Front(s)) \cup {Last(s)} /\ ToSet(s) \subseteq Option
  BY <1>2, <1>5, <1>6, <1>7, <1>8
<1>10. ToSet(Front(s)) \subseteq Flags \cup Exits
  BY <1>1, <1>2, <1>7, <1>8, KindsOfOptions DEF N
<1> QED BY <1>1, <1>9, <1>10 DEF s

\* Together they set the flags among them, and the value of the last one.
LEMMA SetAllSets ==
    ASSUME NEW p \in Plans, NEW w \in Words, w.form = "options", NEW v \in Value,
           ToSet(w.options) \cap Exits = {}
    PROVE  LET q == SetAll(p, w.options, v)
               set == ToSet(w.options)
           IN  /\ q \in Plans
               /\ q.flags = p.flags \cup (set \cap Flags)
               /\ \A x \in Counts \cup Texts : q.text[x] = IF x \in set THEN v ELSE p.text[x]
               /\ q.log = IF set \cap Logs # {} THEN <<Last(w.options), v>> ELSE p.log
               /\ \A x \in Lists : q.lists[x] = IF x \in set THEN Append(p.lists[x], v) ELSE p.lists[x]
<1> DEFINE last  == Last(w.options)
           front == ToSet(Front(w.options))
           set   == ToSet(w.options)
           r     == [p EXCEPT !.flags = @ \cup front]
           q     == SetOption(r, last, v)
<1>1. set = front \cup {last} /\ front \subseteq Flags /\ last \in Flags \cup Valued
  BY OptionsOfAWord, KindsOfOptions
<1>2. SetAll(p, w.options, v) = q
  BY DEF SetAll
<1> HIDE DEF front, last, set
<1>3. r \in Plans /\ r.flags = p.flags \cup front /\ r.text = p.text /\ r.log = p.log /\ r.lists = p.lists
  BY <1>1 DEF Plans
<1> HIDE DEF r
<1>4. /\ q \in Plans
      /\ q.flags = r.flags \cup ({last} \cap Flags)
      /\ \A x \in Counts \cup Texts : q.text[x] = IF x = last THEN v ELSE r.text[x]
      /\ q.log = IF last \in Logs THEN <<last, v>> ELSE r.log
      /\ \A x \in Lists : q.lists[x] = IF x = last THEN Append(r.lists[x], v) ELSE r.lists[x]
  BY <1>1, <1>3, SetOptionSets
<1> HIDE DEF q
<1>5. q.flags = p.flags \cup (set \cap Flags)
  BY <1>1, <1>3, <1>4
<1>6. \A x \in Counts \cup Texts \cup Lists \cup Logs : x \in set <=> x = last
  BY <1>1, KindsOfOptions
<1>7. set \cap Logs # {} <=> last \in Logs
  BY <1>6, <1>1
<1> QED BY <1>2, <1>3, <1>4, <1>5, <1>6, <1>7 DEF last, set

-----------------------------------------------------------------------------
(* The meaning of the first words *)

Upto(places, n) == {j \in places : j <= n}
UrlPlaces(words) == {j \in Places(words, "plain") : words[j] # Dash}

\* What the parser accepts at a place.
WellRead(words, j) ==
    /\ Roles(words)[j] # "unknown"
    /\ Roles(words)[j] = "options" =>
         /\ ToSet(words[j].options) \cap Exits = {}
         /\ WantsNext(words[j]) => j < Len(words)
         /\ \A o \in ToSet(words[j].options) : ValidValue(o, Given(words, j))

\* p is what the first n words say.
PlanTo(words, n, p) ==
    /\ p \in Plans
    /\ p.flags = {f \in Flags : Upto(Setting(words, {f}), n) # {}}
    /\ \A o \in Counts \cup Texts :
         p.text[o] = IF Upto(Setting(words, {o}), n) = {} THEN NoWord
                     ELSE Given(words, LastOf(Upto(Setting(words, {o}), n)))
    /\ p.log = IF Upto(Setting(words, Logs), n) = {} THEN <<"stderr">>
               ELSE LET j == LastOf(Upto(Setting(words, Logs), n))
                    IN  <<Last(words[j].options), Given(words, j)>>
    /\ \A o \in Lists : p.lists[o] = PickedTo(Values(words), Setting(words, {o}))[n]

\* One place further: it is the last one of a set, or adds nothing.
LEMMA UptoNext ==
    \A places \in SUBSET Nat : \A n \in Nat :
        /\ n \in places => /\ Upto(places, n) = Upto(places, n - 1) \cup {n}
                           /\ LastOf(Upto(places, n)) = n
        /\ n \notin places => Upto(places, n) = Upto(places, n - 1)
<1> TAKE places \in SUBSET Nat
<1> TAKE n \in Nat
<1>1. \A j \in places : j \in Nat /\ (j <= n <=> (j <= n - 1 \/ j = n))
  OBVIOUS
<1>2. ASSUME n \in places
      PROVE  Upto(places, n) = Upto(places, n - 1) \cup {n} /\ LastOf(Upto(places, n)) = n
  <2>1. n \in Upto(places, n) /\ \A j \in Upto(places, n) : j <= n /\ j \in Nat
    BY <1>2 DEF Upto
  <2>2. LastOf(Upto(places, n)) \in Upto(places, n) /\ n <= LastOf(Upto(places, n))
    BY <2>1 DEF LastOf
  <2>3. LastOf(Upto(places, n)) = n
    BY <2>1, <2>2
  <2> QED BY <1>1, <1>2, <2>3 DEF Upto
<1>3. n \notin places => Upto(places, n) = Upto(places, n - 1)
  BY <1>1 DEF Upto
<1> QED BY <1>2, <1>3

\* Nothing is at a place before the first, and everything before the end.
LEMMA UptoEnds ==
    \A N \in Nat : \A places \in SUBSET (1 .. N) : Upto(places, 0) = {} /\ Upto(places, N) = places
<1> TAKE N \in Nat
<1> TAKE places \in SUBSET (1 .. N)
<1>1. \A j \in places : j <= N /\ ~(j <= 0)
  OBVIOUS
<1> QED BY <1>1 DEF Upto

\* A finite set of places has a last one.
LEMMA LastIsThere ==
    ASSUME NEW N \in Nat, NEW places \in SUBSET (1 .. N), places # {}
    PROVE  LastOf(places) \in places /\ \A k \in places : k <= LastOf(places)
<1> DEFINE From == {n \in Nat : \E k \in places : N - k = n}
<1>1. From \in SUBSET Nat /\ From # {}
  <2>1. PICK k \in places : TRUE
    OBVIOUS
  <2>2. N - k \in Nat
    BY <2>1
  <2> QED BY <2>1, <2>2
<1>2. PICK n \in From : \A m \in From : n <= m
  BY <1>1, LeastElement
<1>3. PICK k \in places : N - k = n
  OBVIOUS
<1>4. ASSUME NEW l \in places PROVE l <= k
  <2>1. N - l \in From
    OBVIOUS
  <2>2. n <= N - l
    BY <1>2, <2>1
  <2> QED BY <1>3, <2>2
<1> QED BY <1>3, <1>4 DEF LastOf

\* The places that set an option.
LEMMA SettingPlaces ==
    ASSUME NEW words \in Seq(Words), NEW set
    PROVE  /\ Setting(words, set) \in SUBSET (1 .. Len(words))
           /\ \A j \in 1 .. Len(words) :
                j \in Setting(words, set)
                    <=> Roles(words)[j] = "options" /\ ToSet(words[j].options) \cap set # {}
BY DEF Setting, Places

\* They grow from left to right.
LEMMA SettingUpto ==
    ASSUME NEW words \in Seq(Words), NEW set, NEW n \in 1 .. Len(words)
    PROVE  LET places == Setting(words, set)
           IN  /\ n \in places => /\ Upto(places, n) = Upto(places, n - 1) \cup {n}
                                  /\ LastOf(Upto(places, n)) = n
               /\ n \notin places => Upto(places, n) = Upto(places, n - 1)
<1> DEFINE places == Setting(words, set)
<1>1. places \in SUBSET Nat /\ n \in Nat
  BY SettingPlaces
<1> HIDE DEF places
<1>2. /\ n \in places => /\ Upto(places, n) = Upto(places, n - 1) \cup {n}
                         /\ LastOf(Upto(places, n)) = n
      /\ n \notin places => Upto(places, n) = Upto(places, n - 1)
  BY <1>1, UptoNext
<1> QED BY <1>2 DEF places

\* The values of the words.
LEMMA GivenIsAValue ==
    ASSUME NEW words \in Seq(Words), NEW j \in 1 .. Len(words), Roles(words)[j] = "options"
    PROVE  /\ words[j] \in Words /\ words[j].form = "options"
           /\ Given(words, j) \in Value
           /\ WellRead(words, j) /\ Last(words[j].options) \in Valued => Given(words, j) # NoWord
<1>1. words[j] \in Words /\ (j < Len(words) => words[j + 1] \in Words)
  OBVIOUS
<1>2. words[j].form = "options"
  BY RolesStepwise
<1>3. \A w \in Words : w # NoWord
  BY CommandAssumption DEF NoWord
<1>4. ASSUME WellRead(words, j), Last(words[j].options) \in Valued PROVE Given(words, j) # NoWord
  BY <1>1, <1>3, <1>4 DEF WellRead, Given, ValueOf, WantsNext
<1> QED BY <1>1, <1>2, <1>4 DEF Given, ValueOf, Value

\* Every word has a value, which is none for most.
LEMMA ValuesAreTyped ==
    ASSUME NEW words \in Seq(Words)
    PROVE  Values(words) \in Seq(Value) /\ Len(Values(words)) = Len(words)
<1>1. \A j \in 1 .. Len(words) : words[j].form = "options" => Given(words, j) \in Value
  BY DEF Given, ValueOf, Value
<1>2. NoWord \in Value /\ Len(words) \in Nat
  BY DEF Value
<1> QED BY <1>1, <1>2 DEF Values

\* Before the first word the plan is the default one.
LEMMA NoWordsNoPlan ==
    ASSUME NEW words \in Seq(Words)
    PROVE  PlanTo(words, 0, DefaultPlan)
<1>1. \A set : Upto(Setting(words, set), 0) = {}
  BY SettingPlaces, UptoEnds
<1>2. \A o \in Lists : PickedTo(Values(words), Setting(words, {o}))[0] = <<>>
  BY ValuesAreTyped, PickedStepwise
<1>3. NoWord \in Value /\ <<>> \in Seq(Value)
  BY DEF Value
<1>4. DefaultPlan \in Plans
  BY <1>3 DEF DefaultPlan, Plans
<1> QED BY <1>1, <1>2, <1>4 DEF PlanTo, DefaultPlan

\* A word that is no option leaves the plan as it was.
LEMMA OtherWordsSetNothing ==
    ASSUME NEW words \in Seq(Words), NEW n \in 1 .. Len(words), NEW p, PlanTo(words, n - 1, p),
           Roles(words)[n] # "options"
    PROVE  PlanTo(words, n, p)
<1>1. \A set : n \notin Setting(words, set)
  BY SettingPlaces
<1>2. ASSUME NEW set PROVE Upto(Setting(words, set), n) = Upto(Setting(words, set), n - 1)
  BY <1>1, SettingUpto
<1>3. \A o \in Lists : PickedTo(Values(words), Setting(words, {o}))[n]
                         = PickedTo(Values(words), Setting(words, {o}))[n - 1]
  BY <1>1, ValuesAreTyped, PickedStepwise
<1> QED BY <1>2, <1>3 DEF PlanTo

\* A word of options adds what it says.
LEMMA OptionsSetTheirs ==
    ASSUME NEW words \in Seq(Words), NEW n \in 1 .. Len(words), NEW p, PlanTo(words, n - 1, p),
           Roles(words)[n] = "options", ToSet(words[n].options) \cap Exits = {}
    PROVE  PlanTo(words, n, SetAll(p, words[n].options, Given(words, n)))
<1> DEFINE w == words[n]
           v == Given(words, n)
           set == ToSet(w.options)
           q == SetAll(p, w.options, v)
<1>1. w \in Words /\ w.form = "options" /\ v \in Value
  BY GivenIsAValue
<1>2. \A x : n \in Setting(words, x) <=> set \cap x # {}
  BY SettingPlaces
<1>3. \A x : /\ set \cap x # {} => /\ Upto(Setting(words, x), n) = Upto(Setting(words, x), n - 1) \cup {n}
                                   /\ LastOf(Upto(Setting(words, x), n)) = n
             /\ set \cap x = {} => Upto(Setting(words, x), n) = Upto(Setting(words, x), n - 1)
  BY <1>2, SettingUpto
<1>4. Values(words)[n] = v
  BY <1>1 DEF Values
<1>5. \A o \in Lists : PickedTo(Values(words), Setting(words, {o}))[n]
                         = IF o \in set THEN Append(PickedTo(Values(words), Setting(words, {o}))[n - 1], v)
                           ELSE PickedTo(Values(words), Setting(words, {o}))[n - 1]
  BY <1>2, <1>4, ValuesAreTyped, PickedStepwise
<1>6. /\ q \in Plans
      /\ q.flags = p.flags \cup (set \cap Flags)
      /\ \A x \in Counts \cup Texts : q.text[x] = IF x \in set THEN v ELSE p.text[x]
      /\ q.log = IF set \cap Logs # {} THEN <<Last(w.options), v>> ELSE p.log
      /\ \A x \in Lists : q.lists[x] = IF x \in set THEN Append(p.lists[x], v) ELSE p.lists[x]
  <2>1. p \in Plans
    BY DEF PlanTo
  <2> QED BY <1>1, <2>1, SetAllSets
<1> HIDE DEF q, set, v
<1>7. q.flags = {f \in Flags : Upto(Setting(words, {f}), n) # {}}
  <2>1. ASSUME NEW f \in Flags
        PROVE  f \in q.flags <=> Upto(Setting(words, {f}), n) # {}
    <3>1. f \in q.flags <=> f \in p.flags \/ f \in set
      BY <1>6
    <3>2. f \in p.flags <=> Upto(Setting(words, {f}), n - 1) # {}
      BY DEF PlanTo
    <3>3. CASE set \cap {f} # {}
      <4>1. Upto(Setting(words, {f}), n) = Upto(Setting(words, {f}), n - 1) \cup {n}
        BY <1>3, <3>3, Zenon
      <4> QED BY <3>1, <3>3, <4>1
    <3>4. CASE set \cap {f} = {}
      <4>1. Upto(Setting(words, {f}), n) = Upto(Setting(words, {f}), n - 1)
        BY <1>3, <3>4, Zenon
      <4> QED BY <3>1, <3>2, <3>4, <4>1
    <3> QED BY <3>3, <3>4
  <2>2. q.flags \subseteq Flags
    BY <1>6 DEF Plans
  <2> QED BY <2>1, <2>2
<1>8. \A o \in Counts \cup Texts :
        q.text[o] = IF Upto(Setting(words, {o}), n) = {} THEN NoWord
                    ELSE Given(words, LastOf(Upto(Setting(words, {o}), n)))
  <2> SUFFICES ASSUME NEW o \in Counts \cup Texts
               PROVE  q.text[o] = IF Upto(Setting(words, {o}), n) = {} THEN NoWord
                                  ELSE Given(words, LastOf(Upto(Setting(words, {o}), n)))
    OBVIOUS
  <2>1. q.text[o] = IF o \in set THEN v ELSE p.text[o]
    BY <1>6, Zenon
  <2>2. p.text[o] = IF Upto(Setting(words, {o}), n - 1) = {} THEN NoWord
                    ELSE Given(words, LastOf(Upto(Setting(words, {o}), n - 1)))
    BY Zenon DEF PlanTo
  <2>3. CASE set \cap {o} # {}
    <3>1. /\ Upto(Setting(words, {o}), n) = Upto(Setting(words, {o}), n - 1) \cup {n}
          /\ LastOf(Upto(Setting(words, {o}), n)) = n
      BY <1>3, <2>3, Zenon
    <3>2. o \in set /\ Upto(Setting(words, {o}), n) # {}
      BY <2>3, <3>1
    <3> QED BY <2>1, <3>1, <3>2 DEF v
  <2>4. CASE set \cap {o} = {}
    <3>1. Upto(Setting(words, {o}), n) = Upto(Setting(words, {o}), n - 1)
      BY <1>3, <2>4, Zenon
    <3>2. o \notin set
      BY <2>4
    <3> QED BY <2>1, <2>2, <3>1, <3>2
  <2> QED BY <2>3, <2>4
<1>9. q.log = IF Upto(Setting(words, Logs), n) = {} THEN <<"stderr">>
              ELSE LET j == LastOf(Upto(Setting(words, Logs), n))
                   IN  <<Last(words[j].options), Given(words, j)>>
  <2>1. q.log = IF set \cap Logs # {} THEN <<Last(w.options), v>> ELSE p.log
    BY <1>6, Zenon
  <2>2. p.log = IF Upto(Setting(words, Logs), n - 1) = {} THEN <<"stderr">>
                ELSE LET j == LastOf(Upto(Setting(words, Logs), n - 1))
                     IN  <<Last(words[j].options), Given(words, j)>>
    BY Zenon DEF PlanTo
  <2>3. CASE set \cap Logs # {}
    <3>1. /\ Upto(Setting(words, Logs), n) = Upto(Setting(words, Logs), n - 1) \cup {n}
          /\ LastOf(Upto(Setting(words, Logs), n)) = n
      BY <1>3, <2>3, Zenon
    <3>2. Upto(Setting(words, Logs), n) # {}
      BY <3>1
    <3> QED BY <2>1, <2>3, <3>1, <3>2 DEF v
  <2>4. CASE set \cap Logs = {}
    <3>1. Upto(Setting(words, Logs), n) = Upto(Setting(words, Logs), n - 1)
      BY <1>3, <2>4, Zenon
    <3> QED BY <2>1, <2>2, <2>4, <3>1
  <2> QED BY <2>3, <2>4
<1>10. \A o \in Lists : q.lists[o] = PickedTo(Values(words), Setting(words, {o}))[n]
  <2> SUFFICES ASSUME NEW o \in Lists
               PROVE  q.lists[o] = PickedTo(Values(words), Setting(words, {o}))[n]
    OBVIOUS
  <2>1. q.lists[o] = IF o \in set THEN Append(p.lists[o], v) ELSE p.lists[o]
    BY <1>6, Zenon
  <2>2. p.lists[o] = PickedTo(Values(words), Setting(words, {o}))[n - 1]
    BY Zenon DEF PlanTo
  <2>3. PickedTo(Values(words), Setting(words, {o}))[n]
          = IF o \in set THEN Append(PickedTo(Values(words), Setting(words, {o}))[n - 1], v)
            ELSE PickedTo(Values(words), Setting(words, {o}))[n - 1]
    BY <1>5, Zenon
  <2> QED BY <2>1, <2>2, <2>3
<1>11. PlanTo(words, n, q)
  BY <1>6, <1>7, <1>8, <1>9, <1>10 DEF PlanTo
<1> QED BY <1>11 DEF q, v

-----------------------------------------------------------------------------
(* Reading the words one after another *)

\* The first n words have been read: st, us and p are what they mean.
ReadTo(words, n, st, us, p) ==
    /\ n \in 0 .. Len(words)
    /\ st \in BOOLEAN /\ (st <=> Stops(words, n))
    /\ us = PickedTo(words, UrlPlaces(words))[n]
    /\ PlanTo(words, n, p)
    /\ \A j \in 1 .. n : WellRead(words, j)

\* All of them, with those of an input file.
Meant(words, us, p) ==
    /\ us = Urls(words) \o (IF Setting(words, {"input-file"}) # {} THEN FileUrls ELSE <<>>)
    /\ PlanTo(words, Len(words), p)
    /\ \A j \in 1 .. Len(words) : WellRead(words, j)

\* And the plan was found to be consistent.
Accepted(words, us, p) ==
    \E q : Meant(words, us, q) /\ ~Contradictory(q) /\ p = Settled(q)

ReadingInv ==
    /\ args \in Seq(Words)
    /\ step = "parse" =>
         /\ i \in 1 .. Len(args) + 1
         /\ ~Takes(args, i - 1)
         /\ ReadTo(args, i - 1, stopped, urls, plan)
    /\ step = "validate" => Meant(args, urls, plan)
    /\ step \in {"accepted", "running"} => Accepted(args, urls, plan)

\* Before the first word.
LEMMA NothingRead ==
    ASSUME NEW words \in Seq(Words)
    PROVE  /\ 1 \in 1 .. Len(words) + 1 /\ ~Takes(words, 0)
           /\ ReadTo(words, 0, FALSE, <<>>, DefaultPlan)
<1>1. Len(words) \in Nat /\ 1 - 1 = 0 /\ 1 .. 0 = {}
  OBVIOUS
<1>2. ~Takes(words, 0)
  BY RolesStepwise DEF Takes
<1>3. ~Stops(words, 0)
  BY <1>1 DEF Stops
<1>4. PickedTo(words, UrlPlaces(words))[0] = <<>>
  BY PickedStepwise
<1>5. ReadTo(words, 0, FALSE, <<>>, DefaultPlan)
  BY <1>1, <1>3, <1>4, NoWordsNoPlan DEF ReadTo
<1>6. 1 \in 1 .. Len(words) + 1
  BY <1>1
<1> QED BY <1>2, <1>5, <1>6, Zenon

\* One word further.
LEMMA ReadOneMore ==
    ASSUME NEW words \in Seq(Words), NEW n \in 1 .. Len(words), NEW st, NEW us, NEW p, NEW q,
           ReadTo(words, n - 1, st, us, p), PlanTo(words, n, q), WellRead(words, n)
    PROVE  LET role == Roles(words)[n]
           IN  ReadTo(words, n, st \/ role = "separator",
                      IF role = "plain" /\ words[n] # Dash THEN Append(us, words[n]) ELSE us, q)
<1> DEFINE role == Roles(words)[n]
<1>1. /\ n \in 0 .. Len(words) /\ \A k \in 1 .. n : k \in 1 .. n - 1 \/ k = n
      /\ \A k \in 1 .. n - 1 : k \in 1 .. n
  OBVIOUS
<1>2. Stops(words, n) <=> (Stops(words, n - 1) \/ role = "separator")
  BY <1>1 DEF Stops
<1>3. n \in UrlPlaces(words) <=> (role = "plain" /\ words[n] # Dash)
  BY DEF UrlPlaces, Places
<1>4. PickedTo(words, UrlPlaces(words))[n]
        = IF n \in UrlPlaces(words) THEN Append(PickedTo(words, UrlPlaces(words))[n - 1], words[n])
          ELSE PickedTo(words, UrlPlaces(words))[n - 1]
  BY PickedStepwise
<1>5. \A j \in 1 .. n : WellRead(words, j)
  BY <1>1 DEF ReadTo
<1>6. st \in BOOLEAN /\ (st <=> Stops(words, n - 1)) /\ us = PickedTo(words, UrlPlaces(words))[n - 1]
  BY DEF ReadTo
<1>7. /\ (st \/ role = "separator") \in BOOLEAN
      /\ (st \/ role = "separator") <=> Stops(words, n)
  BY <1>2, <1>6
<1>8. PickedTo(words, UrlPlaces(words))[n]
        = IF role = "plain" /\ words[n] # Dash THEN Append(us, words[n]) ELSE us
  BY <1>3, <1>4, <1>6
<1> HIDE DEF role
<1> QED BY <1>1, <1>5, <1>7, <1>8 DEF ReadTo, role

\* The role of the word that the parser looks at.
LEMMA RoleOfTheNext ==
    ASSUME ReadingInv, step = "parse", i <= Len(args)
    PROVE  /\ i \in 1 .. Len(args) /\ args[i] \in Words /\ (i + 1) - 1 = i
           /\ Roles(args)[i] = IF stopped THEN "plain" ELSE args[i].form
           /\ ReadTo(args, i - 1, stopped, urls, plan)
<1>1. /\ args \in Seq(Words) /\ i \in 1 .. Len(args) + 1 /\ ~Takes(args, i - 1)
      /\ ReadTo(args, i - 1, stopped, urls, plan)
  BY DEF ReadingInv
<1>2. i \in 1 .. Len(args) /\ args[i] \in Words /\ (i + 1) - 1 = i
  BY <1>1
<1>3. Roles(args)[i] = IF Stops(args, i - 1) THEN "plain" ELSE args[i].form
  BY <1>1, <1>2, RolesStepwise
<1>4. stopped <=> Stops(args, i - 1)
  BY <1>1 DEF ReadTo
<1> QED BY <1>1, <1>2, <1>3, <1>4

\* A URL, or "-".
LEMMA PositionalReads == ReadingInv /\ Positional => ReadingInv'
<1> SUFFICES ASSUME ReadingInv, Positional PROVE ReadingInv'
  OBVIOUS
<1>1. /\ step = "parse" /\ i <= Len(args) /\ step' = "parse" /\ i' = i + 1
      /\ stopped \/ args[i].form \in {"plain", "dash"}
      /\ urls' = IF args[i] = Dash THEN urls ELSE Append(urls, args[i])
      /\ UNCHANGED <<args, stopped, plan>>
  BY DEF Positional
<1>2. /\ args \in Seq(Words) /\ i \in 1 .. Len(args) /\ args[i] \in Words /\ (i + 1) - 1 = i
      /\ Roles(args)[i] = IF stopped THEN "plain" ELSE args[i].form
      /\ ReadTo(args, i - 1, stopped, urls, plan)
  BY <1>1, RoleOfTheNext DEF ReadingInv
<1>3. Roles(args)[i] \in {"plain", "dash"} /\ (Roles(args)[i] = "dash" => args[i] = Dash)
  BY <1>1, <1>2, CommandAssumption
<1>4. WellRead(args, i) /\ ~Takes(args, i)
  BY <1>3 DEF WellRead, Takes
<1>5. PlanTo(args, i, plan)
  BY <1>2, <1>3, OtherWordsSetNothing DEF ReadTo
<1>6. ReadTo(args, i, stopped, urls', plan)
  <2>1. ReadTo(args, i, stopped \/ Roles(args)[i] = "separator",
               IF Roles(args)[i] = "plain" /\ args[i] # Dash THEN Append(urls, args[i]) ELSE urls, plan)
    BY <1>2, <1>4, <1>5, ReadOneMore
  <2>2. (stopped \/ Roles(args)[i] = "separator") = stopped
    BY <1>2, <1>3 DEF ReadTo
  <2>3. (IF Roles(args)[i] = "plain" /\ args[i] # Dash THEN Append(urls, args[i]) ELSE urls) = urls'
    BY <1>1, <1>3
  <2> QED BY <2>1, <2>2, <2>3
<1>7. i' \in 1 .. Len(args) + 1 /\ i' - 1 = i
  BY <1>1, <1>2
<1> QED BY <1>1, <1>2, <1>4, <1>6, <1>7 DEF ReadingInv

\* "--".
LEMMA StopReads == ReadingInv /\ StopOptions => ReadingInv'
<1> SUFFICES ASSUME ReadingInv, StopOptions PROVE ReadingInv'
  OBVIOUS
<1>1. /\ step = "parse" /\ i <= Len(args) /\ step' = "parse" /\ i' = i + 1
      /\ ~stopped /\ args[i].form = "separator" /\ stopped' = TRUE
      /\ UNCHANGED <<args, urls, plan>>
  BY DEF StopOptions, Looking
<1>2. /\ args \in Seq(Words) /\ i \in 1 .. Len(args) /\ args[i] \in Words /\ (i + 1) - 1 = i
      /\ Roles(args)[i] = "separator"
      /\ ReadTo(args, i - 1, stopped, urls, plan)
  BY <1>1, RoleOfTheNext DEF ReadingInv
<1>3. WellRead(args, i) /\ ~Takes(args, i)
  BY <1>2 DEF WellRead, Takes
<1>4. PlanTo(args, i, plan)
  BY <1>2, OtherWordsSetNothing DEF ReadTo
<1>5. ReadTo(args, i, stopped', urls, plan)
  <2>1. ReadTo(args, i, stopped \/ Roles(args)[i] = "separator",
               IF Roles(args)[i] = "plain" /\ args[i] # Dash THEN Append(urls, args[i]) ELSE urls, plan)
    BY <1>2, <1>3, <1>4, ReadOneMore
  <2>2. (stopped \/ Roles(args)[i] = "separator") = stopped'
    BY <1>1, <1>2
  <2>3. (IF Roles(args)[i] = "plain" /\ args[i] # Dash THEN Append(urls, args[i]) ELSE urls) = urls
    BY <1>2
  <2> QED BY <2>1, <2>2, <2>3
<1>6. i' \in 1 .. Len(args) + 1 /\ i' - 1 = i
  BY <1>1, <1>2
<1> QED BY <1>1, <1>2, <1>3, <1>5, <1>6 DEF ReadingInv

\* A group of options, with the next word if the last one wants it.
LEMMA OptionsRead == ReadingInv /\ ReadOptions => ReadingInv'
<1> SUFFICES ASSUME ReadingInv, ReadOptions PROVE ReadingInv'
  OBVIOUS
<1> DEFINE w == args[i]
           v == Given(args, i)
           q == SetAll(plan, w.options, v)
<1>1. /\ step = "parse" /\ i <= Len(args) /\ step' = "parse"
      /\ ~stopped /\ w.form = "options"
      /\ ToSet(w.options) \cap Exits = {}
      /\ WantsNext(w) => i < Len(args)
      /\ \A o \in ToSet(w.options) : ValidValue(o, v)
      /\ plan' = q
      /\ i' = IF WantsNext(w) THEN i + 2 ELSE i + 1
      /\ UNCHANGED <<args, stopped, urls>>
  BY DEF ReadOptions, Looking, Given
<1> HIDE DEF v
<1>2. /\ args \in Seq(Words) /\ i \in 1 .. Len(args) /\ w \in Words
      /\ Roles(args)[i] = "options"
      /\ ReadTo(args, i - 1, stopped, urls, plan)
  BY <1>1, RoleOfTheNext DEF ReadingInv
<1>3. WellRead(args, i)
  BY <1>1, <1>2 DEF WellRead, v
<1>4. PlanTo(args, i, q)
  <2>1. PlanTo(args, i - 1, plan)
    BY <1>2 DEF ReadTo
  <2> QED BY <1>1, <1>2, <2>1, OptionsSetTheirs DEF v
<1> HIDE DEF q
<1>5. ReadTo(args, i, stopped, urls, q)
  <2>1. ReadTo(args, i, stopped \/ Roles(args)[i] = "separator",
               IF Roles(args)[i] = "plain" /\ args[i] # Dash THEN Append(urls, args[i]) ELSE urls, q)
    BY <1>2, <1>3, <1>4, ReadOneMore
  <2>2. (stopped \/ Roles(args)[i] = "separator") = stopped
    BY <1>2 DEF ReadTo
  <2>3. (IF Roles(args)[i] = "plain" /\ args[i] # Dash THEN Append(urls, args[i]) ELSE urls) = urls
    BY <1>2
  <2> QED BY <2>1, <2>2, <2>3
<1>6. CASE ~WantsNext(w)
  <2>1. ~Takes(args, i)
    BY <1>6 DEF Takes
  <2>2. i' \in 1 .. Len(args) + 1 /\ i' - 1 = i
    BY <1>1, <1>2, <1>6
  <2> QED BY <1>1, <1>2, <1>5, <2>1, <2>2 DEF ReadingInv
<1>7. CASE WantsNext(w)
  <2> DEFINE n == i + 1
  <2>1. n \in 1 .. Len(args) /\ n - 1 = i /\ i' \in 1 .. Len(args) + 1 /\ i' - 1 = n
    BY <1>1, <1>2, <1>7
  <2> HIDE DEF n
  <2>2. Roles(args)[n] = "value"
    BY <1>2, <1>7, <2>1, RolesStepwise DEF Takes
  <2>3. WellRead(args, n) /\ ~Takes(args, n)
    BY <2>2 DEF WellRead, Takes
  <2>4. PlanTo(args, n, q)
    BY <1>2, <1>4, <2>1, <2>2, OtherWordsSetNothing
  <2>5. ReadTo(args, n - 1, stopped, urls, q)
    BY <1>5, <2>1
  <2>6. ReadTo(args, n, stopped \/ Roles(args)[n] = "separator",
               IF Roles(args)[n] = "plain" /\ args[n] # Dash THEN Append(urls, args[n]) ELSE urls, q)
    BY <1>2, <2>1, <2>3, <2>4, <2>5, ReadOneMore
  <2>7. (stopped \/ Roles(args)[n] = "separator") = stopped
    BY <1>2, <2>2 DEF ReadTo
  <2>8. (IF Roles(args)[n] = "plain" /\ args[n] # Dash THEN Append(urls, args[n]) ELSE urls) = urls
    BY <2>2
  <2>9. ReadTo(args, n, stopped, urls, q)
    BY <2>6, <2>7, <2>8
  <2> QED BY <1>1, <1>2, <2>1, <2>3, <2>9 DEF ReadingInv
<1> QED BY <1>6, <1>7

\* The end of the words, and of the input file.
LEMMA EndReads == ReadingInv /\ EndParse => ReadingInv'
<1> SUFFICES ASSUME ReadingInv, EndParse, step' = "validate" PROVE ReadingInv'
  BY DEF EndParse, Exit, ReadingInv
<1>1. /\ step = "parse" /\ i > Len(args)
      /\ urls' = IF plan.text["input-file"] = NoWord THEN urls ELSE urls \o FileUrls
      /\ UNCHANGED <<args, plan>>
  BY DEF EndParse, Exit
<1> DEFINE N == Len(args)
           set == Setting(args, {"input-file"})
<1>2. args \in Seq(Words) /\ N \in Nat /\ i - 1 = N /\ ReadTo(args, N, stopped, urls, plan)
  BY <1>1 DEF ReadingInv
<1>3. urls = Urls(args) /\ urls \in Seq(Words)
  <2>1. N \in 0 .. N
    BY <1>2
  <2> QED BY <1>2, <2>1, PickedStepwise DEF ReadTo, Urls, UrlPlaces
<1>4. plan.text["input-file"] = IF set = {} THEN NoWord ELSE Given(args, LastOf(set))
  <2>1. "input-file" \in Texts
    BY DEF Texts
  <2>2. set \in SUBSET (1 .. N) /\ Upto(set, N) = set
    BY <1>2, SettingPlaces, UptoEnds
  <2> QED BY <1>2, <2>1, <2>2 DEF ReadTo, PlanTo
<1>5. ASSUME set # {} PROVE Given(args, LastOf(set)) # NoWord
  <2>1. set \in SUBSET (1 .. N)
    BY <1>2, SettingPlaces
  <2>2. LastOf(set) \in set
    BY <1>2, <1>5, <2>1, LastIsThere
  <2>3. LastOf(set) \in 1 .. N /\ WellRead(args, LastOf(set))
    BY <1>2, <2>1, <2>2 DEF ReadTo
  <2>4. Roles(args)[LastOf(set)] = "options" /\ "input-file" \in ToSet(args[LastOf(set)].options)
    BY <1>2, <2>2, <2>3, SettingPlaces
  <2>5. Last(args[LastOf(set)].options) \in Valued
    <3>1. args[LastOf(set)] \in Words /\ args[LastOf(set)].form = "options"
      BY <1>2, <2>3, <2>4, GivenIsAValue
    <3>2. "input-file" \in Texts
      BY DEF Texts
    <3> DEFINE options == args[LastOf(set)].options
    <3>3. /\ ToSet(options) = ToSet(Front(options)) \cup {Last(options)}
          /\ ToSet(Front(options)) \subseteq Flags \cup Exits
      BY <3>1, OptionsOfAWord, Zenon
    <3>4. "input-file" \in Valued /\ "input-file" \notin Flags \cup Exits
      BY <3>2, KindsOfOptions
    <3>5. "input-file" \in ToSet(options)
      BY <2>4
    <3> HIDE DEF options
    <3>6. Last(options) = "input-file"
      BY <3>3, <3>4, <3>5
    <3> QED BY <3>4, <3>6 DEF options
  <2> QED BY <1>2, <2>3, <2>4, <2>5, GivenIsAValue
<1> HIDE DEF set
<1>6. urls' = Urls(args) \o (IF set # {} THEN FileUrls ELSE <<>>)
  <2>1. \A s \in Seq(Words) : s \o <<>> = s
    BY ConcatEmptySeq
  <2> QED BY <1>1, <1>3, <1>4, <1>5, <2>1
<1>7. Meant(args, urls', plan)
  BY <1>2, <1>6 DEF Meant, ReadTo, set
<1> QED BY <1>1, <1>2, <1>7 DEF ReadingInv

\* The parser starts with nothing read.
LEMMA ReadingInit == CommandInit => ReadingInv
<1> SUFFICES ASSUME CommandInit PROVE ReadingInv
  OBVIOUS
<1>1. args \in Seq(Words)
  BY DEF CommandInit
<1>2. i = 1 /\ i - 1 = 0 /\ stopped = FALSE /\ urls = <<>> /\ plan = DefaultPlan /\ step = "parse"
  BY DEF CommandInit
<1> QED BY <1>1, <1>2, NothingRead DEF ReadingInv

\* What is left of a command line is a command line.
LEMMA ChildArgsAreWords == \A words \in Seq(Words) : ChildArgs(words) \in Seq(Words)
<1> TAKE words \in Seq(Words)
<1> DEFINE kept == {j \in 1 .. Len(words) : words[j] \notin BackgroundWords}
<1>1. Len(words) \in 0 .. Len(words) /\ ChildArgs(words) = Picked(words, kept)
  BY DEF ChildArgs
<1> HIDE DEF kept
<1> QED BY <1>1, PickedStepwise

\* Every step of the command keeps what was read in agreement with its meaning.
LEMMA ReadingStep == ReadingInv /\ [CommandNext]_commandVars => ReadingInv'
<1> SUFFICES ASSUME ReadingInv, [CommandNext]_commandVars PROVE ReadingInv'
  OBVIOUS
<1>1. CASE Positional
  BY <1>1, PositionalReads
<1>2. CASE StopOptions
  BY <1>2, StopReads
<1>3. CASE ReadOptions
  BY <1>3, OptionsRead
<1>4. CASE EndParse
  BY <1>4, EndReads
<1>5. CASE UnknownOption \/ BadOption \/ ExitOption \/ DetachFails
  BY <1>5 DEF UnknownOption, BadOption, ExitOption, DetachFails, ParseError, Exit, ReadingInv
<1>6. CASE Validate
  BY <1>6 DEF Validate, Exit, ReadingInv, Accepted
<1>7. CASE Detach
  <2>1. /\ args' = ChildArgs(args) /\ i' = 1 /\ i' - 1 = 0 /\ stopped' = FALSE /\ urls' = <<>>
        /\ plan' = DefaultPlan /\ step' = "parse"
    BY <1>7 DEF Detach
  <2>2. args' \in Seq(Words)
    BY <2>1, ChildArgsAreWords DEF ReadingInv
  <2> QED BY <2>1, <2>2, NothingRead DEF ReadingInv
<1>8. CASE Run
  BY <1>8 DEF Run, Exit, ReadingInv
<1>9. CASE Idle \/ UNCHANGED commandVars
  BY <1>9 DEF Idle, ReadingInv, commandVars, ownVars
<1> QED BY <1>1, <1>2, <1>3, <1>4, <1>5, <1>6, <1>7, <1>8, <1>9 DEF CommandNext

\* Settling changes the number of connections and nothing else.
LEMMA SettledIsAPlan ==
    ASSUME NEW q \in Plans
    PROVE  /\ Settled(q) \in Plans
           /\ Settled(q).flags = q.flags /\ Settled(q).log = q.log /\ Settled(q).lists = q.lists
           /\ \A o \in (Counts \cup Texts) \ {"connections"} : Settled(q).text[o] = q.text[o]
<1>1. CASE "no-parallel" \notin q.flags
  BY <1>1 DEF Settled
<1>2. CASE "no-parallel" \in q.flags
  <2> DEFINE new == [q.text EXCEPT !["connections"] = Number(1)]
  <2>1. q.text \in [Counts \cup Texts -> Value] /\ Number(1) \in Value
    BY DEF Plans, Value
  <2>2. /\ new \in [Counts \cup Texts -> Value]
        /\ \A o \in (Counts \cup Texts) \ {"connections"} : new[o] = q.text[o]
    BY <2>1
  <2>3. Settled(q) = [q EXCEPT !.text = new]
    BY <1>2 DEF Settled, Plans
  <2> HIDE DEF new
  <2> QED BY <2>2, <2>3 DEF Plans
<1> QED BY <1>1, <1>2

\* All words read, every part of the plan is what the words mean.
LEMMA AllWordsMean ==
    ASSUME NEW words \in Seq(Words), NEW p, PlanTo(words, Len(words), p)
    PROVE  /\ p \in Plans
           /\ p.flags = {f \in Flags : Setting(words, {f}) # {}}
           /\ \A o \in Counts \cup Texts :
                p.text[o] = IF Setting(words, {o}) = {} THEN NoWord
                            ELSE Given(words, LastOf(Setting(words, {o})))
           /\ p.log = IF Setting(words, Logs) = {} THEN <<"stderr">>
                      ELSE LET j == LastOf(Setting(words, Logs))
                           IN  <<Last(words[j].options), Given(words, j)>>
           /\ \A o \in Lists : p.lists[o] = Picked(Values(words), Setting(words, {o}))
<1>1. ASSUME NEW set PROVE Upto(Setting(words, set), Len(words)) = Setting(words, set)
  <2> DEFINE places == Setting(words, set)
             N == Len(words)
  <2>1. places \in SUBSET (1 .. N) /\ N \in Nat
    BY SettingPlaces
  <2> HIDE DEF places, N
  <2>2. Upto(places, N) = places
    BY <2>1, UptoEnds
  <2> QED BY <2>2 DEF places, N
<1>2. \A places : PickedTo(Values(words), places)[Len(words)] = Picked(Values(words), places)
  BY ValuesAreTyped, PickedStepwise
<1> QED BY <1>1, <1>2 DEF PlanTo

\* The word-by-word reading arrives at the meaning of the command line.
THEOREM CommandLineIsReadAsMeant == CommandSpec => []ParsedAsMeant
<1>1. CommandInit => ReadingInv
  BY ReadingInit
<1>2. ReadingInv /\ [CommandNext]_commandVars => ReadingInv'
  BY ReadingStep
<1>3. ReadingInv => ParsedAsMeant
  <2> SUFFICES ASSUME ReadingInv, step \in {"accepted", "running"}
               PROVE  MeaningAgrees(args, plan, urls)
    BY DEF ParsedAsMeant
  <2>1. args \in Seq(Words) /\ Accepted(args, urls, plan)
    BY DEF ReadingInv
  <2>2. PICK q : Meant(args, urls, q) /\ plan = Settled(q)
    BY <2>1 DEF Accepted
  <2>3. PlanTo(args, Len(args), q)
    BY <2>2 DEF Meant
  <2>4. q \in Plans
    BY <2>1, <2>3, AllWordsMean
  <2>5. /\ plan.flags = q.flags /\ plan.log = q.log /\ plan.lists = q.lists
        /\ \A o \in (Counts \cup Texts) \ {"connections"} : plan.text[o] = q.text[o]
    BY <2>2, <2>4, SettledIsAPlan
  <2>6. /\ \A o \in Counts \cup Texts :
             q.text[o] = IF Setting(args, {o}) = {} THEN NoWord
                         ELSE Given(args, LastOf(Setting(args, {o})))
        /\ \A o \in Lists : q.lists[o] = Picked(Values(args), Setting(args, {o}))
    BY <2>1, <2>3, AllWordsMean
  <2>7. urls = Urls(args) \o (IF Setting(args, {"input-file"}) # {} THEN FileUrls ELSE <<>>)
    BY <2>2 DEF Meant
  <2>8. plan.flags = {f \in Flags : Setting(args, {f}) # {}}
    BY <2>1, <2>3, <2>5, AllWordsMean
  <2>9. \A o \in (Counts \cup Texts) \ {"connections"} :
          plan.text[o] = IF Setting(args, {o}) = {} THEN NoWord
                         ELSE Given(args, LastOf(Setting(args, {o})))
    BY <2>5, <2>6
  <2>10. plan.log = IF Setting(args, Logs) = {} THEN <<"stderr">>
                   ELSE LET j == LastOf(Setting(args, Logs))
                        IN  <<Last(args[j].options), Given(args, j)>>
    BY <2>1, <2>3, <2>5, AllWordsMean
  <2>11. \A o \in Lists : plan.lists[o] = Picked(Values(args), Setting(args, {o}))
    BY <2>5, <2>6
  <2> QED BY <2>7, <2>8, <2>9, <2>10, <2>11 DEF MeaningAgrees
<1> QED BY <1>1, <1>2, <1>3, PTL DEF CommandSpec

-----------------------------------------------------------------------------
(* One child at most *)

OneChild == process \in {"parent", "child"} /\ children = IF process = "parent" THEN 0 ELSE 1

\* A child does not detach again, whatever its words are.
THEOREM OneChildAtMost == CommandSpec => []DetachesOnce
<1>1. CommandInit => OneChild
  BY DEF CommandInit, OneChild
<1>2. OneChild /\ [CommandNext]_commandVars => OneChild'
  BY DEF OneChild, CommandNext, commandVars, ownVars, Positional, StopOptions, UnknownOption,
     ReadOptions, BadOption, ExitOption, EndParse, Validate, Detach, MustDetach, DetachFails, Run,
     Idle, ParseError
<1>3. OneChild => DetachesOnce
  BY DEF OneChild, DetachesOnce
<1> QED BY <1>1, <1>2, <1>3, PTL DEF CommandSpec

-----------------------------------------------------------------------------
(* What is left when elements are taken out *)

\* How many of the first n places were picked.
Picks(seq, places) == [n \in 0 .. Len(seq) |-> Len(PickedTo(seq, places)[n])]

\* Every place picked adds one element.
LEMMA PicksStepwise ==
    ASSUME NEW T, NEW seq \in Seq(T), NEW places
    PROVE  /\ Picks(seq, places) \in [0 .. Len(seq) -> Nat]
           /\ Picks(seq, places)[0] = 0
           /\ Picks(seq, places)[Len(seq)] = Len(Picked(seq, places))
           /\ \A n \in 1 .. Len(seq) :
                Picks(seq, places)[n] = IF n \in places THEN Picks(seq, places)[n - 1] + 1
                                        ELSE Picks(seq, places)[n - 1]
<1> DEFINE N == Len(seq)
           c == PickedTo(seq, places)
           pos == Picks(seq, places)
<1>1. /\ N \in Nat /\ seq \in [1 .. N -> T]
      /\ Picked(seq, places) = c[N] /\ c \in [0 .. N -> Seq(T)] /\ c[0] = <<>>
      /\ \A n \in 1 .. N : c[n] = IF n \in places THEN Append(c[n - 1], seq[n]) ELSE c[n - 1]
  BY PickedStepwise
<1>2. \A n \in 0 .. N : pos[n] = Len(c[n])
  BY DEF Picks
<1>3. pos \in [0 .. N -> Nat]
  BY <1>1 DEF Picks
<1> HIDE DEF c, pos
<1>4. pos[0] = 0 /\ pos[N] = Len(Picked(seq, places))
  BY <1>1, <1>2
<1>5. ASSUME NEW n \in 1 .. N
      PROVE  pos[n] = IF n \in places THEN pos[n - 1] + 1 ELSE pos[n - 1]
  <2>1. n \in 0 .. N /\ n - 1 \in 0 .. N
    BY <1>1
  <2>2. c[n - 1] \in Seq(T) /\ seq[n] \in T
    BY <1>1, <2>1
  <2>3. Len(Append(c[n - 1], seq[n])) = Len(c[n - 1]) + 1
    BY <2>2
  <2> QED BY <1>1, <1>2, <2>1, <2>3
<1> QED BY <1>3, <1>4, <1>5 DEF N, pos

\* Every element picked comes from one place, in order, and every place picked is there.
LEMMA PicksAreInOrder ==
    ASSUME NEW T, NEW seq \in Seq(T), NEW places
    PROVE  LET pos == Picks(seq, places)
               all == Picked(seq, places)
           IN  /\ \A j \in 1 .. Len(seq) : j \in places =>
                    pos[j] \in 1 .. Len(all) /\ all[pos[j]] = seq[j]
               /\ \A m \in 1 .. Len(all) : \E j \in 1 .. Len(seq) : j \in places /\ pos[j] = m
               /\ \A j, k \in 1 .. Len(seq) : k \in places /\ j < k => pos[j] < pos[k]
<1> DEFINE N == Len(seq)
           c == PickedTo(seq, places)
           pos == Picks(seq, places)
           Right(n) == /\ c[n] \in Seq(T) /\ Len(c[n]) = pos[n]
                       /\ \A j \in 1 .. n : j \in places => pos[j] \in 1 .. pos[n] /\ c[n][pos[j]] = seq[j]
                       /\ \A m \in 1 .. pos[n] : \E j \in 1 .. n : j \in places /\ pos[j] = m
                       /\ \A j \in 0 .. n : pos[j] <= pos[n]
           P == {n \in Nat : n <= N => Right(n)}
<1>1. /\ N \in Nat /\ seq \in [1 .. N -> T]
      /\ Picked(seq, places) = c[N] /\ c \in [0 .. N -> Seq(T)] /\ c[0] = <<>>
      /\ \A n \in 1 .. N : c[n] = IF n \in places THEN Append(c[n - 1], seq[n]) ELSE c[n - 1]
  BY PickedStepwise
<1>2. /\ pos \in [0 .. N -> Nat] /\ pos[0] = 0 /\ pos[N] = Len(Picked(seq, places))
      /\ \A n \in 1 .. N : pos[n] = IF n \in places THEN pos[n - 1] + 1 ELSE pos[n - 1]
  BY PicksStepwise
<1> HIDE DEF c, pos
<1>3. 0 \in P
  BY <1>1, <1>2
<1>4. ASSUME NEW n \in Nat, n \in P PROVE n + 1 \in P
  <2> SUFFICES ASSUME n + 1 <= N PROVE Right(n + 1)
    OBVIOUS
  <2> DEFINE k == n + 1
  <2>1. /\ k \in 1 .. N /\ k - 1 = n /\ n <= N /\ n \in 0 .. N /\ k \in 0 .. N
        /\ \A j \in 1 .. k : j \in 1 .. n \/ j = k
        /\ \A j \in 0 .. k : j \in 0 .. n \/ j = k
        /\ \A j \in 1 .. n : j \in 1 .. k /\ j \in 0 .. N
        /\ k \in 1 .. k
    BY <1>1
  <2>2. Right(n)
    BY <1>4, <2>1
  <2> HIDE DEF k
  <2>3. CASE k \notin places
    <3>1. c[k] = c[n] /\ pos[k] = pos[n]
      BY <1>1, <1>2, <2>1, <2>3
    <3>2. Right(k)
      BY <1>2, <2>1, <2>2, <2>3, <3>1
    <3> QED BY <3>2 DEF k
  <2>4. CASE k \in places
    <3>1. c[k] = Append(c[n], seq[k]) /\ pos[k] = pos[n] + 1 /\ pos[n] \in Nat
      BY <1>1, <1>2, <2>1, <2>4
    <3>2. /\ c[k] \in Seq(T) /\ Len(c[k]) = pos[k]
          /\ c[k][pos[k]] = seq[k] /\ \A m \in 1 .. pos[n] : c[k][m] = c[n][m]
      <4>1. c[n] \in Seq(T) /\ seq[k] \in T /\ Len(c[n]) = pos[n]
        BY <1>1, <2>1, <2>2
      <4> QED BY <3>1, <4>1
    <3>3. \A j \in 1 .. k : j \in places => pos[j] \in 1 .. pos[k] /\ c[k][pos[j]] = seq[j]
      BY <2>1, <2>2, <3>1, <3>2
    <3>4. \A m \in 1 .. pos[k] : \E j \in 1 .. k : j \in places /\ pos[j] = m
      <4> SUFFICES ASSUME NEW m \in 1 .. pos[k] PROVE \E j \in 1 .. k : j \in places /\ pos[j] = m
        OBVIOUS
      <4>1. m \in 1 .. pos[n] \/ m = pos[k]
        BY <3>1
      <4> QED BY <2>1, <2>2, <2>4, <4>1
    <3>5. \A j \in 0 .. k : pos[j] <= pos[k]
      <4>1. \A j \in 0 .. n : pos[j] \in Nat /\ pos[j] <= pos[n]
        <5> SUFFICES ASSUME NEW j \in 0 .. n PROVE pos[j] \in Nat /\ pos[j] <= pos[n]
          OBVIOUS
        <5>1. j \in 0 .. N
          BY <1>1, <2>1
        <5> QED BY <1>2, <2>2, <5>1
      <4> QED BY <2>1, <3>1, <4>1
    <3>6. Right(k)
      BY <3>2, <3>3, <3>4, <3>5
    <3> QED BY <3>6 DEF k
  <2> QED BY <2>3, <2>4
<1>5. Nat \subseteq P
  <2> HIDE DEF P
  <2> QED BY <1>3, <1>4, SetInduction
<1>6. \A n \in 0 .. N : Right(n)
  <2>1. \A n \in 0 .. N : n \in Nat /\ n <= N
    BY <1>1
  <2> HIDE DEF Right, N
  <2> QED BY <1>5, <2>1
<1>7. Right(N)
  <2>1. N \in 0 .. N
    BY <1>1
  <2> HIDE DEF Right, N
  <2> QED BY <1>6, <2>1
<1>8. ASSUME NEW j \in 1 .. N, NEW k \in 1 .. N, k \in places, j < k PROVE pos[j] < pos[k]
  <2>1. k - 1 \in 0 .. N /\ j \in 0 .. k - 1
    BY <1>1, <1>8
  <2>2. pos[k - 1] \in Nat /\ pos[j] \in Nat
    <3>1. j \in 0 .. N
      BY <1>1
    <3> QED BY <1>2, <2>1, <3>1, Zenon
  <2>3. Right(k - 1)
    <3> HIDE DEF Right, N
    <3> QED BY <1>6, <2>1, Zenon
  <2>4. pos[j] <= pos[k - 1]
    BY <2>1, <2>3, Zenon
  <2>5. pos[k] = pos[k - 1] + 1
    BY <1>2, <1>8, Zenon
  <2> QED BY <2>2, <2>4, <2>5
<1> QED BY <1>1, <1>2, <1>7, <1>8 DEF pos

\* Where places of a sequence are in what was picked of it.
Moved(seq, kept, places) == {Picks(seq, kept)[j] : j \in places}

\* Places that are kept are found again, in the same order: the last of them is the last.
LEMMA MovedPlaces ==
    ASSUME NEW T, NEW seq \in Seq(T), NEW kept, NEW places \in SUBSET (kept \cap (1 .. Len(seq)))
    PROVE  /\ Moved(seq, kept, places) \in SUBSET (1 .. Len(Picked(seq, kept)))
           /\ \A j \in kept \cap (1 .. Len(seq)) :
                Picks(seq, kept)[j] \in Moved(seq, kept, places) <=> j \in places
           /\ Moved(seq, kept, places) = {} <=> places = {}
           /\ places # {} => LastOf(Moved(seq, kept, places)) = Picks(seq, kept)[LastOf(places)]
<1> DEFINE N == Len(seq)
           pos == Picks(seq, kept)
           M == Len(Picked(seq, kept))
           moved == Moved(seq, kept, places)
<1>1. /\ N \in Nat /\ pos \in [0 .. N -> Nat] /\ M = pos[N]
      /\ \A j \in 1 .. N : j \in 0 .. N
  BY PicksStepwise
<1>2. /\ \A j \in 1 .. N : j \in kept => pos[j] \in 1 .. M
      /\ \A j, k \in 1 .. N : k \in kept /\ j < k => pos[j] < pos[k]
  BY PicksAreInOrder
<1>3. moved = {pos[j] : j \in places} /\ places \in SUBSET (kept \cap (1 .. N))
  BY DEF Moved
<1>4. M \in Nat
  <2>1. N \in 0 .. N
    BY <1>1
  <2> QED BY <1>1, <2>1
<1> HIDE DEF pos, moved, M, N
<1>5. moved \in SUBSET (1 .. M)
  BY <1>2, <1>3
<1>6. ASSUME NEW j \in kept \cap (1 .. N), pos[j] \in moved PROVE j \in places
  <2>1. PICK k \in places : pos[j] = pos[k]
    BY <1>3, <1>6
  <2>2. j \in Nat /\ k \in Nat /\ k \in 1 .. N /\ k \in kept /\ pos[k] \in Nat
    BY <1>1, <1>3
  <2>3. ~(j < k) /\ ~(k < j)
    BY <1>2, <2>1, <2>2
  <2> QED BY <2>2, <2>3
<1>7. ASSUME places # {} PROVE LastOf(moved) = pos[LastOf(places)]
  <2>1. LastOf(places) \in places /\ \A k \in places : k <= LastOf(places)
    <3>1. places \in SUBSET (1 .. N)
      BY <1>3
    <3> QED BY <1>1, <1>7, <3>1, LastIsThere
  <2> DEFINE last == LastOf(places)
  <2> HIDE DEF last
  <2>2. last \in places /\ last \in 1 .. N /\ last \in kept /\ pos[last] \in moved /\ pos[last] \in Nat
    BY <1>1, <1>3, <2>1 DEF last
  <2>3. \A k \in places : pos[k] <= pos[last]
    <3> SUFFICES ASSUME NEW k \in places PROVE pos[k] <= pos[last]
      OBVIOUS
    <3>1. k \in 1 .. N /\ k <= last /\ k \in Nat /\ last \in Nat
      BY <1>1, <1>3, <2>1, <2>2 DEF last
    <3>2. k < last => pos[k] < pos[last]
      BY <1>2, <2>2, <3>1
    <3>3. pos[k] \in Nat
      BY <1>1, <3>1
    <3> QED BY <2>2, <3>1, <3>2, <3>3
  <2>4. \A m \in moved : m <= pos[last]
    BY <1>3, <2>3
  <2>5. LastOf(moved) \in moved /\ \A m \in moved : m <= LastOf(moved)
    BY <1>4, <1>5, <2>2, LastIsThere
  <2>6. LastOf(moved) \in Nat
    <3>1. LastOf(moved) \in 1 .. M
      BY <1>5, <2>5
    <3> QED BY <1>4, <3>1
  <2>7. LastOf(moved) = pos[last]
    BY <2>2, <2>4, <2>5, <2>6
  <2> QED BY <2>7 DEF last
<1> QED BY <1>3, <1>5, <1>6, <1>7 DEF pos, moved, M, N

\* Picking from what was picked is picking in the first place.
LEMMA PickedOfPicked ==
    ASSUME NEW T, NEW seq \in Seq(T), NEW kept, NEW places \in SUBSET (kept \cap (1 .. Len(seq))),
           NEW U, NEW s \in Seq(U), NEW t \in Seq(U),
           Len(s) = Len(seq), Len(t) = Len(Picked(seq, kept)),
           \A j \in places : t[Picks(seq, kept)[j]] = s[j]
    PROVE  Picked(t, Moved(seq, kept, places)) = Picked(s, places)
<1> DEFINE N == Len(seq)
           pos == Picks(seq, kept)
           moved == Moved(seq, kept, places)
           c == PickedTo(s, places)
           d == PickedTo(t, moved)
           P == {n \in Nat : n <= N => d[pos[n]] = c[n]}
<1>1. /\ N \in Nat /\ pos \in [0 .. N -> Nat] /\ pos[0] = 0 /\ pos[N] = Len(t)
      /\ \A n \in 1 .. N : pos[n] = IF n \in kept THEN pos[n - 1] + 1 ELSE pos[n - 1]
  BY PicksStepwise
<1>2. \A j \in 1 .. N : j \in kept => pos[j] \in 1 .. Len(t)
  BY PicksAreInOrder
<1>3. \A j \in kept \cap (1 .. N) : pos[j] \in moved <=> j \in places
  BY MovedPlaces
<1>4. /\ Picked(s, places) = c[N] /\ c[0] = <<>>
      /\ \A n \in 1 .. N : c[n] = IF n \in places THEN Append(c[n - 1], s[n]) ELSE c[n - 1]
  BY PickedStepwise
<1>5. /\ Picked(t, moved) = d[Len(t)] /\ d[0] = <<>>
      /\ \A n \in 1 .. Len(t) : d[n] = IF n \in moved THEN Append(d[n - 1], t[n]) ELSE d[n - 1]
  BY PickedStepwise
<1>6. places \in SUBSET (kept \cap (1 .. N)) /\ \A j \in places : t[pos[j]] = s[j]
  OBVIOUS
<1> HIDE DEF N, pos, moved, c, d
<1>7. 0 \in P
  BY <1>1, <1>4, <1>5
<1>8. ASSUME NEW n \in Nat, n \in P PROVE n + 1 \in P
  <2> SUFFICES ASSUME n + 1 <= N PROVE d[pos[n + 1]] = c[n + 1]
    OBVIOUS
  <2> DEFINE k == n + 1
  <2>1. k \in 1 .. N /\ k - 1 = n /\ n <= N /\ n \in 0 .. N
    BY <1>1
  <2> HIDE DEF k
  <2>2. d[pos[n]] = c[n] /\ pos[n] \in Nat
    BY <1>1, <1>8, <2>1
  <2>3. CASE k \notin kept
    <3>1. pos[k] = pos[n] /\ k \notin places
      BY <1>1, <1>6, <2>1, <2>3
    <3>2. d[pos[k]] = c[k]
      BY <1>4, <2>1, <2>2, <3>1
    <3> QED BY <3>2 DEF k
  <2>4. CASE k \in kept
    <3>1. pos[k] \in 1 .. Len(t) /\ pos[k] - 1 = pos[n] /\ (pos[k] \in moved <=> k \in places)
      BY <1>1, <1>2, <1>3, <2>1, <2>2, <2>4
    <3>2. d[pos[k]] = IF k \in places THEN Append(d[pos[n]], t[pos[k]]) ELSE d[pos[n]]
      BY <1>5, <3>1
    <3>3. c[k] = IF k \in places THEN Append(c[n], s[k]) ELSE c[n]
      BY <1>4, <2>1
    <3>4. k \in places => t[pos[k]] = s[k]
      BY <1>6
    <3>5. d[pos[k]] = c[k]
      BY <2>2, <3>2, <3>3, <3>4
    <3> QED BY <3>5 DEF k
  <2> QED BY <2>3, <2>4
<1> HIDE DEF P
<1>9. Nat \subseteq P
  BY <1>7, <1>8, SetInduction
<1>10. d[pos[N]] = c[N]
  BY <1>1, <1>9 DEF P
<1> QED BY <1>1, <1>4, <1>5, <1>10 DEF moved

\* When two sets of places are the same places, seen before and after.
LEMMA TheSamePlaces ==
    ASSUME NEW T, NEW seq \in Seq(T), NEW kept, NEW places \in SUBSET (kept \cap (1 .. Len(seq))),
           NEW others \in SUBSET (1 .. Len(Picked(seq, kept))),
           \A j \in kept \cap (1 .. Len(seq)) : j \in places <=> Picks(seq, kept)[j] \in others
    PROVE  others = Moved(seq, kept, places)
<1>1. \A m \in 1 .. Len(Picked(seq, kept)) :
        \E j \in 1 .. Len(seq) : j \in kept /\ Picks(seq, kept)[j] = m
  BY PicksAreInOrder
<1>2. \A m \in others : m \in Moved(seq, kept, places)
  BY <1>1 DEF Moved
<1>3. \A m \in Moved(seq, kept, places) : m \in others
  BY DEF Moved
<1> QED BY <1>2, <1>3

-----------------------------------------------------------------------------
(* The command line of the child *)

\* The places of the words that the child is given.
Kept(words) == {j \in 1 .. Len(words) : words[j] \notin BackgroundWords}

\* The words that are taken out ask for the background, and want no value.
LEMMA BackgroundWordsAreFlags ==
    ASSUME NEW w \in BackgroundWords
    PROVE  w.form = "options" /\ ~WantsNext(w) /\ ToSet(w.options) = {"background"}
<1>1. PICK long \in BOOLEAN : w = Group(long, <<"background">>, NoWord)
  BY DEF BackgroundWords
<1>2. w.form = "options" /\ w.options = <<"background">>
  BY <1>1 DEF Group
<1>3. Last(w.options) = "background" /\ ToSet(w.options) = {"background"}
  BY <1>2 DEF Last, ToSet
<1>4. "background" \in Flags
  BY DEF Flags
<1>5. "background" \notin Valued
  BY <1>4, KindsOfOptions
<1> QED BY <1>2, <1>3, <1>5 DEF WantsNext

\* One place further, there is a separator if there was one or this is one.
LEMMA StopsStepwise ==
    \A words, n : n \in Nat \ {0} =>
        (Stops(words, n) <=> (Stops(words, n - 1) \/ Roles(words)[n] = "separator"))
<1> SUFFICES ASSUME NEW words, NEW n \in Nat \ {0}
             PROVE  Stops(words, n) <=> (Stops(words, n - 1) \/ Roles(words)[n] = "separator")
  OBVIOUS
<1>1. n \in 1 .. n /\ \A k \in 1 .. n : k \in 1 .. n - 1 \/ k = n
  OBVIOUS
<1>2. \A k \in 1 .. n - 1 : k \in 1 .. n
  OBVIOUS
<1> QED BY <1>1, <1>2 DEF Stops

\* The child's words, and where they come from.
LEMMA ChildWords ==
    ASSUME NEW words \in Seq(Words)
    PROVE  LET pos == Picks(words, Kept(words))
               rest == ChildArgs(words)
           IN  /\ rest = Picked(words, Kept(words)) /\ rest \in Seq(Words)
               /\ pos \in [0 .. Len(words) -> Nat] /\ pos[0] = 0 /\ pos[Len(words)] = Len(rest)
               /\ \A n \in 1 .. Len(words) :
                    pos[n] = IF n \in Kept(words) THEN pos[n - 1] + 1 ELSE pos[n - 1]
               /\ \A n \in Kept(words) :
                    n \in 1 .. Len(words) /\ pos[n] \in 1 .. Len(rest) /\ rest[pos[n]] = words[n]
               /\ \A m \in 1 .. Len(rest) : \E n \in Kept(words) : pos[n] = m
<1>1. ChildArgs(words) = Picked(words, Kept(words))
  BY DEF ChildArgs, Kept
<1>2. \A n \in Kept(words) : n \in 1 .. Len(words)
  BY DEF Kept
<1> QED BY <1>1, <1>2, ChildArgsAreWords, PicksStepwise, PicksAreInOrder

\* Every word that is left has the role it had.
LEMMA ChildRoles ==
    ASSUME NEW words \in Seq(Words), BackgroundIsAnOption(words)
    PROVE  \A n \in Kept(words) :
             Roles(ChildArgs(words))[Picks(words, Kept(words))[n]] = Roles(words)[n]
<1> DEFINE N == Len(words)
           kept == Kept(words)
           pos == Picks(words, kept)
           rest == ChildArgs(words)
           M == Len(rest)
           Same(n) == /\ Takes(rest, pos[n]) <=> Takes(words, n)
                      /\ Stops(rest, pos[n]) <=> Stops(words, n)
                      /\ n \in kept => Roles(rest)[pos[n]] = Roles(words)[n]
           P == {n \in Nat : n <= N => Same(n)}
<1>1. /\ rest \in Seq(Words) /\ N \in Nat /\ M \in Nat
      /\ pos \in [0 .. N -> Nat] /\ pos[0] = 0
      /\ \A n \in 1 .. N : pos[n] = IF n \in kept THEN pos[n - 1] + 1 ELSE pos[n - 1]
      /\ \A n \in kept : n \in 1 .. N /\ pos[n] \in 1 .. M /\ rest[pos[n]] = words[n]
  <2>1. rest \in Seq(Words)
    BY ChildWords
  <2>2. N \in Nat /\ M \in Nat
    BY <2>1
  <2> QED BY <2>1, <2>2, ChildWords, Zenon
<1>2. \A n \in 1 .. N : n \notin kept =>
        words[n] \in BackgroundWords /\ Roles(words)[n] = "options"
  BY DEF Kept, BackgroundIsAnOption
<1>3. /\ Roles(words)[0] = "none" /\ Roles(rest)[0] = "none"
      /\ \A n \in 1 .. N : Roles(words)[n] = IF Takes(words, n - 1) THEN "value"
                                             ELSE IF Stops(words, n - 1) THEN "plain"
                                             ELSE words[n].form
      /\ \A m \in 1 .. M : Roles(rest)[m] = IF Takes(rest, m - 1) THEN "value"
                                            ELSE IF Stops(rest, m - 1) THEN "plain"
                                            ELSE rest[m].form
  BY <1>1, RolesStepwise
<1> HIDE DEF pos, rest, M, N, kept
<1>4. 0 \in P
  <2>1. ~Takes(rest, 0) /\ ~Takes(words, 0)
    BY <1>3 DEF Takes
  <2>2. ~Stops(rest, 0) /\ ~Stops(words, 0)
    BY DEF Stops
  <2>3. 0 \notin kept
    BY <1>1
  <2> QED BY <1>1, <2>1, <2>2, <2>3
<1>5. ASSUME NEW n \in Nat, n \in P PROVE n + 1 \in P
  <2> SUFFICES ASSUME n + 1 <= N PROVE Same(n + 1)
    OBVIOUS
  <2> DEFINE k == n + 1
  <2>1. k \in 1 .. N /\ k - 1 = n /\ n <= N /\ n \in 0 .. N /\ k \in Nat \ {0}
    BY <1>1
  <2>2. Same(n)
    BY <1>5, <2>1
  <2> HIDE DEF k
  <2>3. Stops(words, k) <=> (Stops(words, n) \/ Roles(words)[k] = "separator")
    BY <2>1, StopsStepwise
  <2>4. CASE k \notin kept
    <3>1. pos[k] = pos[n]
      BY <1>1, <2>1, <2>4
    <3>2. words[k] \in BackgroundWords /\ Roles(words)[k] = "options"
      BY <1>2, <2>1, <2>4
    <3>3. ~Takes(words, k)
      BY <3>2, BackgroundWordsAreFlags DEF Takes
    <3>4. ~Takes(words, n)
      BY <1>3, <2>1, <3>2
    <3>5. Stops(words, k) <=> Stops(words, n)
      BY <2>3, <3>2
    <3>6. Same(k)
      BY <2>2, <2>4, <3>1, <3>3, <3>4, <3>5
    <3> QED BY <3>6 DEF k
  <2>5. CASE k \in kept
    <3> DEFINE m == pos[k]
    <3>1. m \in 1 .. M /\ m - 1 = pos[n] /\ rest[m] = words[k] /\ m \in Nat \ {0}
      <4>1. m = pos[n] + 1 /\ pos[n] \in Nat
        BY <1>1, <2>1, <2>5
      <4>2. m \in 1 .. M /\ rest[m] = words[k]
        BY <1>1, <2>5
      <4> HIDE DEF m
      <4> QED BY <4>1, <4>2
    <3> HIDE DEF m
    <3>2. Roles(rest)[m] = IF Takes(rest, pos[n]) THEN "value"
                           ELSE IF Stops(rest, pos[n]) THEN "plain"
                           ELSE words[k].form
      BY <1>3, <3>1
    <3>3. Roles(rest)[m] = Roles(words)[k]
      BY <1>3, <2>1, <2>2, <3>2
    <3>4. Takes(rest, m) <=> Takes(words, k)
      BY <3>1, <3>3 DEF Takes
    <3>5. Stops(rest, m) <=> (Stops(rest, pos[n]) \/ Roles(rest)[m] = "separator")
      <4>1. Stops(rest, m) <=> (Stops(rest, m - 1) \/ Roles(rest)[m] = "separator")
        BY <3>1, StopsStepwise
      <4>2. m - 1 = pos[n]
        BY <3>1
      <4> QED BY <4>1, <4>2, Zenon
    <3>6. Stops(rest, m) <=> Stops(words, k)
      BY <2>2, <2>3, <3>3, <3>5
    <3>7. Same(k)
      BY <3>3, <3>4, <3>6 DEF m
    <3> QED BY <3>7 DEF k
  <2> QED BY <2>4, <2>5
<1> HIDE DEF P
<1>6. Nat \subseteq P
  BY <1>4, <1>5, SetInduction
<1>7. \A n \in kept : Same(n)
  <2> SUFFICES ASSUME NEW n \in kept PROVE Same(n)
    OBVIOUS
  <2>1. n \in Nat /\ n <= N
    BY <1>1
  <2> QED BY <1>6, <2>1 DEF P
<1> QED BY <1>7 DEF pos, rest, kept

\* The words that set anything but the background are kept, and are where they moved to.
LEMMA ChildSetting ==
    ASSUME NEW words \in Seq(Words), BackgroundIsAnOption(words), NEW set, "background" \notin set
    PROVE  /\ Setting(words, set) \subseteq Kept(words)
           /\ Setting(ChildArgs(words), set) = Moved(words, Kept(words), Setting(words, set))
<1> DEFINE kept == Kept(words)
           pos == Picks(words, kept)
           rest == ChildArgs(words)
           places == Setting(words, set)
           others == Setting(rest, set)
<1>1. /\ rest \in Seq(Words) /\ rest = Picked(words, kept)
      /\ \A n \in kept : n \in 1 .. Len(words) /\ pos[n] \in 1 .. Len(rest) /\ rest[pos[n]] = words[n]
  BY ChildWords
<1>2. \A n \in kept : Roles(rest)[pos[n]] = Roles(words)[n]
  BY ChildRoles
<1>3. places \in SUBSET (kept \cap (1 .. Len(words)))
  <2>1. places \in SUBSET (1 .. Len(words))
    BY SettingPlaces
  <2>2. \A n \in places : ToSet(words[n].options) \cap set # {}
    BY <2>1, SettingPlaces
  <2>3. \A n \in places : words[n] \notin BackgroundWords
    BY <2>2, BackgroundWordsAreFlags
  <2> QED BY <2>1, <2>3 DEF Kept
<1>4. others \in SUBSET (1 .. Len(rest))
  BY <1>1, SettingPlaces
<1>5. \A n \in kept : n \in places <=> pos[n] \in others
  <2> SUFFICES ASSUME NEW n \in kept PROVE n \in places <=> pos[n] \in others
    OBVIOUS
  <2>1. n \in places <=> Roles(words)[n] = "options" /\ ToSet(words[n].options) \cap set # {}
    BY <1>1, SettingPlaces
  <2>2. pos[n] \in others
          <=> Roles(rest)[pos[n]] = "options" /\ ToSet(rest[pos[n]].options) \cap set # {}
    BY <1>1, SettingPlaces
  <2> QED BY <1>1, <1>2, <2>1, <2>2
<1> HIDE DEF places, others
<1>6. others = Moved(words, kept, places)
  BY <1>1, <1>3, <1>4, <1>5, TheSamePlaces
<1> QED BY <1>3, <1>6 DEF places, others

\* So are the URLs.
LEMMA ChildUrlPlaces ==
    ASSUME NEW words \in Seq(Words), BackgroundIsAnOption(words)
    PROVE  /\ UrlPlaces(words) \in SUBSET (Kept(words) \cap (1 .. Len(words)))
           /\ UrlPlaces(ChildArgs(words)) = Moved(words, Kept(words), UrlPlaces(words))
<1> DEFINE kept == Kept(words)
           pos == Picks(words, kept)
           rest == ChildArgs(words)
           places == UrlPlaces(words)
           others == UrlPlaces(rest)
<1>1. /\ rest = Picked(words, kept)
      /\ \A n \in kept : n \in 1 .. Len(words) /\ pos[n] \in 1 .. Len(rest) /\ rest[pos[n]] = words[n]
  BY ChildWords
<1>2. \A n \in kept : Roles(rest)[pos[n]] = Roles(words)[n]
  BY ChildRoles
<1>3. places \in SUBSET (kept \cap (1 .. Len(words)))
  BY DEF UrlPlaces, Places, Kept, BackgroundIsAnOption
<1>4. others \in SUBSET (1 .. Len(rest))
  BY DEF UrlPlaces, Places
<1>5. \A n \in kept : n \in places <=> pos[n] \in others
  BY <1>1, <1>2 DEF UrlPlaces, Places
<1> HIDE DEF places, others
<1>6. others = Moved(words, kept, places)
  BY <1>1, <1>3, <1>4, <1>5, TheSamePlaces
<1> QED BY <1>3, <1>6 DEF places, others

\* An option that is kept keeps its value.
LEMMA ChildGiven ==
    ASSUME NEW words \in Seq(Words), BackgroundIsAnOption(words), NEW j \in Kept(words),
           Roles(words)[j] = "options", WellRead(words, j)
    PROVE  LET k == Picks(words, Kept(words))[j]
           IN  /\ Given(ChildArgs(words), k) = Given(words, j)
               /\ WantsNext(words[j]) => k < Len(ChildArgs(words))
<1> DEFINE kept == Kept(words)
           pos == Picks(words, kept)
           rest == ChildArgs(words)
           k == pos[j]
           N == Len(words)
           M == Len(rest)
<1>0. rest \in Seq(Words) /\ N \in Nat /\ M \in Nat
  <2>1. rest \in Seq(Words)
    BY ChildWords
  <2> QED BY <2>1
<1>1. /\ pos \in [0 .. N -> Nat]
      /\ \A n \in 1 .. N : pos[n] = IF n \in kept THEN pos[n - 1] + 1 ELSE pos[n - 1]
      /\ \A n \in kept : n \in 1 .. N /\ pos[n] \in 1 .. M /\ rest[pos[n]] = words[n]
  BY ChildWords, Zenon
<1>2. j \in 1 .. N /\ k \in 1 .. M /\ rest[k] = words[j]
  BY <1>1
<1>3. WantsNext(words[j]) => j < N
  BY DEF WellRead
<1>4. ASSUME WantsNext(words[j]) PROVE k < M /\ rest[k + 1] = words[j + 1]
  <2> DEFINE n == j + 1
  <2>1. n \in 1 .. N /\ n - 1 = j
    BY <1>0, <1>2, <1>3, <1>4
  <2> HIDE DEF n
  <2>2. Roles(words)[n] = "value"
    <3>1. Takes(words, n - 1)
      BY <1>4, <2>1 DEF Takes
    <3> QED BY <2>1, <3>1, RolesStepwise
  <2>3. n \in kept
    BY <2>1, <2>2 DEF Kept, BackgroundIsAnOption
  <2>4. pos[n] = k + 1
    BY <1>1, <2>1, <2>3
  <2>5. pos[n] \in 1 .. M /\ rest[pos[n]] = words[n]
    BY <1>1, <2>3
  <2> HIDE DEF pos, rest, kept, k, N, M
  <2>6. k < M
    BY <1>0, <1>2, <2>4, <2>5
  <2> QED BY <2>4, <2>5, <2>6 DEF n
<1> HIDE DEF pos, rest, kept, k, N, M
<1>5. Given(rest, k) = Given(words, j)
  BY <1>2, <1>3, <1>4 DEF Given, ValueOf, N, M
<1> QED BY <1>4, <1>5 DEF pos, rest, kept, k, M

\* What the parent's parser accepts, the child's accepts.
LEMMA ChildReadsWell ==
    ASSUME NEW words \in Seq(Words), BackgroundIsAnOption(words),
           \A j \in 1 .. Len(words) : WellRead(words, j)
    PROVE  \A m \in 1 .. Len(ChildArgs(words)) : WellRead(ChildArgs(words), m)
<1> DEFINE pos == Picks(words, Kept(words))
           rest == ChildArgs(words)
<1> SUFFICES ASSUME NEW m \in 1 .. Len(rest) PROVE WellRead(rest, m)
  OBVIOUS
<1>1. PICK j \in Kept(words) : pos[j] = m
  BY ChildWords
<1>2. j \in 1 .. Len(words) /\ rest[m] = words[j]
  BY <1>1, ChildWords
<1>3. Roles(rest)[m] = Roles(words)[j]
  BY <1>1, ChildRoles
<1>4. WellRead(words, j)
  BY <1>2
<1>5. ASSUME Roles(words)[j] = "options"
      PROVE  Given(rest, m) = Given(words, j) /\ (WantsNext(words[j]) => m < Len(rest))
  BY <1>1, <1>4, <1>5, ChildGiven
<1> HIDE DEF rest, pos
<1> QED BY <1>2, <1>3, <1>4, <1>5 DEF WellRead

\* The last option of a kind, and its value, are the child's too.
LEMMA ChildLast ==
    ASSUME NEW words \in Seq(Words), BackgroundIsAnOption(words),
           \A j \in 1 .. Len(words) : WellRead(words, j),
           NEW set, "background" \notin set
    PROVE  LET rest == ChildArgs(words)
               last == LastOf(Setting(words, set))
               k    == LastOf(Setting(rest, set))
           IN  /\ Setting(rest, set) = {} <=> Setting(words, set) = {}
               /\ Setting(words, set) # {} =>
                    Given(rest, k) = Given(words, last) /\ rest[k].options = words[last].options
<1> DEFINE rest == ChildArgs(words)
           kept == Kept(words)
           places == Setting(words, set)
           others == Setting(rest, set)
<1>1. /\ places \in SUBSET (kept \cap (1 .. Len(words)))
      /\ others = Moved(words, kept, places)
  <2>1. places \in SUBSET (1 .. Len(words))
    BY SettingPlaces
  <2> QED BY <2>1, ChildSetting
<1>2. /\ others = {} <=> places = {}
      /\ places # {} => LastOf(others) = Picks(words, kept)[LastOf(places)]
  <2> HIDE DEF places, others, kept
  <2> QED BY <1>1, MovedPlaces
<1>3. ASSUME places # {}
      PROVE  /\ Given(rest, LastOf(others)) = Given(words, LastOf(places))
             /\ rest[LastOf(others)].options = words[LastOf(places)].options
  <2>1. LastOf(places) \in places
    <3>1. places \in SUBSET (1 .. Len(words)) /\ Len(words) \in Nat
      BY <1>1
    <3> HIDE DEF places
    <3> QED BY <1>3, <3>1, LastIsThere
  <2>2. Roles(words)[LastOf(places)] = "options" /\ LastOf(places) \in kept
        /\ WellRead(words, LastOf(places))
    <3>1. LastOf(places) \in kept /\ LastOf(places) \in 1 .. Len(words)
      BY <1>1, <2>1
    <3> QED BY <2>1, <3>1, SettingPlaces
  <2> DEFINE last == LastOf(places)
  <2>3. LastOf(others) = Picks(words, kept)[last]
    BY <1>2, <1>3
  <2>4. last \in Kept(words) /\ Roles(words)[last] = "options" /\ WellRead(words, last)
    BY <2>2
  <2> HIDE DEF places, others, last
  <2>5. Given(rest, LastOf(others)) = Given(words, last)
    BY <2>3, <2>4, ChildGiven
  <2>6. rest[LastOf(others)] = words[last]
    BY <2>3, <2>4, ChildWords
  <2> QED BY <2>5, <2>6 DEF last
<1> QED BY <1>2, <1>3 DEF rest

\* The values of a list are the child's too, in the same order.
LEMMA ChildLists ==
    ASSUME NEW words \in Seq(Words), BackgroundIsAnOption(words),
           \A j \in 1 .. Len(words) : WellRead(words, j),
           NEW set, "background" \notin set
    PROVE  Picked(Values(ChildArgs(words)), Setting(ChildArgs(words), set))
             = Picked(Values(words), Setting(words, set))
<1> DEFINE rest == ChildArgs(words)
           kept == Kept(words)
           places == Setting(words, set)
           s == Values(words)
           t == Values(rest)
           pos == Picks(words, kept)
<1>1. /\ rest \in Seq(Words) /\ rest = Picked(words, kept)
      /\ \A n \in kept : n \in 1 .. Len(words) /\ pos[n] \in 1 .. Len(rest) /\ rest[pos[n]] = words[n]
  BY ChildWords
<1>2. /\ s \in Seq(Value) /\ Len(s) = Len(words)
      /\ t \in Seq(Value) /\ Len(t) = Len(Picked(words, kept))
  BY <1>1, ValuesAreTyped
<1>3. /\ places \in SUBSET (kept \cap (1 .. Len(words)))
      /\ Setting(rest, set) = Moved(words, kept, places)
  <2>1. places \in SUBSET (1 .. Len(words))
    BY SettingPlaces
  <2> QED BY <2>1, ChildSetting
<1>4. \A j \in places : t[pos[j]] = s[j]
  <2> SUFFICES ASSUME NEW j \in places PROVE t[pos[j]] = s[j]
    OBVIOUS
  <2>1. /\ j \in kept /\ j \in 1 .. Len(words) /\ Roles(words)[j] = "options"
        /\ pos[j] \in 1 .. Len(rest) /\ rest[pos[j]] = words[j]
    <3>1. j \in kept /\ j \in 1 .. Len(words)
      BY <1>3
    <3> QED BY <1>1, <3>1, SettingPlaces
  <2>2. words[j].form = "options"
    BY <2>1, GivenIsAValue
  <2>3. Given(rest, pos[j]) = Given(words, j)
    BY <2>1, ChildGiven
  <2> HIDE DEF pos, rest, kept, places
  <2> QED BY <2>1, <2>2, <2>3 DEF Values
<1> HIDE DEF s, t, places, kept
<1>5. Picked(t, Moved(words, kept, places)) = Picked(s, places)
  BY <1>2, <1>3, <1>4, PickedOfPicked
<1> QED BY <1>3, <1>5 DEF s, t, places

\* The child reads the URLs of its parent.
LEMMA ChildUrls ==
    ASSUME NEW words \in Seq(Words), BackgroundIsAnOption(words)
    PROVE  Urls(ChildArgs(words)) = Urls(words)
<1> DEFINE rest == ChildArgs(words)
           kept == Kept(words)
           places == UrlPlaces(words)
<1>1. /\ rest \in Seq(Words) /\ rest = Picked(words, kept)
      /\ \A n \in kept : rest[Picks(words, kept)[n]] = words[n]
  BY ChildWords
<1>2. /\ places \in SUBSET (kept \cap (1 .. Len(words)))
      /\ UrlPlaces(rest) = Moved(words, kept, places)
  BY ChildUrlPlaces
<1>3. Len(rest) = Len(Picked(words, kept))
  BY <1>1
<1> HIDE DEF rest, places, kept
<1>4. Picked(rest, Moved(words, kept, places)) = Picked(words, places)
  BY <1>1, <1>2, <1>3, PickedOfPicked
<1> QED BY <1>2, <1>4 DEF Urls, UrlPlaces, rest, places

\* The child's plan is its parent's, but for the flag that it is in the background.
LEMMA ChildPlan ==
    ASSUME NEW words \in Seq(Words), BackgroundIsAnOption(words),
           \A j \in 1 .. Len(words) : WellRead(words, j),
           NEW p, PlanTo(words, Len(words), p),
           NEW q, PlanTo(ChildArgs(words), Len(ChildArgs(words)), q)
    PROVE  /\ p \in Plans /\ q \in Plans
           /\ q.text = p.text /\ q.log = p.log /\ q.lists = p.lists
           /\ q.flags \subseteq p.flags /\ p.flags \subseteq q.flags \cup {"background"}
<1> DEFINE rest == ChildArgs(words)
<1>1. rest \in Seq(Words)
  BY ChildArgsAreWords
<1>2. /\ p \in Plans
      /\ p.flags = {f \in Flags : Setting(words, {f}) # {}}
      /\ \A o \in Counts \cup Texts :
           p.text[o] = IF Setting(words, {o}) = {} THEN NoWord
                       ELSE Given(words, LastOf(Setting(words, {o})))
      /\ p.log = IF Setting(words, Logs) = {} THEN <<"stderr">>
                 ELSE <<Last(words[LastOf(Setting(words, Logs))].options),
                        Given(words, LastOf(Setting(words, Logs)))>>
      /\ \A o \in Lists : p.lists[o] = Picked(Values(words), Setting(words, {o}))
  BY AllWordsMean
<1>3. /\ q \in Plans
      /\ q.flags = {f \in Flags : Setting(rest, {f}) # {}}
      /\ \A o \in Counts \cup Texts :
           q.text[o] = IF Setting(rest, {o}) = {} THEN NoWord
                       ELSE Given(rest, LastOf(Setting(rest, {o})))
      /\ q.log = IF Setting(rest, Logs) = {} THEN <<"stderr">>
                 ELSE <<Last(rest[LastOf(Setting(rest, Logs))].options),
                        Given(rest, LastOf(Setting(rest, Logs)))>>
      /\ \A o \in Lists : q.lists[o] = Picked(Values(rest), Setting(rest, {o}))
  BY <1>1, AllWordsMean
<1>4. "background" \in Flags /\ "background" \notin Logs \cup Lists \cup Counts \cup Texts
  <2>1. "background" \in Flags
    BY DEF Flags
  <2> QED BY <2>1, KindsOfOptions
<1>5. \A f \in Flags \ {"background"} : Setting(rest, {f}) = {} <=> Setting(words, {f}) = {}
  BY ChildLast
<1>6. q.flags \subseteq p.flags /\ p.flags \subseteq q.flags \cup {"background"}
  <2>1. Setting(rest, {"background"}) # {} => Setting(words, {"background"}) # {}
    <3> SUFFICES ASSUME NEW m \in Setting(rest, {"background"}) PROVE Setting(words, {"background"}) # {}
      OBVIOUS
    <3>1. m \in 1 .. Len(rest) /\ Roles(rest)[m] = "options" /\ ToSet(rest[m].options) \cap {"background"} # {}
      BY <1>1, SettingPlaces
    <3>2. PICK n \in Kept(words) : Picks(words, Kept(words))[n] = m
      BY <3>1, ChildWords
    <3>3. n \in 1 .. Len(words) /\ rest[m] = words[n]
      BY <3>2, ChildWords
    <3>4. Roles(words)[n] = "options"
      BY <3>1, <3>2, ChildRoles
    <3> QED BY <3>1, <3>3, <3>4, SettingPlaces
  <2> QED BY <1>2, <1>3, <1>5, <2>1
<1>7. \A o \in Counts \cup Texts : q.text[o] = p.text[o]
  <2> SUFFICES ASSUME NEW o \in Counts \cup Texts PROVE q.text[o] = p.text[o]
    OBVIOUS
  <2>1. "background" \notin {o}
    BY <1>4
  <2>2. /\ Setting(rest, {o}) = {} <=> Setting(words, {o}) = {}
        /\ Setting(words, {o}) # {} =>
             Given(rest, LastOf(Setting(rest, {o}))) = Given(words, LastOf(Setting(words, {o})))
    BY <2>1, ChildLast
  <2> QED BY <1>2, <1>3, <2>2
<1>8. q.log = p.log
  <2>1. /\ Setting(rest, Logs) = {} <=> Setting(words, Logs) = {}
        /\ Setting(words, Logs) # {} =>
             /\ Given(rest, LastOf(Setting(rest, Logs))) = Given(words, LastOf(Setting(words, Logs)))
             /\ rest[LastOf(Setting(rest, Logs))].options = words[LastOf(Setting(words, Logs))].options
    BY <1>4, ChildLast
  <2> QED BY <1>2, <1>3, <2>1
<1>9. \A o \in Lists : q.lists[o] = p.lists[o]
  <2> SUFFICES ASSUME NEW o \in Lists PROVE q.lists[o] = p.lists[o]
    OBVIOUS
  <2>1. "background" \notin {o}
    BY <1>4
  <2>2. Picked(Values(rest), Setting(rest, {o})) = Picked(Values(words), Setting(words, {o}))
    BY <2>1, ChildLists
  <2> QED BY <1>2, <1>3, <2>2
<1>10. q.text = p.text /\ q.lists = p.lists
  BY <1>2, <1>3, <1>7, <1>9 DEF Plans
<1> QED BY <1>2, <1>3, <1>6, <1>8, <1>10

\* A child that has read all its words accepts them, and means what its parent meant.
LEMMA ChildMeans ==
    ASSUME NEW words \in Seq(Words), BackgroundIsAnOption(words),
           NEW us, NEW p, Accepted(words, us, p), "background" \in p.flags,
           NEW vs, NEW q, Meant(ChildArgs(words), vs, q)
    PROVE  /\ vs = us /\ ~Contradictory(q)
           /\ [Settled(q) EXCEPT !.flags = @ \cup {"background"}] = p
<1> DEFINE rest == ChildArgs(words)
<1>1. PICK o : Meant(words, us, o) /\ ~Contradictory(o) /\ p = Settled(o)
  BY DEF Accepted
<1>2. /\ o \in Plans /\ q \in Plans
      /\ q.text = o.text /\ q.log = o.log /\ q.lists = o.lists
      /\ q.flags \subseteq o.flags /\ o.flags \subseteq q.flags \cup {"background"}
  BY <1>1, ChildPlan DEF Meant
<1>3. vs = us
  <2>1. \A j \in 1 .. Len(words) : WellRead(words, j)
    BY <1>1 DEF Meant
  <2>2. "background" \notin {"input-file"}
    OBVIOUS
  <2>3. Setting(rest, {"input-file"}) = {} <=> Setting(words, {"input-file"}) = {}
    BY <2>1, <2>2, ChildLast
  <2>4. Urls(rest) = Urls(words)
    BY ChildUrls
  <2> QED BY <1>1, <2>3, <2>4 DEF Meant
<1>4. ~Contradictory(q)
  BY <1>1, <1>2 DEF Contradictory, Stdout, SizeOf
<1>5. "no-parallel" \in q.flags <=> "no-parallel" \in o.flags
  BY <1>2
<1>6. /\ Settled(q) \in Plans /\ p \in Plans
      /\ Settled(q).flags = q.flags /\ p.flags = o.flags
      /\ Settled(q).log = p.log /\ Settled(q).lists = p.lists
  BY <1>1, <1>2, SettledIsAPlan
<1>7. Settled(q).text = p.text
  <2>1. CASE "no-parallel" \in q.flags
    <3> DEFINE new == [o.text EXCEPT !["connections"] = Number(1)]
    <3>1. p = [o EXCEPT !.text = new] /\ Settled(q) = [q EXCEPT !.text = new]
      BY <1>1, <1>2, <1>5, <2>1 DEF Settled, Plans
    <3> HIDE DEF new
    <3> QED BY <1>2, <3>1 DEF Plans
  <2>2. CASE "no-parallel" \notin q.flags
    BY <1>1, <1>2, <1>5, <2>2 DEF Settled
  <2> QED BY <2>1, <2>2
<1>8. p.flags = q.flags \cup {"background"}
  BY <1>2, <1>6
<1>9. [Settled(q) EXCEPT !.flags = @ \cup {"background"}] = p
  <2> DEFINE r == Settled(q)
  <2>1. r \in Plans /\ r.flags = q.flags /\ r.text = p.text /\ r.log = p.log /\ r.lists = p.lists
    BY <1>6, <1>7
  <2> HIDE DEF r
  <2>2. [r EXCEPT !.flags = @ \cup {"background"}] = p
    BY <1>6, <1>8, <2>1 DEF Plans
  <2> QED BY <2>2 DEF r
<1> QED BY <1>3, <1>4, <1>9

\* The parent's words were accepted, and the child was given what is left of them; only a
\* missing URL or an input file can stop it.
ChildInv ==
    process = "child" =>
        /\ parent.args \in Seq(Words)
        /\ Accepted(parent.args, parent.urls, parent.plan)
        /\ "background" \in parent.plan.flags
        /\ args = ChildArgs(parent.args)
        /\ BackgroundIsAnOption(parent.args) /\ step = "exited" =>
             parent.urls = <<>> \/ parent.plan.text["input-file"] # NoWord

\* Every word of the child is read well.
LEMMA ChildWordsAreGood ==
    ASSUME ChildInv, process = "child", BackgroundIsAnOption(parent.args)
    PROVE  \A m \in 1 .. Len(args) : WellRead(args, m)
<1>1. /\ parent.args \in Seq(Words) /\ args = ChildArgs(parent.args)
      /\ Accepted(parent.args, parent.urls, parent.plan)
  BY DEF ChildInv
<1>2. \A j \in 1 .. Len(parent.args) : WellRead(parent.args, j)
  BY <1>1 DEF Accepted, Meant
<1> QED BY <1>1, <1>2, ChildReadsWell

\* The parser of a child refuses no word.
LEMMA ChildIsNotRefused ==
    ASSUME ReadingInv, ChildInv, process = "child", BackgroundIsAnOption(parent.args)
    PROVE  ~UnknownOption /\ ~BadOption /\ ~ExitOption
<1> SUFFICES ASSUME UnknownOption \/ BadOption \/ ExitOption PROVE FALSE
  OBVIOUS
<1>1. step = "parse" /\ i <= Len(args) /\ ~stopped
  BY DEF UnknownOption, BadOption, ExitOption, Looking
<1>2. i \in 1 .. Len(args) /\ Roles(args)[i] = args[i].form
  BY <1>1, RoleOfTheNext
<1>3. WellRead(args, i)
  BY <1>2, ChildWordsAreGood
<1>4. CASE UnknownOption
  BY <1>2, <1>3, <1>4 DEF UnknownOption, Looking, WellRead
<1>5. CASE BadOption
  <2>1. Roles(args)[i] = "options"
    BY <1>2, <1>5 DEF BadOption, Looking
  <2>2. /\ WantsNext(args[i]) => i < Len(args)
        /\ \A o \in ToSet(args[i].options) : ValidValue(o, Given(args, i))
    BY <1>3, <2>1 DEF WellRead
  <2>3. \/ WantsNext(args[i]) /\ i = Len(args)
        \/ \E o \in ToSet(args[i].options) : ~ValidValue(o, Given(args, i))
    BY <1>5 DEF BadOption, Given
  <2>4. i = Len(args) => ~(i < Len(args))
    BY <1>2
  <2> QED BY <2>2, <2>3, <2>4
<1>6. CASE ExitOption
  BY <1>2, <1>3, <1>6 DEF ExitOption, Looking, WellRead
<1> QED BY <1>4, <1>5, <1>6

\* At the end of its words, the child has its parent's input file.
LEMMA ChildReadsTheInputFile ==
    ASSUME ReadingInv, ChildInv, process = "child", BackgroundIsAnOption(parent.args),
           step = "parse", i > Len(args)
    PROVE  plan.text["input-file"] = parent.plan.text["input-file"]
<1> DEFINE W == parent.args
<1>1. W \in Seq(Words) /\ args = ChildArgs(W)
  BY DEF ChildInv
<1>2. PICK o : Meant(W, parent.urls, o) /\ parent.plan = Settled(o)
  BY DEF ChildInv, Accepted
<1>3. PlanTo(args, Len(args), plan)
  <2>1. args \in Seq(Words) /\ i - 1 = Len(args)
    BY DEF ReadingInv
  <2> QED BY <2>1 DEF ReadingInv, ReadTo
<1> HIDE DEF W
<1>4. o \in Plans /\ plan.text = o.text
  BY <1>1, <1>2, <1>3, ChildPlan DEF Meant, W
<1>5. "input-file" \in (Counts \cup Texts) \ {"connections"}
  BY DEF Texts
<1> QED BY <1>2, <1>4, <1>5, SettledIsAPlan

\* The parent accepted what it passes on.
LEMMA DetachKeepsChild == ReadingInv /\ Detach => ChildInv'
<1> SUFFICES ASSUME ReadingInv, Detach PROVE ChildInv'
  OBVIOUS
<1>1. /\ parent' = [args |-> args, urls |-> urls, plan |-> plan]
      /\ args' = ChildArgs(args) /\ step' = "parse"
      /\ step = "accepted" /\ "background" \in plan.flags
  BY DEF Detach, MustDetach, Reading
<1>2. args \in Seq(Words) /\ Accepted(args, urls, plan)
  BY <1>1 DEF ReadingInv
<1>3. parent'.args = args /\ parent'.urls = urls /\ parent'.plan = plan
  BY <1>1
<1> QED BY <1>1, <1>2, <1>3 DEF ChildInv

\* Every other step of a child leaves it with its parent's words, and ends it only for want
\* of a URL or of the input file.
LEMMA ChildStep ==
    ASSUME ReadingInv, ChildInv, [CommandNext]_commandVars, process' = "child", ~Detach
    PROVE  ChildInv'
<1>1. /\ process = "child" /\ parent' = parent /\ args' = args
  BY DEF CommandNext, commandVars, ownVars, Positional, StopOptions, UnknownOption, ReadOptions,
     BadOption, ExitOption, EndParse, Validate, DetachFails, Run, Idle, ParseError
<1> SUFFICES ASSUME BackgroundIsAnOption(parent.args), step' = "exited"
             PROVE  parent.urls = <<>> \/ parent.plan.text["input-file"] # NoWord
  BY <1>1 DEF ChildInv
<1> DEFINE Stopped == parent.urls = <<>> \/ parent.plan.text["input-file"] # NoWord
<1>2. CASE step = "exited"
  BY <1>1, <1>2 DEF ChildInv
<1>3. ~UnknownOption /\ ~BadOption /\ ~ExitOption
  BY <1>1, ChildIsNotRefused
<1>4. ASSUME EndParse PROVE Stopped
  <2>1. step = "parse" /\ i > Len(args) /\ plan.text["input-file"] # NoWord
    BY <1>4 DEF EndParse
  <2>2. plan.text["input-file"] = parent.plan.text["input-file"]
    BY <1>1, <2>1, ChildReadsTheInputFile
  <2> QED BY <2>1, <2>2
<1>5. ASSUME NEW vs, NEW q, Meant(args, vs, q)
      PROVE  vs = parent.urls /\ ~Contradictory(q)
  <2> DEFINE W == parent.args
             us == parent.urls
             p == parent.plan
  <2>1. /\ W \in Seq(Words) /\ Accepted(W, us, p) /\ "background" \in p.flags
        /\ Meant(ChildArgs(W), vs, q) /\ BackgroundIsAnOption(W)
    BY <1>1, <1>5 DEF ChildInv
  <2> HIDE DEF W, us, p
  <2>2. vs = us /\ ~Contradictory(q)
    BY <2>1, ChildMeans
  <2> QED BY <2>2 DEF us
<1>6. ASSUME Validate PROVE FALSE
  <2>1. step = "validate" /\ Contradictory(plan)
    BY <1>6 DEF Validate
  <2>2. Meant(args, urls, plan)
    BY <2>1 DEF ReadingInv
  <2> QED BY <1>5, <2>1, <2>2
<1>7. ASSUME Run, step = "accepted" PROVE Stopped
  <2>1. urls = <<>> /\ Accepted(args, urls, plan)
    BY <1>7 DEF Run, ReadingInv
  <2>2. PICK q : Meant(args, urls, q)
    BY <2>1 DEF Accepted
  <2> QED BY <1>5, <2>1, <2>2
<1>8. ~DetachFails
  BY <1>1 DEF DetachFails, MustDetach
<1>9. CASE step # "exited"
  <2>1. EndParse \/ Validate \/ (Run /\ step = "accepted")
    BY <1>3, <1>8, <1>9 DEF CommandNext, commandVars, ownVars, Positional, StopOptions, ReadOptions,
       Run, Idle
  <2> QED BY <1>4, <1>6, <1>7, <2>1
<1> QED BY <1>2, <1>9

\* The child accepts what is left of its parent's command line, and arrives at its parent's
\* plan and URLs; or it too finds that there is no URL, or cannot read the input file.
THEOREM ChildDoesTheParentsWork == CommandSpec => []ChildRunsParentsPlan
<1>1. CommandInit => ReadingInv /\ ChildInv
  BY ReadingInit DEF CommandInit, ChildInv
<1>2. ReadingInv /\ ChildInv /\ [CommandNext]_commandVars => (ReadingInv /\ ChildInv)'
  <2> SUFFICES ASSUME ReadingInv, ChildInv, [CommandNext]_commandVars PROVE ChildInv'
    BY ReadingStep
  <2>1. CASE process' = "child"
    BY <2>1, DetachKeepsChild, ChildStep
  <2>2. CASE process' # "child"
    BY <2>2 DEF ChildInv
  <2> QED BY <2>1, <2>2
<1>3. ReadingInv /\ ChildInv => ChildRunsParentsPlan
  <2> SUFFICES ASSUME ReadingInv, ChildInv, process = "child", BackgroundIsAnOption(parent.args)
               PROVE  /\ step \in {"accepted", "running"} =>
                           /\ urls = parent.urls
                           /\ [plan EXCEPT !.flags = @ \cup {"background"}] = parent.plan
                      /\ step = "exited" =>
                           parent.urls = <<>> \/ parent.plan.text["input-file"] # NoWord
    BY DEF ChildRunsParentsPlan
  <2>1. ASSUME step \in {"accepted", "running"}
        PROVE  urls = parent.urls /\ [plan EXCEPT !.flags = @ \cup {"background"}] = parent.plan
    <3> DEFINE W == parent.args
               us == parent.urls
               p == parent.plan
    <3>1. PICK q : Meant(args, urls, q) /\ plan = Settled(q)
      BY <2>1 DEF ReadingInv, Accepted
    <3>2. /\ W \in Seq(Words) /\ Accepted(W, us, p) /\ "background" \in p.flags
          /\ Meant(ChildArgs(W), urls, q) /\ BackgroundIsAnOption(W)
      BY <3>1 DEF ChildInv
    <3> HIDE DEF W, us, p
    <3>3. urls = us /\ [Settled(q) EXCEPT !.flags = @ \cup {"background"}] = p
      BY <3>2, ChildMeans
    <3> QED BY <3>1, <3>3 DEF us, p
  <2>2. step = "exited" => parent.urls = <<>> \/ parent.plan.text["input-file"] # NoWord
    BY DEF ChildInv
  <2> QED BY <2>1, <2>2
<1> QED BY <1>1, <1>2, <1>3, PTL DEF CommandSpec
===============================================================================
