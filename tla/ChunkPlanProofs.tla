-------------------------- MODULE ChunkPlanProofs --------------------------
(***************************************************************************)
(* Proofs about ChunkPlan: from a body to its chunks nothing is lost and   *)
(* nothing outgrows its limit, for every ChunkConfig that satisfies the    *)
(* assumption and every body.                                              *)
(*                                                                         *)
(* A left fold is shown to be the end of a run (FoldExists, FoldRuns), and *)
(* what holds along a run is proved from the least step where it would not *)
(* (Least, Upwards).  The loops follow in the order of the code, from a    *)
(* window of words to the children of a page.                              *)
(***************************************************************************)
EXTENDS ChunkPlan, SequenceTheorems, FiniteSetTheorems, WellFoundedInduction, TLAPS

(* A nonempty set of numbers has a least one: the form of induction every  *)
(* proof here uses.                                                        *)
LEMMA Least ==
  ASSUME NEW T, T \subseteq Nat, T # {}
  PROVE  \E m \in T : \A k \in T : m <= k
<1> DEFINE R == OpToRel(<, Nat)
<1>1. IsWellFoundedOn(R, Nat)
  BY NatLessThanWellFounded
<1> HIDE DEF R
<1>2. PICK m \in T : \A k \in T : <<k, m>> \notin R
  BY <1>1, WFMin
<1>3. \A k \in T : ~(k < m)
  BY <1>2 DEF R, OpToRel
<1> QED
  BY <1>2, <1>3

(* Induction over a run: what holds at 0, and at a step if at the one      *)
(* before, holds at every step.                                            *)
LEMMA Upwards ==
  ASSUME NEW n \in Nat, NEW T, 0 \in T, \A i \in 1..n : i - 1 \in T => i \in T
  PROVE  \A i \in 0..n : i \in T
<1> DEFINE B == {i \in 0..n : i \notin T}
<1> SUFFICES ASSUME B # {} PROVE FALSE
  OBVIOUS
<1>1. B \subseteq Nat
  OBVIOUS
<1>2. PICK m \in B : \A k \in B : m <= k
  BY <1>1, Least
<1>3. m \in 1..n /\ m \notin T
  BY <1>2
<1>4. m - 1 \in 0..n /\ m - 1 < m
  BY <1>3
<1>5. m - 1 \in T
  BY <1>2, <1>4
<1> QED
  BY <1>3, <1>5

(* The greatest of a nonempty set of positions.                            *)
LEMMA MaxFacts ==
  ASSUME NEW n \in Nat, NEW s \in SUBSET (1..n), s # {}
  PROVE  Max(s) \in s /\ \A x \in s : x <= Max(s)
<1> DEFINE D == {n - x : x \in s}
<1>1. \A x \in s : x \in 1..n
  OBVIOUS
<1>a. D \subseteq Nat
  BY <1>1
<1>b. D # {}
  OBVIOUS
<1>2. PICK m \in D : \A k \in D : m <= k
  BY <1>a, <1>b, Least
<1>3. PICK x \in s : m = n - x
  BY <1>2
<1>4. ASSUME NEW y \in s PROVE x >= y
  <2>1. n - y \in D /\ x \in 1..n /\ y \in 1..n
    BY <1>1
  <2>2. n - x <= n - y
    BY <1>2, <1>3, <2>1
  <2> QED  BY <2>1, <2>2
<1>5. x \in 1..n
  BY <1>1
<1>6. Max(s) \in s /\ \A y \in s : Max(s) >= y
  BY <1>4 DEF Max
<1> QED
  BY <1>1, <1>6

(* f folds every subset of 1..n, the greatest position last:               *)
(* MapThenFoldSet as FoldLeft uses it.                                     *)
IsFold(f, n, base, step) ==
  \A s \in SUBSET (1..n) :
    f[s] = IF s = {} THEN base ELSE step[<<f[s \ {Max(s)}], Max(s)>>]

(* The same of a function known only to be the fold where its values stay  *)
(* in S.                                                                   *)
IsFoldOn(S, f, n, base, step) ==
  /\ f[{}] = base
  /\ \A s \in SUBSET (1..n) :
       s # {} /\ f[s \ {Max(s)}] \in S => f[s] = step[<<f[s \ {Max(s)}], Max(s)>>]

(* f is the run of a left fold: from base, one step per position, to last. *)
IsRun(f, n, base, step, last) ==
  f[0] = base /\ (\A i \in 1..n : f[i] = step[<<f[i - 1], i>>]) /\ f[n] = last

(* A step that stays in S has a fold: the recursive function that          *)
(* MapThenFoldSet chooses exists.                                          *)
LEMMA FoldExists ==
  ASSUME NEW S, NEW n \in Nat, NEW base \in S, NEW step \in [S \X (1..n) -> S]
  PROVE  \E f \in [SUBSET (1..n) -> S] : IsFold(f, n, base, step)
<1> DEFINE Has(k) == \E f \in [SUBSET (1..k) -> S] : IsFold(f, k, base, step)
           T == {k \in 0..n : Has(k)}
<1>1. Has(0)
  <2> DEFINE f == [s \in SUBSET (1..0) |-> base]
  <2>1. f \in [SUBSET (1..0) -> S]
    OBVIOUS
  <2>2. \A s \in SUBSET (1..0) : s = {} /\ f[s] = base
    OBVIOUS
  <2> HIDE DEF f
  <2>3. IsFold(f, 0, base, step)
    BY <2>2 DEF IsFold
  <2> QED  BY <2>1, <2>3
<1>2. ASSUME NEW k \in 1..n, Has(k - 1) PROVE Has(k)
  <2>1. PICK f \in [SUBSET (1..(k - 1)) -> S] : IsFold(f, k - 1, base, step)
    BY <1>2
  <2> DEFINE g == [s \in SUBSET (1..k) |->
                     IF k \in s THEN step[<<f[s \ {k}], k>>] ELSE f[s]]
  <2>2. \A s \in SUBSET (1..k) : /\ s \ {k} \in SUBSET (1..(k - 1))
                                 /\ k \notin s => s \in SUBSET (1..(k - 1))
    OBVIOUS
  <2>3. \A s \in SUBSET (1..k) : k \in s => Max(s) = k
    <3> SUFFICES ASSUME NEW s \in SUBSET (1..k), k \in s PROVE Max(s) = k
      OBVIOUS
    <3>1. k \in Nat /\ s # {} /\ \A x \in s : x \in 1..k
      OBVIOUS
    <3>2. Max(s) \in s /\ k <= Max(s)
      BY <3>1, MaxFacts
    <3>3. Max(s) \in 1..k
      BY <3>1, <3>2
    <3> QED  BY <3>2, <3>3
  <2>4. g \in [SUBSET (1..k) -> S]
    <3> SUFFICES ASSUME NEW s \in SUBSET (1..k)
                 PROVE  (IF k \in s THEN step[<<f[s \ {k}], k>>] ELSE f[s]) \in S
      OBVIOUS
    <3>1. CASE k \in s
      <4>1. f[s \ {k}] \in S
        BY <2>2
      <4>2. <<f[s \ {k}], k>> \in S \X (1..n)
        BY <4>1
      <4> QED  BY <3>1, <4>2
    <3>2. CASE k \notin s
      BY <2>2, <3>2
    <3> QED  BY <3>1, <3>2
  <2>5. ASSUME NEW s \in SUBSET (1..k)
        PROVE  g[s] = IF s = {} THEN base ELSE step[<<g[s \ {Max(s)}], Max(s)>>]
    <3>1. CASE k \in s
      <4>1. Max(s) = k /\ g[s \ {k}] = f[s \ {k}]
        BY <2>2, <2>3, <3>1
      <4> QED  BY <3>1, <4>1
    <3>2. CASE k \notin s
      <4>1. s \in SUBSET (1..(k - 1)) /\ g[s] = f[s]
        BY <2>2, <3>2
      <4>2. g[s \ {Max(s)}] = f[s \ {Max(s)}]
        BY <2>2, <3>2
      <4> QED  BY <2>1, <4>1, <4>2 DEF IsFold
    <3> QED  BY <3>1, <3>2
  <2> HIDE DEF g
  <2>6. IsFold(g, k, base, step)
    BY <2>5 DEF IsFold
  <2> QED  BY <2>4, <2>6
<1> HIDE DEF Has
<1>3. 0 \in T /\ \A k \in 1..n : k - 1 \in T => k \in T
  BY <1>1, <1>2
<1> HIDE DEF T
<1>4. n \in T
  BY <1>3, Upwards
<1>5. Has(n)
  BY <1>4 DEF T
<1> QED  BY <1>5 DEF Has

(* Of the first i positions the last is i, and without it i - 1 are left.  *)
LEMMA Segments ==
  ASSUME NEW n \in Nat, NEW i \in 1..n
  PROVE  /\ 1..i \in SUBSET (1..n) /\ 1..i # {}
         /\ Max(1..i) = i /\ (1..i) \ {Max(1..i)} = 1..(i - 1)
<1>1. i \in Nat /\ i \in 1..i /\ 1..i \in SUBSET (1..n)
  OBVIOUS
<1>2. Max(1..i) \in 1..i /\ i <= Max(1..i)
  BY <1>1, MaxFacts
<1>3. Max(1..i) = i
  BY <1>2
<1>4. (1..i) \ {i} = 1..(i - 1)
  OBVIOUS
<1> QED
  BY <1>1, <1>3, <1>4

(* A left fold is the end of a run, so what it returns can be proved step  *)
(* by step.                                                                *)
LEMMA FoldRuns ==
  ASSUME NEW S, NEW n \in Nat, NEW base \in S, NEW step \in [S \X (1..n) -> S], NEW iter,
         IsFoldOn(S, iter, n, base, step)
  PROVE  \E f \in [0..n -> S] : IsRun(f, n, base, step, iter[1..n])
<1> DEFINE f == [i \in 0..n |-> iter[1..i]]
           T == {i \in 0..n : f[i] \in S}
<1>1. f[0] = base
  <2>1. 1..0 = {} /\ 0 \in 0..n
    OBVIOUS
  <2> QED  BY <2>1 DEF IsFoldOn
<1>2. ASSUME NEW i \in 1..n, f[i - 1] \in S
      PROVE  f[i] = step[<<f[i - 1], i>>]
  <2>1. i - 1 \in 0..n /\ i \in 0..n
    OBVIOUS
  <2>2. iter[1..(i - 1)] \in S
    BY <1>2, <2>1
  <2>3. iter[1..i] = step[<<iter[1..(i - 1)], i>>]
    BY <2>2, Segments DEF IsFoldOn
  <2> QED  BY <2>1, <2>3
<1>a. f[n] = iter[1..n] /\ f = [i \in 0..n |-> f[i]]
  OBVIOUS
<1> HIDE DEF f
<1>3. ASSUME NEW i \in 1..n, i - 1 \in T PROVE i \in T
  <2>1. f[i - 1] \in S /\ i \in 0..n
    BY <1>3
  <2>2. <<f[i - 1], i>> \in S \X (1..n)
    BY <2>1
  <2> QED  BY <1>2, <2>1, <2>2
<1>4. 0 \in T
  BY <1>1
<1> HIDE DEF T
<1>5. \A i \in 0..n : i \in T
  BY <1>3, <1>4, Upwards
<1>6. \A i \in 0..n : f[i] \in S
  BY <1>5 DEF T
<1>7. f \in [0..n -> S]
  BY <1>6, <1>a
<1>8. \A i \in 1..n : i - 1 \in 0..n
  OBVIOUS
<1> QED
  BY <1>1, <1>2, <1>6, <1>7, <1>8, <1>a DEF IsRun

(* TokenCounter.count adds up word after word.                             *)
LEMMA CountSteps ==
  ASSUME NEW text \in Text
  PROVE  \E f \in [0..Len(text) -> Nat] :
           /\ f[0] = 0
           /\ \A i \in 1..Len(text) : f[i] = f[i - 1] + text[i].size
           /\ f[Len(text)] = Count(text)
<1> DEFINE n == Len(text)
           iter[t \in SUBSET DOMAIN text] ==
             IF t = {} THEN 0 ELSE LET x == Max(t) IN iter[t \ {x}] + text[x].size
           step == [p \in Nat \X (1..n) |-> p[1] + text[p[2]].size]
<1>1. Count(text) = iter[DOMAIN text]
  BY DEF Count, FoldLeft, MapThenFoldSet
<1>2. n \in Nat /\ DOMAIN text = 1..n
  BY LenProperties DEF Text
<1>3. \A i \in 1..n : text[i].size \in Nat
  <2>1. \A w \in Word : w.size \in Nat
    BY DEF Word
  <2>2. \A i \in 1..n : text[i] \in Word
    BY ElementOfSeq DEF Text
  <2> QED  BY <2>1, <2>2
<1>4. step \in [Nat \X (1..n) -> Nat] /\ \A k \in Nat, i \in 1..n : step[<<k, i>>] = k + text[i].size
  BY <1>3
<1> HIDE DEF n, step
<1>5. PICK g \in [SUBSET (1..n) -> Nat] : IsFold(g, n, 0, step)
  <2>1. 0 \in Nat
    OBVIOUS
  <2> QED  BY <1>2, <1>4, <2>1, FoldExists, Zenon
<1>6. \A t \in SUBSET (1..n) : t # {} => Max(t) \in 1..n /\ t \ {Max(t)} \in SUBSET (1..n)
  BY <1>2, MaxFacts
<1>7. g = [t \in SUBSET DOMAIN text |->
             IF t = {} THEN 0 ELSE LET x == Max(t) IN g[t \ {x}] + text[x].size]
  <2>1. ASSUME NEW t \in SUBSET (1..n), t # {}
        PROVE  g[t] = g[t \ {Max(t)}] + text[Max(t)].size
    BY <1>4, <1>5, <1>6, <2>1 DEF IsFold
  <2>2. g[{}] = 0
    BY <1>5 DEF IsFold
  <2> QED  BY <1>2, <1>5, <2>1, <2>2
<1>8. iter = [t \in SUBSET DOMAIN text |->
                IF t = {} THEN 0 ELSE LET x == Max(t) IN iter[t \ {x}] + text[x].size]
  BY <1>7, Zenon
<1> HIDE DEF iter
<1>9. IsFoldOn(Nat, iter, n, 0, step)
  <2>1. ASSUME NEW s \in SUBSET (1..n), s # {}, iter[s \ {Max(s)}] \in Nat
        PROVE  iter[s] = step[<<iter[s \ {Max(s)}], Max(s)>>]
    <3>1. iter[s] = iter[s \ {Max(s)}] + text[Max(s)].size
      BY <1>2, <1>8, <2>1
    <3> QED  BY <1>4, <1>6, <2>1, <3>1
  <2> QED  BY <1>8, <2>1 DEF IsFoldOn
<1>10. PICK f \in [0..n -> Nat] : IsRun(f, n, 0, step, iter[1..n])
  <2>1. 0 \in Nat
    OBVIOUS
  <2> QED  BY <1>2, <1>4, <1>9, <2>1, FoldRuns, Zenon
<1>11. ASSUME NEW i \in 1..n PROVE f[i] = f[i - 1] + text[i].size
  <2>1. i - 1 \in 0..n
    BY <1>2
  <2>2. f[i - 1] \in Nat
    BY <2>1
  <2> QED  BY <1>4, <1>10, <2>2 DEF IsRun
<1>12. f[0] = 0
  BY <1>10 DEF IsRun
<1> QED
  BY <1>1, <1>2, <1>10, <1>11, <1>12 DEF n, IsRun

(* Whatever adds up the sizes of a text in its order is its count.         *)
LEMMA CountIs ==
  ASSUME NEW text \in Text, NEW h \in [0..Len(text) -> Int], h[0] = 0,
         \A i \in 1..Len(text) : h[i] = h[i - 1] + text[i].size
  PROVE  h[Len(text)] = Count(text)
<1> DEFINE n == Len(text)
<1>1. PICK f \in [0..n -> Nat] :
        /\ f[0] = 0
        /\ \A i \in 1..n : f[i] = f[i - 1] + text[i].size
        /\ f[n] = Count(text)
  BY CountSteps
<1>2. n \in Nat
  BY LenProperties DEF Text
<1> DEFINE T == {i \in 0..n : h[i] = f[i]}
<1> HIDE DEF n
<1>3. 0 \in T
  BY <1>1, <1>2
<1>4. ASSUME NEW i \in 1..n, i - 1 \in T PROVE i \in T
  <2>1. h[i] = h[i - 1] + text[i].size
    BY DEF n
  <2> QED  BY <1>1, <1>2, <1>4, <2>1
<1> HIDE DEF T
<1>5. \A i \in 0..n : i \in T
  BY <1>2, <1>3, <1>4, Upwards
<1>6. h[n] = f[n]
  BY <1>2, <1>5 DEF T
<1> QED  BY <1>1, <1>6 DEF n

(* An empty text has no tokens.                                            *)
LEMMA CountEmpty == Count(<< >>) = 0
<1>1. << >> \in Text /\ Len(<< >>) = 0
  BY EmptySeq DEF Text
<1> QED  BY <1>1, CountSteps

(* A text has a number of tokens.                                          *)
LEMMA CountType ==
  ASSUME NEW text \in Text
  PROVE  Count(text) \in Nat
<1>1. Len(text) \in 0..Len(text)
  BY LenProperties DEF Text
<1> QED  BY <1>1, CountSteps

(* Two texts joined count what they count together.                        *)
LEMMA CountConcat ==
  ASSUME NEW s \in Text, NEW t \in Text
  PROVE  s \o t \in Text /\ Count(s \o t) = Count(s) + Count(t)
<1> DEFINE m == Len(s)
           n == Len(t)
<1>1. /\ s \o t \in Text /\ Len(s \o t) = m + n
      /\ \A i \in 1..m + n : (s \o t)[i] = IF i <= m THEN s[i] ELSE t[i - m]
  BY ConcatProperties DEF Text
<1>2. m \in Nat /\ n \in Nat
  BY LenProperties DEF Text
<1>3. PICK f \in [0..m + n -> Nat] :
        /\ f[0] = 0
        /\ \A i \in 1..m + n : f[i] = f[i - 1] + (s \o t)[i].size
        /\ f[m + n] = Count(s \o t)
  BY <1>1, CountSteps
<1> DEFINE g == [i \in 0..m |-> f[i]]
           h == [i \in 0..n |-> f[m + i] - f[m]]
<1> HIDE DEF m, n
<1>4. g[m] = Count(s)
  <2>1. g \in [0..m -> Int] /\ g[0] = 0
    BY <1>2, <1>3
  <2>2. ASSUME NEW i \in 1..m PROVE g[i] = g[i - 1] + s[i].size
    <3>1. i \in 1..m + n /\ i \in 0..m /\ i - 1 \in 0..m
      BY <1>2
    <3>2. (s \o t)[i] = s[i]
      BY <1>1, <3>1
    <3> QED  BY <1>3, <3>1, <3>2
  <2> HIDE DEF g
  <2> QED  BY <2>1, <2>2, CountIs DEF m
<1>5. h[n] = Count(t)
  <2>1. h \in [0..n -> Int] /\ h[0] = 0
    BY <1>2, <1>3
  <2>2. ASSUME NEW i \in 1..n PROVE h[i] = h[i - 1] + t[i].size
    <3>1. m + i \in 1..m + n /\ i \in 0..n /\ i - 1 \in 0..n /\ m + i - 1 = m + (i - 1) /\ (m + i) - m = i /\ ~(m + i <= m)
      BY <1>2
    <3>2. (s \o t)[m + i] = t[i]
      BY <1>1, <3>1
    <3>3. f[m + i] = f[m + (i - 1)] + t[i].size
      <4> DEFINE k == m + i
      <4>1. k \in 1..m + n /\ k - 1 = m + (i - 1) /\ (s \o t)[k] = t[i]
        BY <1>2, <3>1, <3>2
      <4> HIDE DEF k, h, g
      <4>2. f[k] = f[k - 1] + (s \o t)[k].size
        BY <1>3, <4>1
      <4>3. f[k] = f[m + (i - 1)] + t[i].size
        BY <4>1, <4>2
      <4> QED  BY <4>3 DEF k
    <3>4. f[m + i] \in Nat /\ f[m + (i - 1)] \in Nat /\ f[m] \in Nat
      BY <1>2, <1>3, <3>1
    <3>5. t[i].size \in Nat
      <4>1. t[i] \in Word
        BY ElementOfSeq DEF Text, n
      <4> QED  BY <4>1 DEF Word
    <3> QED  BY <3>1, <3>3, <3>4, <3>5
  <2> HIDE DEF h
  <2> QED  BY <2>1, <2>2, CountIs DEF n
<1>6. f[m] \in Nat /\ f[m + n] \in Nat /\ g[m] = f[m] /\ h[n] = f[m + n] - f[m]
  BY <1>2, <1>3
<1> QED  BY <1>1, <1>3, <1>4, <1>5, <1>6

(* A text of one word counts what the word does.                           *)
LEMMA CountSingle ==
  ASSUME NEW w \in Word
  PROVE  <<w>> \in Text /\ Count(<<w>>) = w.size
<1>1. <<w>> \in Text /\ Len(<<w>>) = 1 /\ <<w>>[1] = w
  BY DEF Text
<1>2. w.size \in Nat
  BY DEF Word
<1> DEFINE h == [i \in 0..1 |-> IF i = 0 THEN 0 ELSE w.size]
<1>3. h \in [0..1 -> Int] /\ h[0] = 0 /\ h[1] = w.size
  BY <1>2
<1>4. \A i \in 1..1 : h[i] = h[i - 1] + <<w>>[i].size
  BY <1>1, <1>2
<1> HIDE DEF h
<1> QED  BY <1>1, <1>3, <1>4, CountIs

(* A word added to a text adds its size to the count.                      *)
LEMMA CountAppend ==
  ASSUME NEW t \in Text, NEW w \in Word
  PROVE  Append(t, w) \in Text /\ Append(t, w) = t \o <<w>> /\ Count(Append(t, w)) = Count(t) + w.size
<1>1. Append(t, w) = t \o <<w>>
  BY AppendIsConcat DEF Text
<1> QED  BY <1>1, CountSingle, CountConcat

-----------------------------------------------------------------------------
(* F lists the items of the sequences ss[1..n]: row and col say where each *)
(* comes from, every item has one place and no two places have the same    *)
(* item.                                                                   *)
IsPlacing(row, col, F, ss, n) ==
  /\ \A k \in DOMAIN F : /\ row[k] \in 1..n /\ col[k] \in DOMAIN ss[row[k]]
                         /\ F[k] = ss[row[k]][col[k]]
  /\ \A i \in 1..n : \A j \in DOMAIN ss[i] : \E k \in DOMAIN F : row[k] = i /\ col[k] = j
  /\ \A k, l \in DOMAIN F : row[k] = row[l] /\ col[k] = col[l] => k = l

(* Flattening a sequence of sequences appends one after the other.         *)
LEMMA FlattenRuns ==
  ASSUME NEW S, NEW ss \in Seq(Seq(S))
  PROVE  \E f \in [0..Len(ss) -> Seq(S)] :
           /\ f[0] = << >>
           /\ \A i \in 1..Len(ss) : f[i] = f[i - 1] \o ss[i]
           /\ f[Len(ss)] = FlattenSeq(ss)
<1> DEFINE n == Len(ss)
           step == [p \in Seq(S) \X (1..n) |-> p[1] \o ss[p[2]]]
<1>1. n \in Nat /\ << >> \in Seq(S) /\ \A i \in 1..n : ss[i] \in Seq(S)
  BY EmptySeq, LenProperties, ElementOfSeq
<1>2. \A s, t \in Seq(S) : s \o t \in Seq(S)
  BY ConcatProperties
<1> HIDE DEF n
<1>3. step \in [Seq(S) \X (1..n) -> Seq(S)] /\ \A s \in Seq(S), i \in 1..n : step[<<s, i>>] = s \o ss[i]
  BY <1>1, <1>2
<1> HIDE DEF step
<1>4. PICK g \in [SUBSET (1..n) -> Seq(S)] : IsFold(g, n, << >>, step)
  BY <1>1, <1>3, FoldExists, Zenon
<1>5. IsFoldOn(Seq(S), g, n, << >>, step)
  BY <1>4 DEF IsFold, IsFoldOn
<1>6. PICK f \in [0..n -> Seq(S)] : IsRun(f, n, << >>, step, g[1..n])
  BY <1>1, <1>3, <1>5, FoldRuns, Zenon
<1>7. f[0] = << >>
  BY <1>6 DEF IsRun
<1>8. ASSUME NEW i \in 1..n PROVE f[i] = f[i - 1] \o ss[i]
  <2>1. i - 1 \in 0..n
    BY <1>1
  <2>2. f[i - 1] \in Seq(S)
    BY <2>1
  <2> QED  BY <1>3, <1>6, <2>2 DEF IsRun
<1>9. f[n] = FlattenSeq(ss)
  <2>1. CASE n = 0
    BY <1>7, <2>1 DEF FlattenSeq, n
  <2>2. CASE n # 0
    <3> DEFINE flat[i \in 1..n] == IF i = 1 THEN ss[i] ELSE flat[i - 1] \o ss[i]
               h == [i \in 1..n |-> f[i]]
    <3>1. FlattenSeq(ss) = flat[n]
      BY <2>2 DEF FlattenSeq, n
    <3>2. f[1] = ss[1]
      <4>1. 1 \in 1..n /\ 1 - 1 = 0
        BY <1>1, <2>2
      <4>2. f[1] = << >> \o ss[1]
        BY <1>7, <1>8, <4>1
      <4> QED  BY <1>1, <4>1, <4>2, ConcatEmptySeq
    <3>3. h = [i \in 1..n |-> IF i = 1 THEN ss[i] ELSE h[i - 1] \o ss[i]]
      <4>1. ASSUME NEW i \in 1..n, i # 1 PROVE h[i] = h[i - 1] \o ss[i]
        <5>1. i - 1 \in 1..n
          BY <1>1, <4>1
        <5> QED  BY <1>8, <5>1
      <4>2. \A i \in 1..n : i = 1 => h[i] = ss[i]
        BY <3>2
      <4>3. h = [i \in 1..n |-> h[i]]
        OBVIOUS
      <4> HIDE DEF h
      <4> QED  BY <4>1, <4>2, <4>3
    <3> HIDE DEF h
    <3>4. flat = [i \in 1..n |-> IF i = 1 THEN ss[i] ELSE flat[i - 1] \o ss[i]]
      BY <3>3, Zenon
    <3> HIDE DEF flat
    <3> DEFINE T == {i \in 0..n : i # 0 => flat[i] = f[i]}
    <3>5. 0 \in T
      BY <1>1
    <3>6. ASSUME NEW i \in 1..n, i - 1 \in T PROVE i \in T
      <4>1. CASE i = 1
        BY <3>2, <3>4, <4>1
      <4>2. CASE i # 1
        <5>1. i - 1 \in 1..n /\ i - 1 # 0 /\ i \in 0..n
          BY <1>1, <4>2
        <5>2. flat[i] = flat[i - 1] \o ss[i]
          BY <3>4, <4>2
        <5> QED  BY <1>8, <3>6, <5>1, <5>2
      <4> QED  BY <4>1, <4>2
    <3> HIDE DEF T
    <3>7. \A i \in 0..n : i \in T
      BY <1>1, <3>5, <3>6, Upwards
    <3>8. flat[n] = f[n]
      BY <1>1, <2>2, <3>7 DEF T
    <3> QED  BY <3>1, <3>8
  <2> QED  BY <2>1, <2>2
<1> QED
  BY <1>7, <1>8, <1>9 DEF n

(* So it has every item of every sequence exactly once.                    *)
LEMMA FlattenPlaces ==
  ASSUME NEW S, NEW ss \in Seq(Seq(S))
  PROVE  /\ FlattenSeq(ss) \in Seq(S)
         /\ \E row, col \in [DOMAIN FlattenSeq(ss) -> Nat] :
              IsPlacing(row, col, FlattenSeq(ss), ss, Len(ss))
<1> DEFINE n == Len(ss)
<1>1. PICK f \in [0..n -> Seq(S)] :
        /\ f[0] = << >>
        /\ \A i \in 1..n : f[i] = f[i - 1] \o ss[i]
        /\ f[n] = FlattenSeq(ss)
  BY FlattenRuns
<1>2. n \in Nat /\ \A i \in 1..n : ss[i] \in Seq(S)
  BY LenProperties, ElementOfSeq
<1> HIDE DEF n
<1> DEFINE Has(i) == \E row, col \in [DOMAIN f[i] -> Nat] : IsPlacing(row, col, f[i], ss, i)
           T == {i \in 0..n : Has(i)}
<1>3. Has(0)
  <2>1. DOMAIN f[0] = {} /\ 1..0 = {}
    BY <1>1
  <2> DEFINE e == [k \in {} |-> 0]
  <2>2. e \in [DOMAIN f[0] -> Nat] /\ IsPlacing(e, e, f[0], ss, 0)
    BY <2>1 DEF IsPlacing
  <2> HIDE DEF e
  <2> QED  BY <2>2
<1>4. ASSUME NEW i \in 1..n, Has(i - 1) PROVE Has(i)
  <2> DEFINE p == f[i - 1]
             m == Len(p)
             q == Len(ss[i])
  <2>1. PICK row, col \in [DOMAIN p -> Nat] : IsPlacing(row, col, p, ss, i - 1)
    BY <1>4
  <2>2. i \in 0..n /\ i - 1 \in 0..n /\ i \in Nat /\ i - 1 \in Nat
    BY <1>2
  <2>3. p \in Seq(S) /\ ss[i] \in Seq(S) /\ f[i] = p \o ss[i]
    BY <1>1, <1>2, <2>2
  <2>4. m \in Nat /\ q \in Nat /\ DOMAIN p = 1..m /\ DOMAIN ss[i] = 1..q
    BY <2>3, LenProperties
  <2>5. /\ f[i] \in Seq(S) /\ Len(f[i]) = m + q /\ DOMAIN f[i] = 1..m + q
        /\ \A k \in 1..m + q : f[i][k] = IF k <= m THEN p[k] ELSE ss[i][k - m]
    <3> HIDE DEF p
    <3>1. /\ p \o ss[i] \in Seq(S) /\ Len(p \o ss[i]) = m + q
          /\ \A k \in 1..m + q : (p \o ss[i])[k] = IF k <= m THEN p[k] ELSE ss[i][k - m]
      BY <2>3, ConcatProperties
    <3>2. DOMAIN (p \o ss[i]) = 1..m + q
      BY <3>1, LenProperties
    <3> QED  BY <2>3, <3>1, <3>2, Zenon
  <2> HIDE DEF m, q, p
  <2> DEFINE R == [k \in 1..m + q |-> IF k <= m THEN row[k] ELSE i]
             C == [k \in 1..m + q |-> IF k <= m THEN col[k] ELSE k - m]
  <2>6. R \in [1..m + q -> Nat] /\ C \in [1..m + q -> Nat]
    BY <2>2, <2>4
  <2>7. \A k \in 1..m + q : k <= m => k \in DOMAIN p /\ R[k] = row[k] /\ C[k] = col[k] /\ f[i][k] = p[k]
    BY <2>4, <2>5
  <2>8. \A k \in 1..m + q : ~(k <= m) => R[k] = i /\ C[k] = k - m /\ k - m \in 1..q /\ f[i][k] = ss[i][k - m]
    BY <2>4, <2>5
  <2>9. \A k \in DOMAIN p : k \in 1..m + q /\ k <= m
    BY <2>4
  <2>10. \A j \in 1..q : m + j \in 1..m + q /\ ~(m + j <= m) /\ (m + j) - m = j
    BY <2>4
  <2> HIDE DEF R, C
  <2>11. ASSUME NEW k \in 1..m + q
         PROVE  R[k] \in 1..i /\ C[k] \in DOMAIN ss[R[k]] /\ f[i][k] = ss[R[k]][C[k]] /\ (R[k] = i <=> ~(k <= m))
    <3>1. CASE k <= m
      <4>1. k \in DOMAIN p /\ R[k] = row[k] /\ C[k] = col[k] /\ f[i][k] = p[k]
        BY <2>7, <3>1
      <4>2. row[k] \in 1..(i - 1) /\ col[k] \in DOMAIN ss[row[k]] /\ p[k] = ss[row[k]][col[k]]
        BY <2>1, <4>1 DEF IsPlacing
      <4>3. row[k] \in 1..i /\ row[k] # i
        BY <2>2, <4>2
      <4> QED  BY <3>1, <4>1, <4>2, <4>3
    <3>2. CASE ~(k <= m)
      <4>1. R[k] = i /\ C[k] = k - m /\ k - m \in 1..q /\ f[i][k] = ss[i][k - m]
        BY <2>8, <3>2
      <4>2. i \in 1..i
        BY <2>2
      <4> QED  BY <2>4, <3>2, <4>1, <4>2
    <3> QED  BY <3>1, <3>2
  <2>12. ASSUME NEW h \in 1..i, NEW j \in DOMAIN ss[h]
         PROVE  \E k \in 1..m + q : R[k] = h /\ C[k] = j
    <3>1. CASE h = i
      <4>1. m + j \in 1..m + q /\ R[m + j] = i /\ C[m + j] = j
        BY <2>4, <2>8, <2>10, <3>1
      <4> QED  BY <3>1, <4>1
    <3>2. CASE h # i
      <4>1. h \in 1..(i - 1)
        BY <2>2, <3>2
      <4>2. PICK k \in DOMAIN p : row[k] = h /\ col[k] = j
        BY <2>1, <4>1 DEF IsPlacing
      <4> QED  BY <2>7, <2>9, <4>2
    <3> QED  BY <3>1, <3>2
  <2>13. ASSUME NEW k \in 1..m + q, NEW l \in 1..m + q, R[k] = R[l], C[k] = C[l]
         PROVE  k = l
    <3>1. k <= m <=> l <= m
      BY <2>11, <2>13
    <3>2. CASE k <= m
      <4>1. k \in DOMAIN p /\ l \in DOMAIN p /\ row[k] = row[l] /\ col[k] = col[l]
        BY <2>7, <2>13, <3>1, <3>2
      <4> QED  BY <2>1, <4>1 DEF IsPlacing
    <3>3. CASE ~(k <= m)
      <4>1. k - m = l - m
        BY <2>8, <2>13, <3>1, <3>3
      <4> QED  BY <2>4, <4>1
    <3> QED  BY <3>2, <3>3
  <2>14. IsPlacing(R, C, f[i], ss, i)
    <3>0. PICK F : F = f[i]
      OBVIOUS
    <3>1. DOMAIN F = 1..m + q
      BY <2>5, <3>0
    <3>2. \A k \in DOMAIN F : R[k] \in 1..i /\ C[k] \in DOMAIN ss[R[k]] /\ F[k] = ss[R[k]][C[k]]
      BY <2>11, <3>0, <3>1
    <3>3. \A h \in 1..i : \A j \in DOMAIN ss[h] : \E k \in DOMAIN F : R[k] = h /\ C[k] = j
      <4>1. ASSUME NEW h \in 1..i, NEW j \in DOMAIN ss[h] PROVE \E k \in DOMAIN F : R[k] = h /\ C[k] = j
        <5>1. PICK k \in 1..m + q : R[k] = h /\ C[k] = j
          BY <2>12
        <5>2. k \in DOMAIN F
          BY <3>1
        <5> QED  BY <5>1, <5>2
      <4> QED  BY <4>1
    <3>4. \A k, l \in DOMAIN F : R[k] = R[l] /\ C[k] = C[l] => k = l
      BY <2>13, <3>1
    <3>5. IsPlacing(R, C, F, ss, i)
      BY <3>2, <3>3, <3>4, Zenon DEF IsPlacing
    <3> QED  BY <3>0, <3>5
  <2> QED  BY <2>5, <2>6, <2>14
<1> HIDE DEF Has
<1>5. \A i \in 1..n : i - 1 \in T => i \in T
  BY <1>2, <1>4
<1>6. 0 \in T
  BY <1>2, <1>3
<1> HIDE DEF T
<1>7. \A i \in 0..n : i \in T
  BY <1>2, <1>5, <1>6, Upwards
<1>8. n \in 0..n
  BY <1>2
<1>9. Has(n) /\ f[n] \in Seq(S)
  BY <1>7, <1>8 DEF T
<1> QED  BY <1>1, <1>9 DEF Has, n

-----------------------------------------------------------------------------
(* An empty text has no tokens to lose.                                    *)
LEMMA TokensEmpty == Tokens(<< >>) = {}
BY DEF Tokens

(* The tokens of one word.                                                 *)
LEMMA TokensSingle ==
  ASSUME NEW w
  PROVE  Tokens(<<w>>) = WordTokens(w)
<1>1. DOMAIN <<w>> = {1} /\ <<w>>[1] = w
  OBVIOUS
<1> QED  BY <1>1 DEF Tokens

(* Two texts joined have the tokens of both.                               *)
LEMMA TokensConcat ==
  ASSUME NEW s \in Text, NEW t \in Text
  PROVE  Tokens(s \o t) = Tokens(s) \cup Tokens(t)
<1> DEFINE m == Len(s)
           n == Len(t)
<1>1. /\ s \o t \in Text /\ Len(s \o t) = m + n
      /\ \A i \in 1..m + n : (s \o t)[i] = IF i <= m THEN s[i] ELSE t[i - m]
  BY ConcatProperties DEF Text
<1>2. m \in Nat /\ n \in Nat /\ DOMAIN s = 1..m /\ DOMAIN t = 1..n
  BY LenProperties DEF Text
<1>3. DOMAIN (s \o t) = 1..m + n
  BY <1>1, LenProperties DEF Text
<1> HIDE DEF m, n
<1>4. PICK st : st = s \o t
  OBVIOUS
<1>5. ASSUME NEW x \in Tokens(st) PROVE x \in Tokens(s) \cup Tokens(t)
  <2>1. PICK i \in 1..m + n : x \in WordTokens(st[i])
    BY <1>3, <1>4 DEF Tokens
  <2>2. CASE i <= m
    <3>1. i \in DOMAIN s /\ st[i] = s[i]
      BY <1>1, <1>2, <1>4, <2>2
    <3> QED  BY <2>1, <3>1 DEF Tokens
  <2>3. CASE ~(i <= m)
    <3>1. i - m \in DOMAIN t /\ st[i] = t[i - m]
      BY <1>1, <1>2, <1>4, <2>3
    <3> QED  BY <2>1, <3>1 DEF Tokens
  <2> QED  BY <2>2, <2>3
<1>6. ASSUME NEW x \in Tokens(s) PROVE x \in Tokens(st)
  <2>1. PICK i \in 1..m : x \in WordTokens(s[i])
    BY <1>2 DEF Tokens
  <2>2. i \in DOMAIN st /\ st[i] = s[i]
    BY <1>1, <1>2, <1>3, <1>4
  <2> QED  BY <2>1, <2>2 DEF Tokens
<1>7. ASSUME NEW x \in Tokens(t) PROVE x \in Tokens(st)
  <2>1. PICK i \in 1..n : x \in WordTokens(t[i])
    BY <1>2 DEF Tokens
  <2>2. m + i \in 1..m + n /\ ~(m + i <= m) /\ (m + i) - m = i
    BY <1>2
  <2>3. m + i \in DOMAIN st /\ st[m + i] = t[i]
    BY <1>1, <1>3, <1>4, <2>2
  <2> QED  BY <2>1, <2>3 DEF Tokens
<1> QED  BY <1>4, <1>5, <1>6, <1>7

(* A word added to a text adds its tokens.                                 *)
LEMMA TokensAppend ==
  ASSUME NEW t \in Text, NEW w \in Word
  PROVE  Tokens(Append(t, w)) = Tokens(t) \cup WordTokens(w)
BY CountAppend, CountSingle, TokensConcat, TokensSingle

(* Flattened texts have the tokens of all of them.                         *)
LEMMA TokensFlatten ==
  ASSUME NEW ss \in Seq(Text)
  PROVE  FlattenSeq(ss) \in Text /\ Tokens(FlattenSeq(ss)) = UNION {Tokens(ss[i]) : i \in DOMAIN ss}
<1>1. PICK F : F = FlattenSeq(ss)
  OBVIOUS
<1>2. F \in Text
  BY <1>1, FlattenPlaces DEF Text
<1>3. PICK row, col \in [DOMAIN F -> Nat] : IsPlacing(row, col, F, ss, Len(ss))
  BY <1>1, FlattenPlaces DEF Text
<1>4. DOMAIN ss = 1..Len(ss)
  BY LenProperties
<1>5. ASSUME NEW x \in Tokens(F) PROVE \E i \in DOMAIN ss : x \in Tokens(ss[i])
  <2>1. PICK k \in DOMAIN F : x \in WordTokens(F[k])
    BY DEF Tokens
  <2>2. row[k] \in DOMAIN ss /\ col[k] \in DOMAIN ss[row[k]] /\ F[k] = ss[row[k]][col[k]]
    BY <1>3, <1>4 DEF IsPlacing
  <2> QED  BY <2>1, <2>2 DEF Tokens
<1>6. ASSUME NEW i \in DOMAIN ss, NEW x \in Tokens(ss[i]) PROVE x \in Tokens(F)
  <2>1. PICK j \in DOMAIN ss[i] : x \in WordTokens(ss[i][j])
    BY DEF Tokens
  <2>2. PICK k \in DOMAIN F : row[k] = i /\ col[k] = j
    BY <1>3, <1>4 DEF IsPlacing
  <2>3. F[k] = ss[i][j]
    BY <1>3, <2>2 DEF IsPlacing
  <2> QED  BY <2>1, <2>3 DEF Tokens
<1> QED  BY <1>1, <1>2, <1>5, <1>6

(* The end of a text has only tokens of the text, and those of its last    *)
(* word.                                                                   *)
LEMMA TokensSubSeq ==
  ASSUME NEW t \in Text, NEW i \in 1..Len(t) + 1
  PROVE  /\ SubSeq(t, i, Len(t)) \in Text
         /\ Tokens(SubSeq(t, i, Len(t))) \subseteq Tokens(t)
         /\ i <= Len(t) => WordTokens(t[Len(t)]) \subseteq Tokens(SubSeq(t, i, Len(t)))
<1>1. PICK n : n = Len(t)
  OBVIOUS
<1>2. n \in Nat /\ DOMAIN t = 1..n /\ i \in Int /\ i >= 1 /\ i <= n + 1
  BY <1>1, LenProperties DEF Text
<1>3. \A j \in i..n : t[j] \in Word
  BY <1>1, <1>2, ElementOfSeq DEF Text
<1>4. PICK u : u = SubSeq(t, i, n)
  OBVIOUS
<1>5. u \in Text /\ Len(u) = (IF i <= n THEN n - i + 1 ELSE 0) /\ \A j \in 1..n - i + 1 : u[j] = t[i + j - 1]
  BY <1>2, <1>3, <1>4, SubSeqProperties DEF Text
<1>6. DOMAIN u = 1..n - i + 1
  <2>1. DOMAIN u = 1..Len(u)
    BY <1>5, LenProperties DEF Text
  <2>2. ~(i <= n) => 1..n - i + 1 = {} /\ 1..0 = {}
    BY <1>2
  <2> QED  BY <1>5, <2>1, <2>2
<1>7. ASSUME NEW x \in Tokens(u) PROVE x \in Tokens(t)
  <2>1. PICK j \in 1..n - i + 1 : x \in WordTokens(u[j])
    BY <1>6 DEF Tokens
  <2>2. i + j - 1 \in DOMAIN t /\ u[j] = t[i + j - 1]
    BY <1>2, <1>5
  <2> QED  BY <2>1, <2>2 DEF Tokens
<1>8. ASSUME i <= n PROVE WordTokens(t[n]) \subseteq Tokens(u)
  <2>1. n - i + 1 \in 1..n - i + 1 /\ i + (n - i + 1) - 1 = n
    BY <1>2, <1>8
  <2>2. u[n - i + 1] = t[n]
    BY <1>5, <2>1
  <2> QED  BY <1>6, <2>1, <2>2 DEF Tokens
<1> QED  BY <1>1, <1>4, <1>5, <1>7, <1>8

-----------------------------------------------------------------------------
(* A product grows with its factor.                                        *)
LEMMA Times ==
  ASSUME NEW a \in Int, NEW b \in Int, NEW c \in Nat, a <= b
  PROVE  a * c <= b * c
OBVIOUS

(* A function on 1..n is a sequence.                                       *)
LEMMA AsSeq ==
  ASSUME NEW S, NEW n \in Nat, NEW f \in [1..n -> S]
  PROVE  f \in Seq(S) /\ Len(f) = n /\ DOMAIN f = 1..n
<1>1. f \in Seq(S)
  BY SeqDef
<1>2. DOMAIN f = 1..n /\ DOMAIN f = 1..Len(f) /\ Len(f) \in Nat
  BY <1>1, LenProperties
<1> QED  BY <1>1, <1>2

(* _hard_split_word: the pieces of a word are no longer than a window and  *)
(* have the tokens of the word between them.                               *)
LEMMA PiecesFit ==
  ASSUME NEW word \in Word, NEW max \in Nat \ {0}
  PROVE  /\ Pieces(word, max) \in Text
         /\ \A k \in DOMAIN Pieces(word, max) : Pieces(word, max)[k].size <= max
         /\ Tokens(Pieces(word, max)) = WordTokens(word)
<1> DEFINE n == (word.size + max - 1) \div max
           size(k) == IF k < n THEN max ELSE word.size - (n - 1) * max
           piece == [k \in 1..n |-> [id |-> word.id, from |-> word.from + (k - 1) * max, size |-> size(k)]]
<1>1. word.id \in WordIds /\ word.from \in Nat /\ word.size \in Nat \ {0}
  BY DEF Word
<1>2. n \in Int /\ n * max <= word.size + max - 1 /\ word.size + max - 1 < (n + 1) * max
  BY <1>1
<1>3. Pieces(word, max) = piece
  BY DEF Pieces
<1> HIDE DEF n
<1>4. (n - 1) * max = n * max - max /\ (n + 1) * max = n * max + max /\ n * max \in Int
  BY <1>2
<1>5. (n - 1) * max < word.size /\ word.size <= n * max
  BY <1>1, <1>2, <1>4
<1>6. n >= 1
  <2> SUFFICES ASSUME n <= 0 PROVE FALSE
    BY <1>2
  <2> HIDE DEF size, piece
  <2>1. n * max <= 0 * max /\ 0 * max = 0
    BY <1>2, Times
  <2> QED  BY <1>1, <1>4, <1>5, <2>1
<1>7. ASSUME NEW k \in 1..n
      PROVE  /\ word.from + (k - 1) * max \in Nat
             /\ size(k) \in Nat \ {0} /\ size(k) <= max
             /\ (k - 1) * max + size(k) <= word.size
  <2>1. (k - 1) * max \in Int /\ 0 * max <= (k - 1) * max
    BY <1>2, Times
  <2>2. size(k) \in Nat \ {0} /\ size(k) <= max
    BY <1>1, <1>4, <1>5
  <2>3. CASE k < n
    <3>1. k * max <= (n - 1) * max
      BY <1>2, <2>3, Times
    <3>2. k * max = (k - 1) * max + max
      OBVIOUS
    <3> QED  BY <1>1, <1>4, <1>5, <2>1, <2>2, <2>3, <3>1, <3>2
  <2>4. CASE ~(k < n)
    <3>1. k = n
      BY <1>2, <2>4
    <3> QED  BY <1>1, <1>4, <2>1, <2>2, <3>1
  <2> QED  BY <1>1, <2>1, <2>2, <2>3, <2>4
<1> HIDE DEF size
<1>8. \A k \in 1..n : piece[k] = [id |-> word.id, from |-> word.from + (k - 1) * max, size |-> size(k)]
  OBVIOUS
<1>9. piece \in [1..n -> Word]
  BY <1>1, <1>7 DEF Word
<1> HIDE DEF piece
<1>10. piece \in Text /\ DOMAIN piece = 1..n
  BY <1>2, <1>6, <1>9, AsSeq DEF Text
<1>11. ASSUME NEW x \in Tokens(piece) PROVE x \in WordTokens(word)
  <2>1. PICK k \in 1..n : x \in WordTokens(piece[k])
    BY <1>10 DEF Tokens
  <2>2. PICK j \in 0..size(k) - 1 : x = <<word.id, (word.from + (k - 1) * max) + j>>
    <3>1. PICK p : p = piece[k]
      OBVIOUS
    <3>a. p = [id |-> word.id, from |-> word.from + (k - 1) * max, size |-> size(k)]
      BY <1>8, <3>1, Zenon
    <3>2. p.id = word.id /\ p.from = word.from + (k - 1) * max /\ p.size = size(k)
      BY <3>a
    <3>3. \E j \in 0..p.size - 1 : x = <<p.id, p.from + j>>
      BY <2>1, <3>1 DEF WordTokens
    <3> QED  BY <3>2, <3>3, Zenon
  <2> DEFINE o == (k - 1) * max
  <2>3. o \in Int /\ 0 * max <= o /\ o + size(k) <= word.size /\ size(k) \in Nat
    BY <1>2, <1>7, Times
  <2>4. x = <<word.id, (word.from + o) + j>>
    BY <2>2
  <2> HIDE DEF o
  <2>5. o + j \in 0..word.size - 1 /\ (word.from + o) + j = word.from + (o + j)
    BY <1>1, <2>3
  <2>6. x = <<word.id, word.from + (o + j)>>
    BY <2>4, <2>5
  <2> QED  BY <2>5, <2>6 DEF WordTokens
<1>12. ASSUME NEW x \in WordTokens(word) PROVE x \in Tokens(piece)
  <2>1. PICK j \in 0..word.size - 1 : x = <<word.id, word.from + j>>
    BY DEF WordTokens
  <2> DEFINE q == j \div max
             o == q * max
  <2>2. q \in Int /\ o <= j /\ j < (q + 1) * max /\ (q + 1) * max = o + max /\ o \in Int
    BY <1>1, <2>1
  <2> HIDE DEF q
  <2>3. q >= 0
    <3> SUFFICES ASSUME q + 1 <= 0 PROVE FALSE
      BY <2>2
    <3>1. (q + 1) * max <= 0 * max /\ 0 * max = 0
      BY <2>2, Times
    <3> QED  BY <1>1, <2>1, <2>2, <3>1
  <2>4. q < n
    <3> SUFFICES ASSUME n <= q PROVE FALSE
      BY <1>2, <2>2
    <3>1. n * max <= q * max
      BY <1>2, <2>2, Times
    <3> QED  BY <1>1, <1>4, <1>5, <2>2, <3>1
  <2>5. q + 1 \in 1..n /\ (q + 1) - 1 = q
    BY <1>2, <2>2, <2>3, <2>4
  <2>6. size(q + 1) = IF q + 1 < n THEN max ELSE word.size - o
    <3>1. q + 1 < n \/ q = n - 1
      BY <1>2, <2>2, <2>4
    <3> QED  BY <1>2, <2>2, <3>1 DEF size
  <2>7. piece[q + 1] = [id |-> word.id, from |-> word.from + o, size |-> size(q + 1)]
    BY <1>8, <2>5
  <2> HIDE DEF o
  <2>8. j - o \in 0..size(q + 1) - 1 /\ (word.from + o) + (j - o) = word.from + j
    BY <1>1, <2>2, <2>6
  <2>9. x \in WordTokens(piece[q + 1])
    BY <2>1, <2>7, <2>8 DEF WordTokens
  <2> QED  BY <1>10, <2>5, <2>9 DEF Tokens
<1> QED
  BY <1>3, <1>7, <1>8, <1>10, <1>11, <1>12

(* The words a window is filled with are no longer than one and have the   *)
(* tokens of the text.                                                     *)
LEMMA AtomizeFits ==
  ASSUME NEW text \in Text, NEW max \in Nat \ {0}
  PROVE  /\ Atomize(text, max) \in Text
         /\ \A k \in DOMAIN Atomize(text, max) : Atomize(text, max)[k].size <= max
         /\ Tokens(Atomize(text, max)) = Tokens(text)
<1> DEFINE cut == [i \in DOMAIN text |->
                     IF text[i].size <= max THEN <<text[i]>> ELSE Pieces(text[i], max)]
<1>1. \A i \in DOMAIN text : text[i] \in Word
  BY ElementOfSeq, LenProperties DEF Text
<1>2. ASSUME NEW i \in DOMAIN text
      PROVE  /\ cut[i] \in Text
             /\ \A j \in DOMAIN cut[i] : cut[i][j].size <= max
             /\ Tokens(cut[i]) = WordTokens(text[i])
  <2>1. CASE text[i].size <= max
    <3>1. cut[i] = <<text[i]>> /\ \A j \in DOMAIN <<text[i]>> : <<text[i]>>[j] = text[i]
      BY <2>1
    <3> QED  BY <1>1, <2>1, <3>1, CountSingle, TokensSingle
  <2>2. CASE ~(text[i].size <= max)
    <3>1. cut[i] = Pieces(text[i], max)
      BY <2>2
    <3> HIDE DEF cut
    <3> QED  BY <1>1, <3>1, PiecesFit
  <2> QED  BY <2>1, <2>2
<1>3. DOMAIN cut = DOMAIN text /\ DOMAIN text = 1..Len(text) /\ Len(text) \in Nat
  BY LenProperties DEF Text
<1>4. Atomize(text, max) = FlattenSeq(cut) /\ cut = [i \in DOMAIN text |-> cut[i]]
  BY DEF Atomize
<1> HIDE DEF cut
<1>5. cut \in [1..Len(text) -> Text]
  BY <1>2, <1>3, <1>4
<1>6. cut \in Seq(Text) /\ Len(cut) = Len(text)
  BY <1>3, <1>5, AsSeq
<1>7. PICK F : F = FlattenSeq(cut)
  OBVIOUS
<1>8. F \in Text /\ Tokens(F) = UNION {Tokens(cut[i]) : i \in DOMAIN cut}
  BY <1>6, <1>7, TokensFlatten
<1>9. PICK row, col \in [DOMAIN F -> Nat] : IsPlacing(row, col, F, cut, Len(cut))
  BY <1>6, <1>7, FlattenPlaces DEF Text
<1>10. ASSUME NEW k \in DOMAIN F PROVE F[k].size <= max
  <2>1. row[k] \in DOMAIN text /\ col[k] \in DOMAIN cut[row[k]] /\ F[k] = cut[row[k]][col[k]]
    BY <1>3, <1>6, <1>9 DEF IsPlacing
  <2> QED  BY <1>2, <2>1
<1>11. Tokens(F) = Tokens(text)
  <2>1. \A x : x \in Tokens(F) <=> \E i \in DOMAIN text : x \in Tokens(cut[i])
    BY <1>3, <1>8
  <2>2. \A x : x \in Tokens(text) <=> \E i \in DOMAIN text : x \in WordTokens(text[i])
    BY DEF Tokens
  <2>3. \A i \in DOMAIN text : Tokens(cut[i]) = WordTokens(text[i])
    BY <1>2
  <2>4. \A x : x \in Tokens(F) <=> x \in Tokens(text)
    BY <2>1, <2>2, <2>3
  <2> QED  BY <2>4
<1> QED  BY <1>4, <1>7, <1>8, <1>10, <1>11

(* The least of a nonempty set of numbers.                                 *)
LEMMA MinFacts ==
  ASSUME NEW T, T \subseteq Nat, T # {}
  PROVE  Min(T) \in T /\ \A k \in T : Min(T) <= k
<1>1. \E m \in T : \A k \in T : m <= k
  BY Least
<1> QED  BY <1>1 DEF Min

(* _overlap_tail: an end of the window within the limit; it keeps the last *)
(* word where that fits.                                                   *)
LEMMA LongestTailFits ==
  ASSUME NEW text \in Text, NEW limit \in Nat
  PROVE  /\ LongestTail(text, limit) \in Text
         /\ Count(LongestTail(text, limit)) <= limit
         /\ Tokens(LongestTail(text, limit)) \subseteq Tokens(text)
         /\ text # << >> /\ text[Len(text)].size <= limit =>
              WordTokens(text[Len(text)]) \subseteq Tokens(LongestTail(text, limit))
<1> DEFINE n == Len(text)
           fits == {i \in 1..n + 1 : Count(SubSeq(text, i, n)) <= limit}
<1>1. n \in Nat
  BY LenProperties DEF Text
<1>2. n + 1 \in fits
  <2>1. SubSeq(text, n + 1, n) = << >>
    BY <1>1, SubSeqEmpty
  <2>2. n + 1 \in 1..n + 1 /\ 0 <= limit
    BY <1>1
  <2> QED  BY <2>1, <2>2, CountEmpty
<1>3. fits \subseteq Nat
  OBVIOUS
<1>4. Min(fits) \in fits /\ \A k \in fits : Min(fits) <= k
  BY <1>2, <1>3, MinFacts
<1>5. LongestTail(text, limit) = SubSeq(text, Min(fits), n)
  BY DEF LongestTail
<1>6. ASSUME text # << >>, text[n].size <= limit PROVE Min(fits) <= n
  <2>1. n \in 1..n /\ text[n] \in Word
    <3>1. n # 0
      BY <1>6, EmptySeq DEF Text
    <3> QED  BY <1>1, <3>1, ElementOfSeq DEF Text
  <2>2. SubSeq(text, n, n) = <<text[n]>>
    <3> HIDE DEF n
    <3>1. n \in Int /\ \A i \in n..n : text[i] \in Word
      BY <2>1
    <3>2. /\ SubSeq(text, n, n) \in Seq(Word) /\ Len(SubSeq(text, n, n)) = 1
          /\ SubSeq(text, n, n)[1] = text[n]
      BY <3>1, SubSeqProperties
    <3>3. PICK u, v : u = SubSeq(text, n, n) /\ v = <<text[n]>>
      OBVIOUS
    <3>4. v \in Seq(Word) /\ Len(v) = 1 /\ v[1] = text[n]
      BY <2>1, <3>3
    <3>5. u \in Seq(Word) /\ Len(u) = Len(v) /\ \A i \in 1..Len(u) : u[i] = v[i]
      BY <3>2, <3>3, <3>4
    <3>6. u = v
      BY <3>4, <3>5, SeqEqual
    <3> QED  BY <3>3, <3>6
  <2>3. n \in fits
    <3>1. Count(SubSeq(text, n, n)) <= limit
      BY <1>6, <2>1, <2>2, CountSingle
    <3>2. n \in 1..n + 1
      BY <1>1, <2>1
    <3> QED  BY <3>1, <3>2
  <2> QED  BY <1>4, <2>3
<1> HIDE DEF fits
<1>7. Min(fits) \in 1..n + 1 /\ Count(SubSeq(text, Min(fits), n)) <= limit
  BY <1>4 DEF fits
<1> QED  BY <1>5, <1>6, <1>7, TokensSubSeq

(* The state of the loop of TokenCounter.split.                            *)
Windows == [done: Seq(Text), cur: Text]

(* No window is longer than allowed.                                       *)
WindowsFit(w, max) == Count(w.cur) <= max /\ \A i \in DOMAIN w.done : Count(w.done[i]) <= max

(* The tokens of the windows that are done and of the one being filled.    *)
WindowTokens(w) == Tokens(w.cur) \cup UNION {Tokens(w.done[i]) : i \in DOMAIN w.done}

(* A text added to a list adds its tokens.                                 *)
LEMMA AppendCovers ==
  ASSUME NEW ts \in Seq(Text), NEW t \in Text
  PROVE  /\ Append(ts, t) \in Seq(Text) /\ DOMAIN Append(ts, t) = DOMAIN ts \cup {Len(ts) + 1}
         /\ \A i \in DOMAIN ts : Append(ts, t)[i] = ts[i]
         /\ Append(ts, t)[Len(ts) + 1] = t
         /\ UNION {Tokens(Append(ts, t)[i]) : i \in DOMAIN Append(ts, t)}
              = Tokens(t) \cup UNION {Tokens(ts[i]) : i \in DOMAIN ts}
<1>1. PICK u : u = Append(ts, t)
  OBVIOUS
<1>2. /\ u \in Seq(Text) /\ Len(u) = Len(ts) + 1
      /\ \A i \in 1..Len(ts) : u[i] = ts[i]
      /\ u[Len(ts) + 1] = t
  BY <1>1, AppendProperties
<1>3. Len(ts) \in Nat /\ DOMAIN ts = 1..Len(ts) /\ DOMAIN u = 1..Len(ts) + 1
  BY <1>2, LenProperties
<1>4. DOMAIN u = DOMAIN ts \cup {Len(ts) + 1}
  BY <1>3
<1>5. \A x : x \in UNION {Tokens(u[i]) : i \in DOMAIN u}
               <=> x \in Tokens(t) \/ x \in UNION {Tokens(ts[i]) : i \in DOMAIN ts}
  BY <1>2, <1>3, <1>4
<1> QED  BY <1>1, <1>2, <1>3, <1>4, <1>5

(* A turn of the loop keeps every window within its size, loses no token,  *)
(* and leaves a window that is not empty.                                  *)
LEMMA NextWindowFits ==
  ASSUME NEW max \in Nat \ {0}, NEW overlap \in Nat, NEW w \in Windows, NEW atom \in Word
  PROVE  LET v == NextWindow(max, overlap, w, atom) IN
         /\ v \in Windows
         /\ WindowsFit(w, max) /\ atom.size <= max =>
              /\ WindowsFit(v, max)
              /\ WindowTokens(v) = WindowTokens(w) \cup WordTokens(atom)
              /\ v.cur # << >>
<1>1. PICK v : v = NextWindow(max, overlap, w, atom)
  OBVIOUS
<1>2. w.done \in Seq(Text) /\ w.cur \in Text
  BY DEF Windows
<1>3. Append(w.cur, atom) \in Text
  BY <1>2, CountAppend
<1>4. Append(w.cur, atom) # << >>
  BY <1>2, AppendProperties DEF Text
<1>5. CASE w.cur # <<>> /\ Count(Append(w.cur, atom)) > max
  <2>1. PICK t : t = LongestTail(w.cur, overlap)
    OBVIOUS
  <2>2. t \in Text /\ Tokens(t) \subseteq Tokens(w.cur)
    BY <1>2, <2>1, LongestTailFits
  <2>3. PICK u : u = Append(t, atom)
    OBVIOUS
  <2>4. u \in Text /\ u # << >> /\ u[Len(u)] = atom /\ Tokens(u) = Tokens(t) \cup WordTokens(atom)
    BY <2>2, <2>3, AppendProperties, TokensAppend DEF Text
  <2>5. PICK c : c = LongestTail(u, max)
    OBVIOUS
  <2>6. /\ c \in Text /\ Count(c) <= max /\ Tokens(c) \subseteq Tokens(u)
        /\ atom.size <= max => WordTokens(atom) \subseteq Tokens(c)
    BY <2>4, <2>5, LongestTailFits
  <2>7. v.done = Append(w.done, w.cur) /\ v.cur = c /\ v = [done |-> v.done, cur |-> v.cur]
    BY <1>1, <1>5, <2>1, <2>3, <2>5 DEF NextWindow
  <2>8. v \in Windows
    <3>1. w.done \in Seq(Text) /\ w.cur \in Text
      BY <1>2 DEF Windows
    <3>2. v.done \in Seq(Text)
      BY <2>7, <3>1, AppendProperties
    <3>3. v.cur \in Text
      BY <2>6, <2>7
    <3> QED  BY <2>7, <3>2, <3>3 DEF Windows
  <2>9. ASSUME WindowsFit(w, max), atom.size <= max PROVE WindowsFit(v, max)
    <3>1. \A i \in DOMAIN v.done : Count(v.done[i]) <= max
      BY <1>2, <2>7, <2>9, AppendCovers DEF WindowsFit
    <3> QED  BY <2>6, <2>7, <3>1 DEF WindowsFit
  <2>10. ASSUME atom.size <= max PROVE WindowTokens(v) = WindowTokens(w) \cup WordTokens(atom)
    <3>1. UNION {Tokens(v.done[i]) : i \in DOMAIN v.done} = WindowTokens(w)
      BY <1>2, <2>7, AppendCovers DEF WindowTokens
    <3>2. WindowTokens(v) = Tokens(c) \cup WindowTokens(w)
      BY <2>7, <3>1 DEF WindowTokens
    <3>3. Tokens(w.cur) \subseteq WindowTokens(w)
      BY DEF WindowTokens
    <3> QED  BY <2>2, <2>4, <2>6, <2>10, <3>2, <3>3
  <2>11. atom.size <= max => v.cur # << >>
    <3>1. atom.size \in Nat \ {0} /\ atom.from \in Nat
      BY DEF Word
    <3>2. WordTokens(atom) # {}
      <4>1. 0 \in 0..atom.size - 1
        BY <3>1
      <4> QED  BY <4>1 DEF WordTokens
    <3> QED  BY <2>6, <2>7, <3>2, TokensEmpty
  <2> QED  BY <1>1, <2>8, <2>9, <2>10, <2>11
<1>6. CASE ~(w.cur # <<>> /\ Count(Append(w.cur, atom)) > max)
  <2>1. v.done = w.done /\ v.cur = Append(w.cur, atom) /\ v \in Windows
    BY <1>1, <1>2, <1>3, <1>6 DEF NextWindow, Windows
  <2>2. ASSUME WindowsFit(w, max), atom.size <= max PROVE WindowsFit(v, max)
    <3>1. Count(Append(w.cur, atom)) <= max
      <4>1. CASE w.cur = << >>
        <5>1. Count(w.cur) = 0 /\ atom.size \in Nat
          BY <4>1, CountEmpty DEF Word
        <5>2. Count(Append(w.cur, atom)) = 0 + atom.size
          BY <1>2, <5>1, CountAppend
        <5> QED  BY <2>2, <5>1, <5>2
      <4>2. CASE w.cur # << >>
        BY <1>3, <1>6, <4>2, CountType
      <4> QED  BY <4>1, <4>2
    <3> QED  BY <2>1, <2>2, <3>1 DEF WindowsFit
  <2>3. WindowTokens(v) = WindowTokens(w) \cup WordTokens(atom)
    BY <1>2, <2>1, TokensAppend DEF WindowTokens
  <2> QED  BY <1>1, <1>4, <2>1, <2>2, <2>3
<1> QED  BY <1>5, <1>6

(* The loop begins with no window.                                         *)
NoWindow == [done |-> << >>, cur |-> << >>]

(* Split runs the loop over its words.                                     *)
LEMMA WindowRuns ==
  ASSUME NEW max \in Nat \ {0}, NEW overlap \in Nat, NEW atoms \in Text
  PROVE  \E f \in [0..Len(atoms) -> Windows] :
           /\ f[0] = NoWindow
           /\ \A i \in 1..Len(atoms) : f[i] = NextWindow(max, overlap, f[i - 1], atoms[i])
           /\ f[Len(atoms)] = FoldLeft(LAMBDA w, atom : NextWindow(max, overlap, w, atom),
                                      [done |-> << >>, cur |-> << >>], atoms)
<1> DEFINE n == Len(atoms)
           base == [done |-> << >>, cur |-> << >>]
           iter[t \in SUBSET DOMAIN atoms] ==
             IF t = {} THEN base
             ELSE LET x == Max(t) IN NextWindow(max, overlap, iter[t \ {x}], atoms[x])
           step == [p \in Windows \X (1..n) |-> NextWindow(max, overlap, p[1], atoms[p[2]])]
           last == FoldLeft(LAMBDA w, atom : NextWindow(max, overlap, w, atom), base, atoms)
<1>1. last = iter[DOMAIN atoms]
  BY DEF FoldLeft, MapThenFoldSet
<1>2. n \in Nat /\ DOMAIN atoms = 1..n
  BY LenProperties DEF Text
<1>3. base \in Windows /\ base = NoWindow
  <2>1. << >> \in Text /\ << >> \in Seq(Text)
    BY EmptySeq DEF Text
  <2> QED  BY <2>1 DEF Windows, NoWindow
<1>a. \A w \in Windows, i \in 1..n : NextWindow(max, overlap, w, atoms[i]) \in Windows
  <2>1. \A i \in 1..n : atoms[i] \in Word
    BY ElementOfSeq DEF Text
  <2> QED  BY <2>1, NextWindowFits
<1> HIDE DEF n, base, last
<1>4. /\ step \in [Windows \X (1..n) -> Windows]
      /\ \A w \in Windows, i \in 1..n : step[<<w, i>>] = NextWindow(max, overlap, w, atoms[i])
  BY <1>a
<1> HIDE DEF step
<1>5. PICK g \in [SUBSET (1..n) -> Windows] : IsFold(g, n, base, step)
  BY <1>2, <1>3, <1>4, FoldExists, Zenon
<1>6. \A t \in SUBSET (1..n) : t # {} => Max(t) \in 1..n /\ t \ {Max(t)} \in SUBSET (1..n)
  BY <1>2, MaxFacts
<1>7. g = [t \in SUBSET DOMAIN atoms |->
             IF t = {} THEN base
             ELSE LET x == Max(t) IN NextWindow(max, overlap, g[t \ {x}], atoms[x])]
  <2>1. ASSUME NEW t \in SUBSET (1..n), t # {}
        PROVE  g[t] = NextWindow(max, overlap, g[t \ {Max(t)}], atoms[Max(t)])
    BY <1>4, <1>5, <1>6, <2>1 DEF IsFold
  <2>2. g[{}] = base
    BY <1>5 DEF IsFold
  <2> QED  BY <1>2, <1>5, <2>1, <2>2
<1>8. iter = [t \in SUBSET DOMAIN atoms |->
                IF t = {} THEN base
                ELSE LET x == Max(t) IN NextWindow(max, overlap, iter[t \ {x}], atoms[x])]
  BY <1>7, Zenon
<1> HIDE DEF iter
<1>9. IsFoldOn(Windows, iter, n, base, step)
  <2>1. ASSUME NEW s \in SUBSET (1..n), s # {}, iter[s \ {Max(s)}] \in Windows
        PROVE  iter[s] = step[<<iter[s \ {Max(s)}], Max(s)>>]
    <3>1. iter[s] = NextWindow(max, overlap, iter[s \ {Max(s)}], atoms[Max(s)])
      BY <1>2, <1>8, <2>1
    <3> QED  BY <1>4, <1>6, <2>1, <3>1
  <2> QED  BY <1>8, <2>1 DEF IsFoldOn
<1>10. PICK f \in [0..n -> Windows] : IsRun(f, n, base, step, iter[1..n])
  BY <1>2, <1>3, <1>4, <1>9, FoldRuns, Zenon
<1>11. ASSUME NEW i \in 1..n PROVE f[i] = NextWindow(max, overlap, f[i - 1], atoms[i])
  <2>1. i - 1 \in 0..n
    BY <1>2
  <2>2. f[i - 1] \in Windows
    BY <2>1
  <2> QED  BY <1>4, <1>10, <2>2 DEF IsRun
<1>12. f[0] = NoWindow /\ f[n] = last
  BY <1>1, <1>2, <1>3, <1>10 DEF IsRun
<1> QED
  BY <1>11, <1>12 DEF n, last, base

(* TokenCounter.split: windows within their size that have all the tokens  *)
(* of the text, at least one where there is a text.                        *)
LEMMA SplitFits ==
  ASSUME NEW text \in Text, NEW max \in Nat \ {0}, NEW overlap \in Nat
  PROVE  /\ Split(text, max, overlap) \in Seq(Text)
         /\ \A i \in DOMAIN Split(text, max, overlap) : Count(Split(text, max, overlap)[i]) <= max
         /\ UNION {Tokens(Split(text, max, overlap)[i]) : i \in DOMAIN Split(text, max, overlap)}
              = Tokens(text)
         /\ text # << >> => Split(text, max, overlap) # << >>
<1> DEFINE last == FoldLeft(LAMBDA w, atom : NextWindow(max, overlap, w, atom),
                            [done |-> <<>>, cur |-> <<>>], Atomize(text, max))
<1>1. PICK atoms : atoms = Atomize(text, max)
  OBVIOUS
<1>2. atoms \in Text /\ (\A k \in DOMAIN atoms : atoms[k].size <= max) /\ Tokens(atoms) = Tokens(text)
  BY <1>1, AtomizeFits
<1> DEFINE n == Len(atoms)
<1>3. n \in Nat /\ DOMAIN atoms = 1..n /\ \A i \in 1..n : atoms[i] \in Word
  BY <1>2, LenProperties, ElementOfSeq DEF Text
<1>4. PICK f \in [0..n -> Windows] :
         /\ f[0] = NoWindow
         /\ \A i \in 1..n : f[i] = NextWindow(max, overlap, f[i - 1], atoms[i])
         /\ f[n] = last
  <2>1. last = FoldLeft(LAMBDA w, atom : NextWindow(max, overlap, w, atom), [done |-> <<>>, cur |-> <<>>], atoms)
    BY <1>1
  <2> HIDE DEF last
  <2>2. \E f \in [0..n -> Windows] :
           /\ f[0] = NoWindow
           /\ \A i \in 1..n : f[i] = NextWindow(max, overlap, f[i - 1], atoms[i])
           /\ f[n] = FoldLeft(LAMBDA w, atom : NextWindow(max, overlap, w, atom),
                              [done |-> <<>>, cur |-> <<>>], atoms)
    BY <1>2, WindowRuns
  <2> QED  BY <2>1, <2>2
<1> HIDE DEF n, last
<1> DEFINE Good(i) == WindowsFit(f[i], max) /\ WindowTokens(f[i]) = UNION {WordTokens(atoms[k]) : k \in 1..i}
           T == {i \in 0..n : Good(i)}
<1>5. Good(0)
  <2>1. f[0].done = << >> /\ f[0].cur = << >> /\ DOMAIN << >> = {} /\ 1..0 = {}
    BY <1>4 DEF NoWindow
  <2> QED  BY <2>1, CountEmpty, TokensEmpty DEF WindowsFit, WindowTokens
<1>6. ASSUME NEW i \in 1..n, Good(i - 1) PROVE Good(i)
  <2>1. i - 1 \in 0..n /\ i \in DOMAIN atoms /\ 1..i = (1..(i - 1)) \cup {i}
    BY <1>3
  <2>2. PICK w : w = f[i - 1]
    OBVIOUS
  <2>3. w \in Windows /\ WindowsFit(w, max) /\ WindowTokens(w) = UNION {WordTokens(atoms[k]) : k \in 1..(i - 1)}
    BY <1>6, <2>1, <2>2
  <2>4. f[i] = NextWindow(max, overlap, w, atoms[i]) /\ atoms[i] \in Word /\ atoms[i].size <= max
    BY <1>2, <1>3, <1>4, <2>1, <2>2
  <2>5. WindowsFit(f[i], max) /\ WindowTokens(f[i]) = WindowTokens(w) \cup WordTokens(atoms[i])
    <3>1. PICK a, v : a = atoms[i] /\ v = NextWindow(max, overlap, w, a)
      OBVIOUS
    <3>a. a \in Word /\ a.size <= max /\ w \in Windows /\ WindowsFit(w, max)
      BY <2>3, <2>4, <3>1
    <3>2. WindowsFit(v, max) /\ WindowTokens(v) = WindowTokens(w) \cup WordTokens(a)
      BY <3>1, <3>a, NextWindowFits
    <3>3. f[i] = v
      BY <2>4, <3>1
    <3> QED  BY <3>1, <3>2, <3>3
  <2> QED  BY <2>1, <2>3, <2>5
<1> HIDE DEF Good
<1>7. \A i \in 1..n : i - 1 \in T => i \in T
  BY <1>3, <1>6
<1>8. 0 \in T
  BY <1>3, <1>5
<1> HIDE DEF T
<1>9. \A i \in 0..n : i \in T
  BY <1>3, <1>7, <1>8, Upwards
<1>10. n \in 0..n /\ f[n] \in Windows
  BY <1>3
<1>11. WindowsFit(last, max) /\ WindowTokens(last) = Tokens(text) /\ last \in Windows
  <2>1. Good(n)
    BY <1>9, <1>10 DEF T
  <2> QED  BY <1>2, <1>3, <1>4, <1>10, <2>1 DEF Good, Tokens
<1>12. /\ Append(last.done, last.cur) \in Seq(Text) /\ Append(last.done, last.cur) # << >>
       /\ \A i \in DOMAIN Append(last.done, last.cur) : Count(Append(last.done, last.cur)[i]) <= max
       /\ UNION {Tokens(Append(last.done, last.cur)[i]) : i \in DOMAIN Append(last.done, last.cur)} = Tokens(text)
  <2>1. last.done \in Seq(Text) /\ last.cur \in Text
    BY <1>11 DEF Windows
  <2> QED  BY <1>11, <2>1, AppendCovers, AppendProperties DEF WindowsFit, WindowTokens
<1>13. CASE text = << >>
  <2>1. Split(text, max, overlap) = << >> /\ DOMAIN << >> = {}
    BY <1>13 DEF Split
  <2> QED  BY <1>13, <2>1, TokensEmpty, EmptySeq
<1>14. CASE text # << >> /\ Count(text) <= max
  <2>1. Split(text, max, overlap) = <<text>>
    BY <1>14 DEF Split
  <2>2. <<text>> \in Seq(Text) /\ DOMAIN <<text>> = {1} /\ <<text>>[1] = text /\ <<text>> # << >>
    OBVIOUS
  <2> QED  BY <1>14, <2>1, <2>2
<1>15. CASE text # << >> /\ ~(Count(text) <= max)
  <2>1. Split(text, max, overlap) = Append(last.done, last.cur)
    BY <1>15 DEF Split, last
  <2> QED  BY <1>12, <2>1
<1> QED  BY <1>13, <1>14, <1>15

(* No text of a list is longer than max.                                   *)
AllFit(ts, max) == \A i \in DOMAIN ts : Count(ts[i]) <= max

(* The tokens of a list of texts.                                          *)
TokensOf(ts) == UNION {Tokens(ts[i]) : i \in DOMAIN ts}

(* Two lists joined have the tokens of both and fit where both do.         *)
LEMMA ConcatCovers ==
  ASSUME NEW ss \in Seq(Text), NEW ts \in Seq(Text)
  PROVE  /\ ss \o ts \in Seq(Text)
         /\ TokensOf(ss \o ts) = TokensOf(ss) \cup TokensOf(ts)
         /\ \A max \in Nat : AllFit(ss, max) /\ AllFit(ts, max) => AllFit(ss \o ts, max)
<1> DEFINE m == Len(ss)
           n == Len(ts)
<1>1. PICK u : u = ss \o ts
  OBVIOUS
<1>2. /\ u \in Seq(Text) /\ Len(u) = m + n
      /\ \A i \in 1..m + n : u[i] = IF i <= m THEN ss[i] ELSE ts[i - m]
  BY <1>1, ConcatProperties
<1>3. m \in Nat /\ n \in Nat /\ DOMAIN ss = 1..m /\ DOMAIN ts = 1..n /\ DOMAIN u = 1..m + n
  BY <1>2, LenProperties
<1> HIDE DEF m, n
<1>4. ASSUME NEW i \in DOMAIN u
      PROVE  \/ i \in DOMAIN ss /\ u[i] = ss[i]
             \/ \E j \in DOMAIN ts : u[i] = ts[j]
  <2>1. CASE i <= m
    BY <1>2, <1>3, <2>1
  <2>2. CASE ~(i <= m)
    <3>1. i - m \in DOMAIN ts /\ u[i] = ts[i - m]
      BY <1>2, <1>3, <2>2
    <3> QED  BY <3>1
  <2> QED  BY <2>1, <2>2
<1>5. \A i \in DOMAIN ss : i \in DOMAIN u /\ u[i] = ss[i]
  BY <1>2, <1>3
<1>6. ASSUME NEW j \in DOMAIN ts PROVE \E i \in DOMAIN u : u[i] = ts[j]
  <2>1. m + j \in DOMAIN u /\ ~(m + j <= m) /\ (m + j) - m = j
    BY <1>3
  <2> QED  BY <1>2, <1>3, <2>1
<1>7. \A x : x \in TokensOf(u) <=> x \in TokensOf(ss) \/ x \in TokensOf(ts)
  <2>1. ASSUME NEW x \in TokensOf(u) PROVE x \in TokensOf(ss) \/ x \in TokensOf(ts)
    BY <1>4 DEF TokensOf
  <2>2. ASSUME NEW x \in TokensOf(ss) PROVE x \in TokensOf(u)
    BY <1>5 DEF TokensOf
  <2>3. ASSUME NEW x \in TokensOf(ts) PROVE x \in TokensOf(u)
    BY <1>6 DEF TokensOf
  <2> QED  BY <2>1, <2>2, <2>3
<1>8. \A max \in Nat : AllFit(ss, max) /\ AllFit(ts, max) => AllFit(u, max)
  BY <1>4 DEF AllFit
<1> QED  BY <1>1, <1>2, <1>7, <1>8

(* A list of one text.                                                     *)
LEMMA SingletonCovers ==
  ASSUME NEW t \in Text
  PROVE  /\ <<t>> \in Seq(Text) /\ <<t>> # << >> /\ TokensOf(<<t>>) = Tokens(t)
         /\ \A max \in Nat : AllFit(<<t>>, max) <=> Count(t) <= max
<1>1. <<t>> \in Seq(Text) /\ <<t>> # << >> /\ DOMAIN <<t>> = {1} /\ <<t>>[1] = t
  OBVIOUS
<1> QED  BY <1>1 DEF TokensOf, AllFit

(* SplitFits in these words.                                               *)
LEMMA SplitCovers ==
  ASSUME NEW text \in Text, NEW max \in Nat \ {0}, NEW overlap \in Nat
  PROVE  LET ts == Split(text, max, overlap) IN
         /\ ts \in Seq(Text) /\ AllFit(ts, max) /\ TokensOf(ts) = Tokens(text)
         /\ text # << >> => ts # << >>
BY SplitFits DEF AllFit, TokensOf

(* _split_children joins a last window that is short to the one before:    *)
(* ChildTarget + ChildMin <= ChildMax + 1 is what keeps the joined one     *)
(* within ChildMax.                                                        *)
LEMMA JoinShortCovers ==
  ASSUME NEW ts \in Seq(Text), ts # << >>, AllFit(ts, ChildTarget)
  PROVE  /\ JoinShort(ts) \in Seq(Text) /\ JoinShort(ts) # << >>
         /\ AllFit(JoinShort(ts), ChildMax) /\ TokensOf(JoinShort(ts)) = TokensOf(ts)
<1> DEFINE n == Len(ts)
<1>1. /\ ChildTarget \in Nat /\ ChildMin \in Nat \ {0} /\ ChildMax \in Nat
      /\ ChildTarget + ChildMin <= ChildMax + 1
  BY ChunkConfigAssumption
<1>2. n \in Nat /\ DOMAIN ts = 1..n /\ \A i \in 1..n : ts[i] \in Text /\ Count(ts[i]) \in Nat
  BY LenProperties, ElementOfSeq, CountType
<1>3. CASE n >= 2 /\ Short(Last(ts))
  <2>1. n - 1 \in 1..n /\ n \in 1..n
    BY <1>2, <1>3
  <2>2. PICK a, b, c : a = SubSeq(ts, 1, n - 2) /\ b = ts[n - 1] /\ c = ts[n]
    OBVIOUS
  <2>3. b \in Text /\ c \in Text /\ Count(b) \in Nat /\ Count(c) \in Nat
    BY <1>2, <2>1, <2>2
  <2>4. a \in Seq(Text) /\ DOMAIN a = 1..n - 2 /\ \A i \in 1..n - 2 : a[i] = ts[i]
    <3> HIDE DEF n
    <3>1. 1 \in Int /\ n - 2 \in Int /\ \A i \in 1..n - 2 : ts[i] \in Text
      BY <1>2
    <3>2. /\ a \in Seq(Text) /\ Len(a) = (IF 1 <= n - 2 THEN n - 2 - 1 + 1 ELSE 0)
          /\ \A i \in 1..n - 2 - 1 + 1 : a[i] = ts[1 + i - 1]
      BY <2>2, <3>1, SubSeqProperties
    <3>3. Len(a) = n - 2 /\ \A i \in 1..n - 2 : a[i] = ts[i]
      BY <1>2, <1>3, <3>2
    <3> QED  BY <3>2, <3>3, LenProperties
  <2>5. JoinShort(ts) = Append(a, b \o c)
    BY <1>3, <2>2 DEF JoinShort
  <2>6. Count(c) < ChildMin /\ Count(b) <= ChildTarget
    BY <1>2, <1>3, <2>1, <2>2 DEF Short, Last, AllFit
  <2>7. b \o c \in Text /\ Count(b \o c) <= ChildMax /\ Tokens(b \o c) = Tokens(b) \cup Tokens(c)
    BY <1>1, <2>3, <2>6, CountConcat, TokensConcat
  <2>8. PICK d : d = b \o c
    OBVIOUS
  <2>9. d \in Text /\ Count(d) <= ChildMax /\ Tokens(d) = Tokens(b) \cup Tokens(c)
    BY <2>7, <2>8
  <2>10. PICK u : u = Append(a, d)
    OBVIOUS
  <2>11. /\ u \in Seq(Text) /\ DOMAIN u = DOMAIN a \cup {Len(a) + 1} /\ u # << >>
         /\ (\A i \in DOMAIN a : u[i] = a[i]) /\ u[Len(a) + 1] = d
         /\ TokensOf(u) = Tokens(d) \cup TokensOf(a)
    <3>1. /\ u \in Seq(Text) /\ DOMAIN u = DOMAIN a \cup {Len(a) + 1}
          /\ (\A i \in DOMAIN a : u[i] = a[i]) /\ u[Len(a) + 1] = d
      BY <2>4, <2>9, <2>10, AppendCovers
    <3>2. TokensOf(u) = Tokens(d) \cup TokensOf(a)
      BY <2>4, <2>9, <2>10, AppendCovers DEF TokensOf
    <3>3. DOMAIN u # {}
      BY <3>1
    <3> QED  BY <3>1, <3>2, <3>3
  <2>12. AllFit(u, ChildMax)
    <3>1. \A i \in DOMAIN a : Count(a[i]) <= ChildMax
      <4>1. \A i \in DOMAIN a : i \in 1..n /\ a[i] = ts[i]
        BY <1>2, <2>4
      <4>2. \A i \in 1..n : Count(ts[i]) <= ChildMax
        BY <1>1, <1>2 DEF AllFit
      <4> QED  BY <4>1, <4>2
    <3> QED  BY <2>9, <2>11, <3>1 DEF AllFit
  <2>13. \A x : x \in TokensOf(u) <=> x \in TokensOf(ts)
    <3>1. DOMAIN ts = DOMAIN a \cup {n - 1, n}
      BY <1>2, <1>3, <2>4
    <3>2. \A x : x \in TokensOf(ts) <=> (\E i \in DOMAIN a : x \in Tokens(ts[i])) \/ x \in Tokens(b) \/ x \in Tokens(c)
      BY <2>2, <3>1 DEF TokensOf
    <3>3. \A x : x \in TokensOf(a) <=> \E i \in DOMAIN a : x \in Tokens(ts[i])
      BY <2>4 DEF TokensOf
    <3> QED  BY <2>9, <2>11, <3>2, <3>3
  <2> QED  BY <2>5, <2>8, <2>10, <2>11, <2>12, <2>13
<1>4. CASE ~(n >= 2 /\ Short(Last(ts)))
  <2>1. JoinShort(ts) = ts
    BY <1>4 DEF JoinShort
  <2>2. AllFit(ts, ChildMax)
    BY <1>1, <1>2 DEF AllFit
  <2> QED  BY <2>1, <2>2
<1> QED  BY <1>3, <1>4

(* The children of a parent: at least one, each within ChildMax, and       *)
(* together all of its tokens.                                             *)
LEMMA ChildrenCover ==
  ASSUME NEW parent \in Text
  PROVE  /\ SplitChildren(parent) \in Seq(Text) /\ SplitChildren(parent) # << >>
         /\ AllFit(SplitChildren(parent), ChildMax)
         /\ TokensOf(SplitChildren(parent)) = Tokens(parent)
<1>1. ChildMax \in Nat /\ ChildTarget \in Nat \ {0} /\ Overlap \in Nat
  BY ChunkConfigAssumption
<1>2. CASE Count(parent) <= ChildMax
  <2>1. SplitChildren(parent) = <<parent>>
    BY <1>2 DEF SplitChildren
  <2> QED  BY <1>1, <1>2, <2>1, SingletonCovers
<1>3. CASE ~(Count(parent) <= ChildMax)
  <2>1. PICK ts : ts = Split(parent, ChildTarget, Overlap)
    OBVIOUS
  <2>2. SplitChildren(parent) = JoinShort(ts)
    BY <1>3, <2>1 DEF SplitChildren
  <2>3. parent # << >>
    BY <1>1, <1>3, CountEmpty
  <2>4. ts \in Seq(Text) /\ AllFit(ts, ChildTarget) /\ TokensOf(ts) = Tokens(parent) /\ ts # << >>
    BY <1>1, <2>1, <2>3, SplitCovers
  <2> QED  BY <2>2, <2>4, JoinShortCovers
<1> QED  BY <1>2, <1>3

(* The state of the loop of _pack_parents.                                 *)
Packs == [groups: Seq(Text), cur: Text]

(* No group is longer than ParentMax, nor the one being filled.            *)
PacksFit(p) == Count(p.cur) <= ParentMax /\ AllFit(p.groups, ParentMax)

(* The tokens of the groups and of the one being filled.                   *)
PackTokens(p) == Tokens(p.cur) \cup TokensOf(p.groups)

(* The group being filled, as a list.                                      *)
LEMMA PackedCovers ==
  ASSUME NEW t \in Text
  PROVE  /\ Packed(t) \in Seq(Text) /\ TokensOf(Packed(t)) = Tokens(t)
         /\ \A max \in Nat : Count(t) <= max => AllFit(Packed(t), max)
<1>1. CASE t = << >>
  <2>1. Packed(t) = << >> /\ << >> \in Seq(Text) /\ DOMAIN << >> = {}
    BY <1>1 DEF Packed
  <2> QED  BY <1>1, <2>1, TokensEmpty DEF TokensOf, AllFit
<1>2. CASE t # << >>
  <2>1. Packed(t) = <<t>>
    BY <1>2 DEF Packed
  <2> QED  BY <2>1, SingletonCovers
<1> QED  BY <1>1, <1>2

(* A turn of the loop, whichever of its branches is taken, keeps the       *)
(* groups within ParentMax and loses no token.                             *)
LEMMA PackUnitCovers ==
  ASSUME NEW p \in Packs, NEW unit \in Text
  PROVE  /\ PackUnit(p, unit) \in Packs
         /\ PacksFit(p) => PacksFit(PackUnit(p, unit))
         /\ PackTokens(PackUnit(p, unit)) = PackTokens(p) \cup Tokens(unit)
<1>1. /\ ParentMax \in Nat /\ ParentTarget \in Nat \ {0} /\ ParentTarget <= ParentMax /\ 0 \in Nat
  BY ChunkConfigAssumption
<1>2. p.groups \in Seq(Text) /\ p.cur \in Text /\ Count(p.cur) \in Nat /\ Count(unit) \in Nat
  BY CountType DEF Packs
<1>3. PICK q : q = PackUnit(p, unit)
  OBVIOUS
<1>4. << >> \in Text /\ Count(<< >>) = 0 /\ Tokens(<< >>) = {}
  BY EmptySeq, CountEmpty, TokensEmpty DEF Text
<1>5. CASE Count(unit) > ParentMax
  <2>1. PICK ps, ts : ps = Packed(p.cur) /\ ts = Split(unit, ParentTarget, 0)
    OBVIOUS
  <2>2. q = [groups |-> p.groups \o ps \o ts, cur |-> << >>]
    BY <1>1, <1>2, <1>3, <1>5, <2>1 DEF PackUnit
  <2>3. /\ ps \in Seq(Text) /\ TokensOf(ps) = Tokens(p.cur)
        /\ Count(p.cur) <= ParentMax => AllFit(ps, ParentMax)
    BY <1>1, <1>2, <2>1, PackedCovers
  <2>4. ts \in Seq(Text) /\ AllFit(ts, ParentTarget) /\ TokensOf(ts) = Tokens(unit)
    BY <1>1, <2>1, SplitCovers
  <2>5. AllFit(ts, ParentMax)
    <3>1. \A i \in DOMAIN ts : Count(ts[i]) \in Nat
      BY <2>4, LenProperties, ElementOfSeq, CountType
    <3> QED  BY <1>1, <2>4, <3>1 DEF AllFit
  <2>6. PICK u : u = p.groups \o ps
    OBVIOUS
  <2>7. /\ u \in Seq(Text) /\ TokensOf(u) = TokensOf(p.groups) \cup Tokens(p.cur)
        /\ PacksFit(p) => AllFit(u, ParentMax)
    BY <1>1, <1>2, <2>3, <2>6, ConcatCovers DEF PacksFit
  <2>8. PICK v : v = u \o ts
    OBVIOUS
  <2>9. /\ v \in Seq(Text) /\ TokensOf(v) = TokensOf(u) \cup Tokens(unit)
        /\ PacksFit(p) => AllFit(v, ParentMax)
    BY <1>1, <2>4, <2>5, <2>7, <2>8, ConcatCovers
  <2>10. q = [groups |-> v, cur |-> << >>]
    BY <2>2, <2>6, <2>8
  <2>11. q \in Packs
    BY <1>4, <2>9, <2>10 DEF Packs
  <2>12. PacksFit(p) => PacksFit(q)
    BY <1>1, <1>4, <2>9, <2>10 DEF PacksFit
  <2>13. PackTokens(q) = PackTokens(p) \cup Tokens(unit)
    BY <1>4, <2>7, <2>9, <2>10 DEF PackTokens
  <2> QED  BY <1>3, <2>11, <2>12, <2>13
<1>6. CASE Count(unit) <= ParentMax /\ p.cur # <<>> /\ Count(p.cur \o unit) > ParentTarget
  <2>1. q = [groups |-> Append(p.groups, p.cur), cur |-> unit]
    BY <1>1, <1>2, <1>3, <1>6 DEF PackUnit
  <2>2. PICK u : u = Append(p.groups, p.cur)
    OBVIOUS
  <2>3. u = p.groups \o <<p.cur>>
    BY <1>2, <2>2, AppendIsConcat
  <2>4. /\ <<p.cur>> \in Seq(Text) /\ TokensOf(<<p.cur>>) = Tokens(p.cur)
        /\ Count(p.cur) <= ParentMax => AllFit(<<p.cur>>, ParentMax)
    BY <1>1, <1>2, SingletonCovers
  <2>5. /\ u \in Seq(Text) /\ TokensOf(u) = TokensOf(p.groups) \cup Tokens(p.cur)
        /\ PacksFit(p) => AllFit(u, ParentMax)
    BY <1>1, <1>2, <2>3, <2>4, ConcatCovers DEF PacksFit
  <2>6. q = [groups |-> u, cur |-> unit]
    BY <2>1, <2>2
  <2> QED  BY <1>3, <1>6, <2>5, <2>6 DEF Packs, PacksFit, PackTokens
<1>7. CASE ~(Count(unit) > ParentMax) /\ ~(Count(unit) <= ParentMax /\ p.cur # <<>> /\ Count(p.cur \o unit) > ParentTarget)
  <2>1. q = [p EXCEPT !.cur = @ \o unit]
    BY <1>3, <1>7 DEF PackUnit
  <2>2. PICK u : u = p.cur \o unit
    OBVIOUS
  <2>3. u \in Text /\ Count(u) = Count(p.cur) + Count(unit) /\ Tokens(u) = Tokens(p.cur) \cup Tokens(unit)
    BY <1>2, <2>2, CountConcat, TokensConcat
  <2>4. q = [groups |-> p.groups, cur |-> u]
    BY <2>1, <2>2 DEF Packs
  <2>5. Count(u) <= ParentMax
    <3>1. Count(unit) <= ParentMax
      BY <1>1, <1>2, <1>7
    <3>2. CASE p.cur = << >>
      BY <1>2, <1>4, <2>3, <3>1, <3>2
    <3>3. CASE p.cur # << >>
      BY <1>1, <1>2, <1>7, <2>2, <2>3, <3>1, <3>3
    <3> QED  BY <3>2, <3>3
  <2>6. q \in Packs /\ (PacksFit(p) => PacksFit(q))
    BY <1>2, <2>3, <2>4, <2>5 DEF Packs, PacksFit
  <2>7. PackTokens(q) = PackTokens(p) \cup Tokens(unit)
    BY <2>3, <2>4 DEF PackTokens
  <2> QED  BY <1>3, <2>6, <2>7
<1> QED  BY <1>1, <1>2, <1>5, <1>6, <1>7

(* The loop begins with no group.                                          *)
NoPack == [groups |-> << >>, cur |-> << >>]

(* PackParents runs the loop over the units of a section.                  *)
LEMMA PackRuns ==
  ASSUME NEW units \in Seq(Text)
  PROVE  \E f \in [0..Len(units) -> Packs] :
           /\ f[0] = NoPack
           /\ \A i \in 1..Len(units) : f[i] = PackUnit(f[i - 1], units[i])
           /\ f[Len(units)] = FoldLeft(PackUnit, [groups |-> << >>, cur |-> << >>], units)
<1> DEFINE n == Len(units)
           base == [groups |-> << >>, cur |-> << >>]
           iter[t \in SUBSET DOMAIN units] ==
             IF t = {} THEN base ELSE LET x == Max(t) IN PackUnit(iter[t \ {x}], units[x])
           step == [p \in Packs \X (1..n) |-> PackUnit(p[1], units[p[2]])]
           last == FoldLeft(PackUnit, base, units)
<1>1. last = iter[DOMAIN units]
  BY DEF FoldLeft, MapThenFoldSet
<1>2. n \in Nat /\ DOMAIN units = 1..n
  BY LenProperties
<1>3. base \in Packs /\ base = NoPack
  <2>1. << >> \in Text /\ << >> \in Seq(Text)
    BY EmptySeq DEF Text
  <2> QED  BY <2>1 DEF Packs, NoPack
<1>a. \A p \in Packs, i \in 1..n : PackUnit(p, units[i]) \in Packs
  <2>1. \A i \in 1..n : units[i] \in Text
    BY ElementOfSeq
  <2> QED  BY <2>1, PackUnitCovers
<1> HIDE DEF n, base, last
<1>4. /\ step \in [Packs \X (1..n) -> Packs]
      /\ \A p \in Packs, i \in 1..n : step[<<p, i>>] = PackUnit(p, units[i])
  BY <1>a
<1> HIDE DEF step
<1>5. PICK g \in [SUBSET (1..n) -> Packs] : IsFold(g, n, base, step)
  BY <1>2, <1>3, <1>4, FoldExists, Zenon
<1>6. \A t \in SUBSET (1..n) : t # {} => Max(t) \in 1..n /\ t \ {Max(t)} \in SUBSET (1..n)
  BY <1>2, MaxFacts
<1>7. g = [t \in SUBSET DOMAIN units |->
             IF t = {} THEN base ELSE LET x == Max(t) IN PackUnit(g[t \ {x}], units[x])]
  <2>1. ASSUME NEW t \in SUBSET (1..n), t # {}
        PROVE  g[t] = PackUnit(g[t \ {Max(t)}], units[Max(t)])
    BY <1>4, <1>5, <1>6, <2>1 DEF IsFold
  <2>2. g[{}] = base
    BY <1>5 DEF IsFold
  <2> QED  BY <1>2, <1>5, <2>1, <2>2
<1>8. iter = [t \in SUBSET DOMAIN units |->
                IF t = {} THEN base ELSE LET x == Max(t) IN PackUnit(iter[t \ {x}], units[x])]
  BY <1>7, Zenon
<1> HIDE DEF iter
<1>9. IsFoldOn(Packs, iter, n, base, step)
  <2>1. ASSUME NEW s \in SUBSET (1..n), s # {}, iter[s \ {Max(s)}] \in Packs
        PROVE  iter[s] = step[<<iter[s \ {Max(s)}], Max(s)>>]
    <3>1. iter[s] = PackUnit(iter[s \ {Max(s)}], units[Max(s)])
      BY <1>2, <1>8, <2>1
    <3> QED  BY <1>4, <1>6, <2>1, <3>1
  <2> QED  BY <1>8, <2>1 DEF IsFoldOn
<1>10. PICK f \in [0..n -> Packs] : IsRun(f, n, base, step, iter[1..n])
  BY <1>2, <1>3, <1>4, <1>9, FoldRuns, Zenon
<1>11. ASSUME NEW i \in 1..n PROVE f[i] = PackUnit(f[i - 1], units[i])
  <2>1. i - 1 \in 0..n
    BY <1>2
  <2>2. f[i - 1] \in Packs
    BY <2>1
  <2> QED  BY <1>4, <1>10, <2>2 DEF IsRun
<1>12. f[0] = NoPack /\ f[n] = last
  BY <1>1, <1>2, <1>3, <1>10 DEF IsRun
<1> QED
  BY <1>11, <1>12 DEF n, last, base

(* _pack_parents: parents within ParentMax that have all the tokens of the *)
(* units.                                                                  *)
LEMMA ParentsCover ==
  ASSUME NEW units \in Seq(Text)
  PROVE  /\ PackParents(units) \in Seq(Text) /\ AllFit(PackParents(units), ParentMax)
         /\ TokensOf(PackParents(units)) = TokensOf(units)
<1> DEFINE n == Len(units)
           last == FoldLeft(PackUnit, [groups |-> << >>, cur |-> << >>], units)
<1>1. PICK f \in [0..n -> Packs] :
        /\ f[0] = NoPack
        /\ \A i \in 1..n : f[i] = PackUnit(f[i - 1], units[i])
        /\ f[n] = last
  BY PackRuns
<1>2. n \in Nat /\ DOMAIN units = 1..n /\ \A i \in 1..n : units[i] \in Text
  BY LenProperties, ElementOfSeq
<1>3. PackParents(units) = last.groups \o Packed(last.cur)
  BY DEF PackParents
<1> HIDE DEF n, last
<1> DEFINE Good(i) == PacksFit(f[i]) /\ PackTokens(f[i]) = UNION {Tokens(units[k]) : k \in 1..i}
           T == {i \in 0..n : Good(i)}
<1>4. ParentMax \in Nat
  BY ChunkConfigAssumption
<1>5. Good(0)
  <2>1. f[0].groups = << >> /\ f[0].cur = << >> /\ DOMAIN << >> = {} /\ 1..0 = {}
    BY <1>1 DEF NoPack
  <2> QED  BY <1>4, <2>1, CountEmpty, TokensEmpty DEF PacksFit, PackTokens, AllFit, TokensOf
<1>6. ASSUME NEW i \in 1..n, Good(i - 1) PROVE Good(i)
  <2>1. i - 1 \in 0..n /\ i \in DOMAIN units /\ 1..i = (1..(i - 1)) \cup {i}
    BY <1>2
  <2>2. PICK p, u, q : p = f[i - 1] /\ u = units[i] /\ q = PackUnit(p, u)
    OBVIOUS
  <2>3. p \in Packs /\ PacksFit(p) /\ PackTokens(p) = UNION {Tokens(units[k]) : k \in 1..(i - 1)}
    BY <1>6, <2>1, <2>2
  <2>4. f[i] = q /\ u \in Text
    BY <1>1, <1>2, <2>2
  <2>5. PacksFit(q) /\ PackTokens(q) = PackTokens(p) \cup Tokens(u)
    BY <2>2, <2>3, <2>4, PackUnitCovers
  <2> QED  BY <2>1, <2>2, <2>3, <2>4, <2>5
<1> HIDE DEF Good
<1>7. \A i \in 1..n : i - 1 \in T => i \in T
  BY <1>2, <1>6
<1>8. 0 \in T
  BY <1>2, <1>5
<1> HIDE DEF T
<1>9. \A i \in 0..n : i \in T
  BY <1>2, <1>7, <1>8, Upwards
<1>10. n \in 0..n
  BY <1>2
<1>11. last \in Packs /\ PacksFit(last) /\ PackTokens(last) = TokensOf(units)
  <2>1. Good(n)
    BY <1>9, <1>10 DEF T
  <2> QED  BY <1>1, <1>2, <1>10, <2>1 DEF Good, TokensOf
<1>12. PICK g, c : g = last.groups /\ c = Packed(last.cur)
  OBVIOUS
<1>13. g \in Seq(Text) /\ AllFit(g, ParentMax) /\ last.cur \in Text /\ Count(last.cur) <= ParentMax
  BY <1>11, <1>12 DEF Packs, PacksFit
<1>14. c \in Seq(Text) /\ AllFit(c, ParentMax) /\ TokensOf(c) = Tokens(last.cur)
  BY <1>4, <1>12, <1>13, PackedCovers
<1>15. g \o c \in Seq(Text) /\ AllFit(g \o c, ParentMax) /\ TokensOf(g \o c) = TokensOf(g) \cup TokensOf(c)
  BY <1>4, <1>13, <1>14, ConcatCovers
<1> QED  BY <1>3, <1>11, <1>12, <1>14, <1>15 DEF PackTokens

-----------------------------------------------------------------------------
(* What tells a section from the others of a page.                         *)
SectionKeys == [path: Seq(Text), level: Nat, ordinal: Nat]
Sections    == [path: Seq(Text), level: Nat, ordinal: Nat, units: Seq(Text)]
KeyOf(section) == [path |-> section.path, level |-> section.level, ordinal |-> section.ordinal]

(* A planned chunk, and below a planned parent with its children.          *)
PlannedChild  == [section: SectionKeys, parent: Nat, ordinal: Nat, text: Text]
PlannedParent == [section: SectionKeys, n: Nat, text: Text, children: Seq(PlannedChild)]

(* The children name their parent, fit, and have only tokens of it.        *)
ChildrenOf(x) == \A c \in DOMAIN x.children :
                   /\ x.children[c].section = x.section
                   /\ x.children[c].parent = x.n
                   /\ Count(x.children[c].text) <= ChildMax
                   /\ Tokens(x.children[c].text) \subseteq Tokens(x.text)

(* A parent within its size whose children have different numbers and all  *)
(* of its tokens.                                                          *)
WholeParent(x) ==
  /\ Count(x.text) <= ParentMax
  /\ x.children # << >>
  /\ ChildrenOf(x)
  /\ \A c, d \in DOMAIN x.children : x.children[c].ordinal = x.children[d].ordinal => c = d
  /\ Tokens(x.text) \subseteq UNION {Tokens(x.children[c].text) : c \in DOMAIN x.children}

(* plan_chunks numbers the parents of a section and the children over the  *)
(* section; each parent is whole.                                          *)
LEMMA ParentsAreWhole ==
  ASSUME NEW key \in SectionKeys, NEW parents \in Seq(Text), AllFit(parents, ParentMax)
  PROVE  LET plan == PlanParents(key, parents) IN
         /\ plan \in Seq(PlannedParent) /\ Len(plan) = Len(parents)
         /\ \A p \in DOMAIN plan : /\ WholeParent(plan[p])
                                  /\ plan[p].section = key /\ plan[p].n = p
                                  /\ plan[p].text = parents[p]
<1> DEFINE n == Len(parents)
           cut == [p \in DOMAIN parents |-> SplitChildren(parents[p])]
           before(p) == Len(FlattenSeq(SubSeq(cut, 1, p - 1)))
           row(p) == [section |-> key, n |-> p, text |-> parents[p],
                      children |-> [c \in DOMAIN cut[p] |->
                                      [section |-> key, parent |-> p, ordinal |-> before(p) + c,
                                       text |-> cut[p][c]]]]
           plan == [p \in DOMAIN parents |-> row(p)]
<1>1. n \in Nat /\ DOMAIN parents = 1..n /\ \A p \in 1..n : parents[p] \in Text
  BY LenProperties, ElementOfSeq
<1>2. PlanParents(key, parents) = plan
  BY DEF PlanParents, WithChildren
<1>3. ASSUME NEW p \in 1..n
      PROVE  /\ cut[p] \in Seq(Text) /\ cut[p] # << >> /\ AllFit(cut[p], ChildMax)
             /\ TokensOf(cut[p]) = Tokens(parents[p])
  <2>1. cut[p] = SplitChildren(parents[p])
    BY <1>1
  <2> QED  BY <1>1, <2>1, ChildrenCover
<1>a. cut = [p \in 1..n |-> cut[p]]
  BY <1>1
<1> HIDE DEF n, cut
<1>4. cut \in Seq(Seq(Text)) /\ Len(cut) = n
  BY <1>1, <1>3, <1>a, AsSeq
<1>5. \A p \in 1..n : before(p) \in Nat
  <2> SUFFICES ASSUME NEW p \in 1..n PROVE before(p) \in Nat
    OBVIOUS
  <2>1. PICK head : head = SubSeq(cut, 1, p - 1)
    OBVIOUS
  <2>2. 1 \in Int /\ p - 1 \in Int /\ \A i \in 1..p - 1 : cut[i] \in Seq(Text)
    BY <1>1, <1>3
  <2>3. head \in Seq(Seq(Text))
    BY <2>1, <2>2, SubSeqProperties
  <2>4. FlattenSeq(head) \in Seq(Text)
    BY <2>3, FlattenPlaces
  <2> QED  BY <2>1, <2>4, LenProperties
<1> HIDE DEF before
<1>6. ASSUME NEW p \in 1..n
      PROVE  row(p) \in PlannedParent /\ WholeParent(row(p))
  <2> DEFINE child(c) == [section |-> key, parent |-> p, ordinal |-> before(p) + c, text |-> cut[p][c]]
             children == [c \in DOMAIN cut[p] |-> child(c)]
  <2>1. PICK t : t = cut[p]
    OBVIOUS
  <2>2. /\ t \in Seq(Text) /\ t # << >> /\ AllFit(t, ChildMax) /\ TokensOf(t) = Tokens(parents[p])
        /\ before(p) \in Nat /\ p \in Nat
    BY <1>1, <1>3, <1>5, <2>1
  <2>3. Len(t) \in Nat /\ Len(t) # 0 /\ DOMAIN t = 1..Len(t) /\ \A c \in 1..Len(t) : t[c] \in Text
    BY <2>2, LenProperties, ElementOfSeq, EmptySeq
  <2>4. \A c \in 1..Len(t) : child(c) \in PlannedChild
    BY <2>1, <2>2, <2>3 DEF PlannedChild
  <2>5. children = [c \in 1..Len(t) |-> child(c)]
    BY <2>1, <2>3
  <2>6. \A c \in 1..Len(t) : /\ child(c).section = key /\ child(c).parent = p
                            /\ child(c).ordinal = before(p) + c /\ child(c).text = t[c]
    BY <2>1
  <2> HIDE DEF child
  <2>7. children \in [1..Len(t) -> PlannedChild] /\ \A c \in 1..Len(t) : children[c] = child(c)
    BY <2>4, <2>5
  <2>8. row(p) = [section |-> key, n |-> p, text |-> parents[p], children |-> children]
    BY DEF child
  <2> HIDE DEF children
  <2>9. children \in Seq(PlannedChild) /\ DOMAIN children = 1..Len(t) /\ children # << >>
    BY <2>3, <2>7, AsSeq, EmptySeq
  <2>10. PICK r : r = row(p)
    OBVIOUS
  <2>11. r.section = key /\ r.n = p /\ r.text = parents[p] /\ r.children = children
    BY <2>8, <2>10
  <2>12. r \in PlannedParent
    BY <1>1, <2>2, <2>8, <2>9, <2>10 DEF PlannedParent
  <2>13. Count(r.text) <= ParentMax
    BY <1>1, <2>11 DEF AllFit
  <2>14. \A c \in DOMAIN r.children :
            /\ r.children[c].section = key /\ r.children[c].parent = p
            /\ r.children[c].ordinal = before(p) + c /\ r.children[c].text = t[c]
            /\ c \in DOMAIN t
    BY <2>3, <2>6, <2>7, <2>9, <2>11
  <2>15. ChildrenOf(r)
    <3>1. \A c \in DOMAIN t : Count(t[c]) <= ChildMax /\ Tokens(t[c]) \subseteq TokensOf(t)
      BY <2>2 DEF AllFit, TokensOf
    <3> QED  BY <2>2, <2>11, <2>14, <3>1 DEF ChildrenOf
  <2>16. ASSUME NEW c \in DOMAIN r.children, NEW d \in DOMAIN r.children,
                r.children[c].ordinal = r.children[d].ordinal
         PROVE  c = d
    <3>1. c \in Nat /\ d \in Nat /\ before(p) + c = before(p) + d
      BY <2>9, <2>11, <2>14, <2>16
    <3> QED  BY <2>2, <3>1
  <2>17. Tokens(r.text) \subseteq UNION {Tokens(r.children[c].text) : c \in DOMAIN r.children}
    <3>1. DOMAIN r.children = DOMAIN t
      BY <2>3, <2>9, <2>11
    <3> QED  BY <2>2, <2>11, <2>14, <3>1 DEF TokensOf
  <2>18. r.children # << >>
    BY <2>9, <2>11
  <2>19. WholeParent(r)
    BY <2>13, <2>15, <2>16, <2>17, <2>18, Zenon DEF WholeParent
  <2> QED  BY <2>10, <2>12, <2>19
<1>7. \A p \in 1..n : plan[p] = row(p) /\ row(p).section = key /\ row(p).n = p /\ row(p).text = parents[p]
  BY <1>1
<1>8. plan = [p \in 1..n |-> plan[p]]
  BY <1>1
<1> HIDE DEF row, plan
<1>9. plan \in [1..n -> PlannedParent]
  BY <1>6, <1>7, <1>8
<1>10. plan \in Seq(PlannedParent) /\ Len(plan) = n /\ DOMAIN plan = 1..n
  BY <1>1, <1>9, AsSeq
<1> QED  BY <1>2, <1>6, <1>7, <1>10 DEF n

(* The tokens of the parents of a plan.                                    *)
ParentTokens(plan) == UNION {Tokens(plan[p].text) : p \in DOMAIN plan}

(* The plan of a section has the tokens of its units.                      *)
LEMMA SectionPlans ==
  ASSUME NEW section \in Sections
  PROVE  LET plan == PlanSection(section) IN
         /\ plan \in Seq(PlannedParent)
         /\ \A p \in DOMAIN plan : /\ WholeParent(plan[p])
                                  /\ plan[p].section = KeyOf(section) /\ plan[p].n = p
         /\ TokensOf(SectionUnits(section)) \subseteq ParentTokens(plan)
<1>1. PICK units : units = SectionUnits(section)
  OBVIOUS
<1>2. units \in Seq(Text)
  <2>1. CASE section.units = << >> /\ section.path # << >>
    <3>1. section.path \in Seq(Text)
      BY DEF Sections
    <3>2. Len(section.path) \in 1..Len(section.path)
      BY <2>1, <3>1, EmptySeq, LenProperties
    <3>3. Last(section.path) \in Text
      BY <3>1, <3>2, ElementOfSeq DEF Last
    <3>4. units = <<Last(section.path)>>
      BY <1>1, <2>1 DEF SectionUnits
    <3> QED  BY <3>3, <3>4, SingletonCovers
  <2>2. CASE ~(section.units = << >> /\ section.path # << >>)
    BY <1>1, <2>2 DEF SectionUnits, Sections
  <2> QED  BY <2>1, <2>2
<1>3. PICK parents : parents = PackParents(units)
  OBVIOUS
<1>4. parents \in Seq(Text) /\ AllFit(parents, ParentMax) /\ TokensOf(parents) = TokensOf(units)
  BY <1>2, <1>3, ParentsCover
<1>5. PICK key : key = KeyOf(section)
  OBVIOUS
<1>6. key \in SectionKeys
  BY <1>5 DEF KeyOf, SectionKeys, Sections
<1>7. PICK plan : plan = PlanParents(key, parents)
  OBVIOUS
<1>8. /\ plan \in Seq(PlannedParent) /\ Len(plan) = Len(parents)
      /\ \A p \in DOMAIN plan : /\ WholeParent(plan[p])
                               /\ plan[p].section = key /\ plan[p].n = p
                               /\ plan[p].text = parents[p]
  BY <1>4, <1>6, <1>7, ParentsAreWhole
<1>9. PlanSection(section) = plan
  BY <1>1, <1>3, <1>5, <1>7 DEF PlanSection, KeyOf
<1>10. DOMAIN plan = DOMAIN parents
  BY <1>4, <1>8, LenProperties
<1>11. TokensOf(units) \subseteq ParentTokens(plan)
  BY <1>4, <1>8, <1>10 DEF TokensOf, ParentTokens
<1> QED  BY <1>1, <1>5, <1>8, <1>9, <1>11

(* Joining the path of a section's key joins the section's.                *)
LEMMA KeyIsOf ==
  ASSUME NEW section
  PROVE  SectionKey(KeyOf(section)) = SectionKey(section)
BY DEF SectionKey, KeyOf

(* No two sections of a list have the same key.                            *)
KeysDiffer(sections) ==
  \A s, t \in DOMAIN sections : SectionKey(sections[s]) = SectionKey(sections[t]) => s = t

(* A plan whose parents are whole, differ in section or number, and have   *)
(* the tokens of the units of every section.                               *)
WholePlan(sections, plan) ==
  /\ plan \in Seq(PlannedParent)
  /\ \A p \in DOMAIN plan : WholeParent(plan[p])
  /\ \A p, q \in DOMAIN plan :
       SectionKey(plan[p].section) = SectionKey(plan[q].section) /\ plan[p].n = plan[q].n => p = q
  /\ \A s \in DOMAIN sections :
       /\ TokensOf(SectionUnits(sections[s])) \subseteq ParentTokens(plan)
       /\ TokensOf(SectionUnits(sections[s])) # {} =>
            \E p \in DOMAIN plan : plan[p].section = KeyOf(sections[s])

(* The plans of sections with different keys, one after the other, are a   *)
(* whole plan.                                                             *)
LEMMA PlansAreWhole ==
  ASSUME NEW sections \in Seq(Sections), KeysDiffer(sections)
  PROVE  WholePlan(sections, FlattenSeq([s \in DOMAIN sections |-> PlanSection(sections[s])]))
<1> DEFINE n == Len(sections)
           parts == [s \in DOMAIN sections |-> PlanSection(sections[s])]
<1>1. n \in Nat /\ DOMAIN sections = 1..n /\ \A s \in 1..n : sections[s] \in Sections
  BY LenProperties, ElementOfSeq
<1>2. DOMAIN parts = 1..n /\ parts = [s \in 1..n |-> parts[s]] /\ \A s \in 1..n : parts[s] = PlanSection(sections[s])
  BY <1>1
<1> HIDE DEF n, parts
<1>3. ASSUME NEW s \in 1..n
      PROVE  /\ parts[s] \in Seq(PlannedParent)
             /\ \A p \in DOMAIN parts[s] : /\ WholeParent(parts[s][p])
                                         /\ parts[s][p].section = KeyOf(sections[s])
                                         /\ parts[s][p].n = p
             /\ TokensOf(SectionUnits(sections[s])) \subseteq ParentTokens(parts[s])
  <2>1. PICK part : part = PlanSection(sections[s])
    OBVIOUS
  <2>2. /\ part \in Seq(PlannedParent)
        /\ \A p \in DOMAIN part : /\ WholeParent(part[p])
                                 /\ part[p].section = KeyOf(sections[s]) /\ part[p].n = p
        /\ TokensOf(SectionUnits(sections[s])) \subseteq ParentTokens(part)
    BY <1>1, <2>1, SectionPlans
  <2>3. parts[s] = part
    BY <1>2, <2>1
  <2> QED  BY <2>2, <2>3
<1>4. parts \in Seq(Seq(PlannedParent)) /\ Len(parts) = n
  <2>1. parts \in [1..n -> Seq(PlannedParent)]
    BY <1>2, <1>3
  <2> QED  BY <1>1, <2>1, AsSeq
<1>5. PICK plan : plan = FlattenSeq(parts)
  OBVIOUS
<1>6. plan \in Seq(PlannedParent)
  BY <1>4, <1>5, FlattenPlaces
<1>7. PICK row, col \in [DOMAIN plan -> Nat] : IsPlacing(row, col, plan, parts, n)
  BY <1>4, <1>5, FlattenPlaces
<1>8. \A p \in DOMAIN plan : /\ row[p] \in 1..n /\ col[p] \in DOMAIN parts[row[p]]
                           /\ plan[p] = parts[row[p]][col[p]]
  BY <1>7 DEF IsPlacing
<1>9. \A p \in DOMAIN plan : /\ WholeParent(plan[p])
                           /\ plan[p].section = KeyOf(sections[row[p]])
                           /\ plan[p].n = col[p]
  BY <1>3, <1>8
<1>10. ASSUME NEW p \in DOMAIN plan, NEW q \in DOMAIN plan,
              SectionKey(plan[p].section) = SectionKey(plan[q].section), plan[p].n = plan[q].n
       PROVE  p = q
  <2>1. SectionKey(sections[row[p]]) = SectionKey(sections[row[q]]) /\ col[p] = col[q]
    BY <1>9, <1>10, KeyIsOf
  <2>2. row[p] = row[q]
    BY <1>1, <1>8, <2>1 DEF KeysDiffer
  <2> QED  BY <1>7, <2>1, <2>2 DEF IsPlacing
<1>11. ASSUME NEW s \in 1..n, NEW x \in TokensOf(SectionUnits(sections[s]))
       PROVE  /\ x \in ParentTokens(plan)
              /\ \E p \in DOMAIN plan : plan[p].section = KeyOf(sections[s])
  <2>1. PICK j \in DOMAIN parts[s] : x \in Tokens(parts[s][j].text)
    <3>1. PICK part : part = parts[s]
      OBVIOUS
    <3>2. x \in ParentTokens(part)
      BY <1>3, <1>11, <3>1
    <3>3. \E j \in DOMAIN part : x \in Tokens(part[j].text)
      BY <3>2 DEF ParentTokens
    <3> QED  BY <3>1, <3>3
  <2>2. PICK p \in DOMAIN plan : row[p] = s /\ col[p] = j
    BY <1>7 DEF IsPlacing
  <2>3. plan[p] = parts[s][j] /\ plan[p].section = KeyOf(sections[s])
    BY <1>8, <1>9, <2>2
  <2> QED  BY <2>1, <2>3 DEF ParentTokens
<1>12. WholePlan(sections, plan)
  <2>1. \A p \in DOMAIN plan : WholeParent(plan[p])
    BY <1>9
  <2>2. \A s \in DOMAIN sections :
          /\ TokensOf(SectionUnits(sections[s])) \subseteq ParentTokens(plan)
          /\ TokensOf(SectionUnits(sections[s])) # {} =>
               \E p \in DOMAIN plan : plan[p].section = KeyOf(sections[s])
    BY <1>1, <1>11
  <2> QED  BY <1>6, <1>10, <2>1, <2>2 DEF WholePlan
<1> QED  BY <1>5, <1>12 DEF parts

(* The children of a plan are those of its parents, each once.             *)
LEMMA ChildrenPlaced ==
  ASSUME NEW plan \in Seq(PlannedParent)
  PROVE  /\ PlannedChildren(plan) \in Seq(PlannedChild)
         /\ \E row, col \in [DOMAIN PlannedChildren(plan) -> Nat] :
              IsPlacing(row, col, PlannedChildren(plan), [p \in DOMAIN plan |-> plan[p].children], Len(plan))
<1> DEFINE n == Len(plan)
           parts == [p \in DOMAIN plan |-> plan[p].children]
<1>1. n \in Nat /\ DOMAIN plan = 1..n /\ \A p \in 1..n : plan[p] \in PlannedParent
  BY LenProperties, ElementOfSeq
<1>2. parts \in [1..n -> Seq(PlannedChild)]
  BY <1>1 DEF PlannedParent
<1>3. PlannedChildren(plan) = FlattenSeq(parts)
  BY DEF PlannedChildren
<1> HIDE DEF parts, n
<1>4. parts \in Seq(Seq(PlannedChild)) /\ Len(parts) = n
  BY <1>1, <1>2, AsSeq
<1>5. /\ FlattenSeq(parts) \in Seq(PlannedChild)
      /\ \E row, col \in [DOMAIN FlattenSeq(parts) -> Nat] : IsPlacing(row, col, FlattenSeq(parts), parts, Len(parts))
  BY <1>4, FlattenPlaces
<1> QED  BY <1>3, <1>4, <1>5 DEF parts, n

-----------------------------------------------------------------------------
(* F has the items of seq that are in T, at the places at gives.           *)
IsPick(at, F, seq, T) ==
  /\ \A k \in DOMAIN F : F[k] = seq[at[k]] /\ seq[at[k]] \in T
  /\ \A k, l \in DOMAIN F : at[k] = at[l] => k = l
  /\ \A i \in DOMAIN seq : seq[i] \in T => \E k \in DOMAIN F : at[k] = i

(* Among picks all of them, once each, and ends with the last item where   *)
(* that is picked.                                                         *)
LEMMA AmongSome ==
  ASSUME NEW A, NEW seq \in Seq(A), NEW T
  PROVE  /\ Among(seq, T) \in Seq(A)
         /\ \E at \in [DOMAIN Among(seq, T) -> DOMAIN seq] : IsPick(at, Among(seq, T), seq, T)
         /\ seq # << >> /\ seq[Len(seq)] \in T =>
              Among(seq, T) # << >> /\ Among(seq, T)[Len(Among(seq, T))] = seq[Len(seq)]
<1> DEFINE n == Len(seq)
           parts == [i \in DOMAIN seq |-> IF seq[i] \in T THEN <<seq[i]>> ELSE <<>>]
<1>1. n \in Nat /\ DOMAIN seq = 1..n /\ \A i \in 1..n : seq[i] \in A
  BY LenProperties, ElementOfSeq
<1>2. /\ parts \in [1..n -> Seq(A)]
      /\ \A i \in 1..n : seq[i] \in T => parts[i] = <<seq[i]>>
      /\ \A i \in 1..n : seq[i] \notin T => parts[i] = << >>
  <2>1. << >> \in Seq(A) /\ \A i \in 1..n : <<seq[i]>> \in Seq(A)
    BY <1>1, EmptySeq
  <2> HIDE DEF n
  <2> QED  BY <1>1, <2>1
<1>3. PICK F : F = Among(seq, T)
  OBVIOUS
<1>4. F = FlattenSeq(parts)
  BY <1>3 DEF Among
<1> HIDE DEF parts, n
<1>5. parts \in Seq(Seq(A)) /\ Len(parts) = n
  BY <1>1, <1>2, AsSeq
<1>6. F \in Seq(A)
  BY <1>4, <1>5, FlattenPlaces
<1>7. PICK row, col \in [DOMAIN F -> Nat] : IsPlacing(row, col, F, parts, n)
  BY <1>4, <1>5, FlattenPlaces
<1>8. \A i \in 1..n : DOMAIN parts[i] = (IF seq[i] \in T THEN {1} ELSE {}) /\ (seq[i] \in T => parts[i][1] = seq[i])
  <2>1. \A x : DOMAIN <<x>> = {1} /\ <<x>>[1] = x
    OBVIOUS
  <2>2. DOMAIN << >> = {}
    OBVIOUS
  <2> QED  BY <1>2, <2>1, <2>2
<1>9. \A k \in DOMAIN F : row[k] \in 1..n /\ seq[row[k]] \in T /\ col[k] = 1 /\ F[k] = seq[row[k]]
  <2> SUFFICES ASSUME NEW k \in DOMAIN F
               PROVE  row[k] \in 1..n /\ seq[row[k]] \in T /\ col[k] = 1 /\ F[k] = seq[row[k]]
    OBVIOUS
  <2>1. row[k] \in 1..n /\ col[k] \in DOMAIN parts[row[k]] /\ F[k] = parts[row[k]][col[k]]
    BY <1>7 DEF IsPlacing
  <2> QED  BY <1>8, <2>1
<1>10. \A k, l \in DOMAIN F : row[k] = row[l] => k = l
  BY <1>7, <1>9 DEF IsPlacing
<1>11. ASSUME NEW i \in DOMAIN seq, seq[i] \in T PROVE \E k \in DOMAIN F : row[k] = i
  <2>1. i \in 1..n /\ 1 \in DOMAIN parts[i]
    BY <1>1, <1>8, <1>11
  <2> QED  BY <1>7, <2>1 DEF IsPlacing
<1>12. row \in [DOMAIN F -> DOMAIN seq]
  BY <1>1, <1>9
<1>13. ASSUME seq # << >>, seq[n] \in T PROVE F # << >> /\ F[Len(F)] = seq[n]
  <2>1. PICK f \in [0..n -> Seq(A)] :
           (\A i \in 1..n : f[i] = f[i - 1] \o parts[i]) /\ f[n] = F
    BY <1>4, <1>5, FlattenRuns
  <2>2. n \in 1..n /\ n - 1 \in 0..n
    BY <1>1, <1>13, EmptySeq DEF n
  <2>3. PICK g, e : g = f[n - 1] /\ e = seq[n]
    OBVIOUS
  <2>4. g \in Seq(A) /\ e \in A
    BY <1>1, <2>2, <2>3
  <2>5. F = g \o <<e>>
    BY <1>2, <1>13, <2>1, <2>2, <2>3
  <2>6. F = Append(g, e)
    BY <2>4, <2>5, AppendIsConcat
  <2>7. F # << >> /\ Len(F) = Len(g) + 1 /\ F[Len(g) + 1] = e
    BY <2>4, <2>6, AppendProperties
  <2> QED  BY <2>3, <2>7
<1>14. IsPick(row, F, seq, T)
  BY <1>9, <1>10, <1>11 DEF IsPick
<1> QED
  BY <1>3, <1>6, <1>12, <1>13, <1>14 DEF n

(* F lists the numbers up to n that are in T, once each.                   *)
NumbersIn(F, n, T) ==
  /\ F \in Seq(1..n)
  /\ \A k \in DOMAIN F : F[k] \in T \cap 1..n
  /\ \A k, l \in DOMAIN F : F[k] = F[l] => k = l
  /\ \A i \in T \cap 1..n : \E k \in DOMAIN F : F[k] = i
  /\ n \in T /\ n # 0 => F # << >> /\ F[Len(F)] = n

(* Among, over the positions of a list.                                    *)
LEMMA AmongNumbers ==
  ASSUME NEW n \in Nat, NEW T
  PROVE  NumbersIn(Among([i \in 1..n |-> i], T), n, T)
<1>1. PICK seq : seq = [i \in 1..n |-> i]
  OBVIOUS
<1>2. seq \in [1..n -> 1..n] /\ \A i \in 1..n : seq[i] = i
  BY <1>1
<1>3. seq \in Seq(1..n) /\ Len(seq) = n /\ DOMAIN seq = 1..n
  BY <1>2, AsSeq
<1>4. PICK F : F = Among(seq, T)
  OBVIOUS
<1>5. F \in Seq(1..n) /\ (seq # << >> /\ seq[n] \in T => F # << >> /\ F[Len(F)] = seq[n])
  BY <1>3, <1>4, AmongSome
<1>6. PICK at \in [DOMAIN F -> 1..n] : IsPick(at, F, seq, T)
  BY <1>3, <1>4, AmongSome
<1>7. \A k \in DOMAIN F : F[k] = at[k] /\ at[k] \in T \cap 1..n
  BY <1>2, <1>6 DEF IsPick
<1>8. \A k, l \in DOMAIN F : F[k] = F[l] => k = l
  BY <1>6, <1>7 DEF IsPick
<1>9. \A i \in T \cap 1..n : \E k \in DOMAIN F : F[k] = i
  <2> SUFFICES ASSUME NEW i \in T \cap 1..n PROVE \E k \in DOMAIN F : F[k] = i
    OBVIOUS
  <2>1. i \in DOMAIN seq /\ seq[i] \in T
    BY <1>2, <1>3
  <2>2. PICK k \in DOMAIN F : at[k] = i
    BY <1>6, <2>1 DEF IsPick
  <2> QED  BY <1>7, <2>2
<1>10. ASSUME n \in T, n # 0 PROVE F # << >> /\ F[Len(F)] = n
  <2>1. n \in 1..n
    BY <1>10
  <2>2. seq # << >> /\ seq[n] = n
    BY <1>2, <1>3, <2>1, EmptySeq
  <2> QED  BY <1>5, <1>10, <2>2
<1>11. F = Among([i \in 1..n |-> i], T)
  BY <1>1, <1>4
<1>12. \A k \in DOMAIN F : F[k] \in T \cap 1..n
  BY <1>7
<1>13. NumbersIn(F, n, T)
  BY <1>5, <1>8, <1>9, <1>10, <1>12, Zenon DEF NumbersIn
<1> QED  BY <1>11, <1>13

(* The kinds of block that normalize_body makes.                           *)
Kinds == {"heading", "paragraph", "list", "table", "code", "panel"}

(* A block before and after its heading path is known.                     *)
PlainBlock  == [kind: Kinds, level: Nat, text: Text]
PlacedBlock == [kind: Kinds, level: Nat, text: Text, path: Seq(Text)]

(* _attach_heading_paths: a heading is the last of its own path, and a     *)
(* first block that is no heading has none.                                *)
LEMMA PathsEndInHeadings ==
  ASSUME NEW blocks \in Seq(PlainBlock), NEW i \in DOMAIN blocks
  PROVE  /\ HeadingPath(blocks, i) \in Seq(Text)
         /\ IsHeading(blocks[i]) => /\ HeadingPath(blocks, i) # << >>
                                   /\ Last(HeadingPath(blocks, i)) = blocks[i].text
         /\ i = 1 /\ ~IsHeading(blocks[i]) => HeadingPath(blocks, i) = << >>
<1> DEFINE Open(j) == /\ IsHeading(blocks[j])
                      /\ \A k \in j + 1..i :
                           IsHeading(blocks[k]) => blocks[k].level > blocks[j].level
           T == {j \in 1..i : Open(j)}
           open == Among([j \in 1..i |-> j], T)
           path == [n \in DOMAIN open |-> blocks[open[n]].text]
<1>1. HeadingPath(blocks, i) = path
  BY DEF HeadingPath
<1>2. i \in Nat \ {0} /\ i <= Len(blocks) /\ DOMAIN blocks = 1..Len(blocks) /\ Len(blocks) \in Nat
  BY LenProperties
<1>3. \A j \in 1..i : j \in DOMAIN blocks /\ blocks[j].text \in Text
  <2>1. \A j \in 1..i : j \in 1..Len(blocks)
    BY <1>2
  <2>2. \A j \in 1..Len(blocks) : blocks[j] \in PlainBlock
    BY ElementOfSeq
  <2> QED  BY <1>2, <2>1, <2>2 DEF PlainBlock
<1>4. IsHeading(blocks[i]) => i \in T
  <2>1. i \in 1..i /\ i + 1..i = {}
    BY <1>2
  <2> QED  BY <2>1
<1>5. i = 1 /\ ~IsHeading(blocks[i]) => T = {}
  BY <1>2
<1> HIDE DEF T
<1>6. /\ open \in Seq(1..i)
      /\ \A k \in DOMAIN open : open[k] \in T \cap 1..i
      /\ i \in T => open # << >> /\ open[Len(open)] = i
  BY <1>2, AmongNumbers DEF NumbersIn
<1> HIDE DEF open
<1>7. Len(open) \in Nat /\ DOMAIN open = 1..Len(open)
  BY <1>6, LenProperties
<1>8. path \in [1..Len(open) -> Text]
  BY <1>3, <1>6, <1>7
<1>9. \A n \in 1..Len(open) : path[n] = blocks[open[n]].text
  BY <1>7
<1> HIDE DEF path
<1>10. path \in Seq(Text) /\ Len(path) = Len(open)
  BY <1>7, <1>8, AsSeq
<1>11. ASSUME IsHeading(blocks[i]) PROVE path # << >> /\ Last(path) = blocks[i].text
  <2>1. open # << >> /\ open[Len(open)] = i
    BY <1>4, <1>6, <1>11
  <2>2. Len(open) \in 1..Len(open)
    BY <1>6, <1>7, <2>1, EmptySeq
  <2> QED  BY <1>9, <1>10, <2>1, <2>2, EmptySeq DEF Last
<1>12. ASSUME i = 1, ~IsHeading(blocks[i]) PROVE path = << >>
  <2>1. DOMAIN open = {}
    BY <1>5, <1>6, <1>12
  <2>2. Len(path) = 0
    BY <1>7, <1>10, <2>1
  <2> QED  BY <1>10, <2>2, EmptySeq
<1> QED  BY <1>1, <1>10, <1>11, <1>12

(* A page as plan_chunks gets it: headings end their own path, everything  *)
(* else has text, and only a heading can be first with a path and a level. *)
Outlined(blocks) ==
  /\ blocks \in Seq(PlacedBlock)
  /\ \A i \in DOMAIN blocks :
       /\ IsHeading(blocks[i]) => blocks[i].path # << >> /\ Last(blocks[i].path) = blocks[i].text
       /\ ~IsHeading(blocks[i]) => blocks[i].text # << >>
       /\ i = 1 /\ ~IsHeading(blocks[i]) => blocks[i].path = << >> \/ blocks[i].level = 0

(* The headings before i with the path of i: the ordinal of a section      *)
(* counts them.                                                            *)
Twins(blocks, i) ==
  {j \in 1..i - 1 : IsHeading(blocks[j]) /\ Joined(blocks[j].path) = Joined(blocks[i].path)}

(* s is the section that begins at block i and has the text of every block *)
(* up to the next heading.                                                 *)
SectionHeld(s, blocks, i) ==
  /\ s \in Sections
  /\ s.path = blocks[i].path
  /\ s.level = IF IsHeading(blocks[i]) THEN blocks[i].level ELSE 0
  /\ s.ordinal = Cardinality(Twins(blocks, i))
  /\ \A u \in DOMAIN s.units : s.units[u] # << >>
  /\ \A k \in i..Len(blocks) :
       (~IsHeading(blocks[k]) /\ \A j \in i + 1..k : ~IsHeading(blocks[j])) =>
          \E u \in DOMAIN s.units : s.units[u] = blocks[k].text

(* build_sections cuts such sections.                                      *)
LEMMA SectionHolds ==
  ASSUME NEW blocks, Outlined(blocks), NEW i \in DOMAIN blocks
  PROVE  SectionHeld(SectionAt(blocks, i), blocks, i)
<1> DEFINE n == Len(blocks)
           ends == {j \in i + 1..n : IsHeading(blocks[j])} \cup {n + 1}
           first == IF IsHeading(blocks[i]) THEN i + 1 ELSE i
           e == Min(ends)
           units == [u \in 1..e - first |-> blocks[first + u - 1].text]
<1>1. n \in Nat /\ DOMAIN blocks = 1..n /\ \A k \in 1..n : blocks[k] \in PlacedBlock
  BY LenProperties, ElementOfSeq DEF Outlined
<1>2. i \in 1..n /\ i \in Nat
  BY <1>1
<1>3. \A k \in 1..n : blocks[k].text \in Text
  BY <1>1 DEF PlacedBlock
<1>4. blocks[i].path \in Seq(Text) /\ blocks[i].level \in Nat
  BY <1>1, <1>2 DEF PlacedBlock
<1>5. PICK s : s = SectionAt(blocks, i)
  OBVIOUS
<1>6. s = [path |-> blocks[i].path, level |-> IF IsHeading(blocks[i]) THEN blocks[i].level ELSE 0,
           ordinal |-> Cardinality(Twins(blocks, i)), units |-> units]
  BY <1>5 DEF SectionAt, Twins
<1> HIDE DEF n
<1>7. e \in ends /\ \A k \in ends : e <= k
  <2>1. ends \subseteq Nat /\ n + 1 \in ends
    BY <1>1, <1>2
  <2> HIDE DEF ends
  <2> QED  BY <2>1, MinFacts
<1>8. e \in i + 1..n + 1
  BY <1>1, <1>2, <1>7
<1>9. first \in i..i + 1 /\ first \in Nat
  BY <1>2
<1>10. \A j \in i + 1..e - 1 : ~IsHeading(blocks[j])
  <2> SUFFICES ASSUME NEW j \in i + 1..e - 1 PROVE ~IsHeading(blocks[j])
    OBVIOUS
  <2>1. j \in i + 1..n /\ ~(e <= j)
    BY <1>1, <1>2, <1>8
  <2> QED  BY <1>7, <2>1
<1>11. \A j \in first..e - 1 : j \in 1..n /\ ~IsHeading(blocks[j])
  <2> SUFFICES ASSUME NEW j \in first..e - 1 PROVE j \in 1..n /\ ~IsHeading(blocks[j])
    OBVIOUS
  <2>1. j \in 1..n /\ (j = i \/ j \in i + 1..e - 1)
    BY <1>1, <1>2, <1>8, <1>9
  <2>2. j = i => ~IsHeading(blocks[i])
    BY <1>2
  <2> QED  BY <1>10, <2>1, <2>2
<1>12. \A k \in i..n : (~IsHeading(blocks[k]) /\ \A j \in i + 1..k : ~IsHeading(blocks[j])) => k \in first..e - 1
  <2> SUFFICES ASSUME NEW k \in i..n, ~IsHeading(blocks[k]), \A j \in i + 1..k : ~IsHeading(blocks[j])
               PROVE  k \in first..e - 1
    OBVIOUS
  <2>1. k >= first
    <3>1. IsHeading(blocks[i]) => k # i
      OBVIOUS
    <3> QED  BY <1>1, <1>2, <3>1
  <2>2. k < e
    <3>1. CASE e = n + 1
      BY <1>1, <1>2, <3>1
    <3>2. CASE e # n + 1
      <4>1. e \in i + 1..n /\ IsHeading(blocks[e])
        BY <1>7, <3>2
      <4>2. e \notin i + 1..k
        BY <4>1
      <4> QED  BY <1>1, <1>2, <4>1, <4>2
    <3> QED  BY <3>1, <3>2
  <2> QED  BY <1>1, <1>2, <1>8, <1>9, <2>1, <2>2
<1> HIDE DEF e, first
<1>13. e - first \in Nat /\ e \in Int
  BY <1>1, <1>2, <1>8, <1>9
<1>14. \A u \in 1..e - first : first + u - 1 \in first..e - 1
  BY <1>9, <1>13
<1>15. units \in [1..e - first -> Text] /\ \A u \in 1..e - first : units[u] = blocks[first + u - 1].text
  BY <1>3, <1>11, <1>14
<1> HIDE DEF units
<1>16. units \in Seq(Text) /\ DOMAIN units = 1..e - first
  BY <1>13, <1>15, AsSeq
<1>17. Cardinality(Twins(blocks, i)) \in Nat
  <2>1. IsFiniteSet(1..i - 1)
    BY <1>2, FS_Interval
  <2>2. IsFiniteSet(Twins(blocks, i))
    BY <2>1, FS_Subset DEF Twins
  <2> QED  BY <2>2, FS_CardinalityType
<1>18. s \in Sections
  BY <1>4, <1>6, <1>16, <1>17 DEF Sections
<1>19. \A u \in DOMAIN units : units[u] # << >>
  <2> SUFFICES ASSUME NEW u \in 1..e - first PROVE units[u] # << >>
    BY <1>16
  <2>1. first + u - 1 \in DOMAIN blocks /\ ~IsHeading(blocks[first + u - 1])
    BY <1>1, <1>11, <1>14
  <2> QED  BY <1>15, <2>1 DEF Outlined
<1>20. ASSUME NEW k \in i..n, ~IsHeading(blocks[k]), \A j \in i + 1..k : ~IsHeading(blocks[j])
       PROVE  \E u \in DOMAIN units : units[u] = blocks[k].text
  <2>1. k \in first..e - 1
    BY <1>12, <1>20
  <2>2. k - first + 1 \in 1..e - first /\ first + (k - first + 1) - 1 = k
    BY <1>9, <1>13, <2>1
  <2> QED  BY <1>15, <1>16, <2>2
<1>21. /\ s.path = blocks[i].path
       /\ s.level = IF IsHeading(blocks[i]) THEN blocks[i].level ELSE 0
       /\ s.ordinal = Cardinality(Twins(blocks, i)) /\ s.units = units
  BY <1>6
<1> QED  BY <1>5, <1>18, <1>19, <1>20, <1>21 DEF n, SectionHeld

(* A later heading with the same joined path has a greater ordinal.        *)
LEMMA TwinsGrow ==
  ASSUME NEW blocks, NEW i \in Nat \ {0}, NEW j \in Nat, i < j,
         IsHeading(blocks[i]), Joined(blocks[i].path) = Joined(blocks[j].path)
  PROVE  Cardinality(Twins(blocks, i)) # Cardinality(Twins(blocks, j))
<1>1. IsFiniteSet(Twins(blocks, i)) /\ IsFiniteSet(Twins(blocks, j))
  <2>1. IsFiniteSet(1..i - 1) /\ IsFiniteSet(1..j - 1)
    BY FS_Interval
  <2> QED  BY <2>1, FS_Subset DEF Twins
<1>2. i \in Twins(blocks, j) /\ i \notin Twins(blocks, i) /\ Twins(blocks, i) \subseteq Twins(blocks, j)
  BY DEF Twins
<1> QED  BY <1>1, <1>2, FS_Subset

(* The tokens of a heading path.                                           *)
TrailTokens(path) == UNION {Tokens(path[h]) : h \in DOMAIN path}

(* A text that is not empty has a token.                                   *)
LEMMA NonemptyHolds ==
  ASSUME NEW t \in Text, t # << >>
  PROVE  Tokens(t) # {}
<1>1. 1 \in DOMAIN t /\ t[1] \in Word
  <2>1. Len(t) \in Nat \ {0}
    BY EmptySeq DEF Text
  <2>2. 1 \in 1..Len(t) /\ DOMAIN t = 1..Len(t)
    BY <2>1, LenProperties DEF Text
  <2> QED  BY <2>2, ElementOfSeq DEF Text
<1>2. 0 \in 0..t[1].size - 1
  BY <1>1 DEF Word
<1>3. <<t[1].id, t[1].from + 0>> \in WordTokens(t[1])
  BY <1>2 DEF WordTokens
<1> QED  BY <1>1, <1>3 DEF Tokens

(* The heading of a section is in its path, and a section with a heading   *)
(* has units: its own heading where it has no body.                        *)
LEMMA SectionHoldsHeading ==
  ASSUME NEW s \in Sections, s.path # << >>, \A u \in DOMAIN s.units : s.units[u] # << >>
  PROVE  /\ Tokens(Last(s.path)) \subseteq TrailTokens(s.path)
         /\ Tokens(Last(s.path)) # {} => TokensOf(SectionUnits(s)) # {}
<1>1. s.path \in Seq(Text) /\ s.units \in Seq(Text)
  BY DEF Sections
<1>2. Len(s.path) \in DOMAIN s.path
  BY <1>1, EmptySeq, LenProperties
<1>3. Tokens(Last(s.path)) \subseteq TrailTokens(s.path)
  BY <1>2 DEF Last, TrailTokens
<1>4. CASE s.units = << >>
  <2>1. SectionUnits(s) = <<Last(s.path)>> /\ Last(s.path) \in Text
    BY <1>1, <1>2, <1>4, ElementOfSeq, LenProperties DEF SectionUnits, Last
  <2> QED  BY <1>3, <2>1, SingletonCovers
<1>5. CASE s.units # << >>
  <2>1. SectionUnits(s) = s.units
    BY <1>5 DEF SectionUnits
  <2>2. 1 \in DOMAIN s.units /\ s.units[1] \in Text
    BY <1>1, <1>5, EmptySeq, LenProperties, ElementOfSeq
  <2>3. Tokens(s.units[1]) # {}
    BY <2>2, NonemptyHolds
  <2> QED  BY <1>3, <2>1, <2>2, <2>3 DEF TokensOf
<1> QED  BY <1>4, <1>5

(* The sections of a page have different keys, and every token of a block  *)
(* is in the units or the path of one.                                     *)
LEMMA SectionsOutline ==
  ASSUME NEW blocks, Outlined(blocks)
  PROVE  LET ss == BuildSections(blocks) IN
         /\ ss \in Seq(Sections) /\ KeysDiffer(ss)
         /\ \A k \in DOMAIN blocks : \E s \in DOMAIN ss :
              /\ Tokens(blocks[k].text) \subseteq TokensOf(SectionUnits(ss[s])) \cup TrailTokens(ss[s].path)
              /\ Tokens(blocks[k].text) # {} => TokensOf(SectionUnits(ss[s])) # {}
<1> DEFINE n == Len(blocks)
           T == {i \in DOMAIN blocks : i = 1 \/ IsHeading(blocks[i])}
           starts == Among([i \in DOMAIN blocks |-> i], T)
           ss == [m \in DOMAIN starts |-> SectionAt(blocks, starts[m])]
<1>1. n \in Nat /\ DOMAIN blocks = 1..n
  BY LenProperties DEF Outlined
<1>2. BuildSections(blocks) = ss
  BY DEF BuildSections
<1>3. PICK F : F = starts
  OBVIOUS
<1> HIDE DEF n, T
<1>4. /\ F \in Seq(1..n)
      /\ \A k \in DOMAIN F : F[k] \in T \cap 1..n
      /\ \A k, l \in DOMAIN F : F[k] = F[l] => k = l
      /\ \A i \in T \cap 1..n : \E k \in DOMAIN F : F[k] = i
  <2>1. F = Among([i \in 1..n |-> i], T)
    BY <1>1, <1>3
  <2>2. NumbersIn(F, n, T)
    BY <1>1, <2>1, AmongNumbers
  <2> QED  BY <2>2, Zenon DEF NumbersIn
<1>5. Len(F) \in Nat /\ DOMAIN F = 1..Len(F)
  BY <1>4, LenProperties
<1>6. DOMAIN ss = 1..Len(F) /\ \A m \in 1..Len(F) : ss[m] = SectionAt(blocks, F[m])
  BY <1>3, <1>5
<1>7. ss = [m \in 1..Len(F) |-> ss[m]]
  BY <1>6
<1> HIDE DEF ss, starts
<1>8. ASSUME NEW m \in 1..Len(F) PROVE SectionHeld(ss[m], blocks, F[m])
  <2>1. PICK i : i = F[m]
    OBVIOUS
  <2>2. i \in DOMAIN blocks /\ ss[m] = SectionAt(blocks, i)
    BY <1>1, <1>4, <1>5, <1>6, <2>1
  <2> QED  BY <2>1, <2>2, SectionHolds
<1>9. ss \in Seq(Sections) /\ Len(ss) = Len(F)
  <2>1. ss \in [1..Len(F) -> Sections]
    BY <1>7, <1>8 DEF SectionHeld
  <2> QED  BY <1>5, <2>1, AsSeq
<1>10. ASSUME NEW l \in 1..Len(F), NEW m \in 1..Len(F), F[l] < F[m]
       PROVE  SectionKey(ss[l]) # SectionKey(ss[m])
  <2>1. PICK i, j : i = F[l] /\ j = F[m]
    OBVIOUS
  <2>2. i \in T /\ j \in T /\ i \in 1..n /\ j \in 1..n /\ i < j
    BY <1>4, <1>5, <1>10, <2>1
  <2>3. i \in Nat \ {0} /\ j \in Nat /\ j # 1 /\ i \in DOMAIN blocks /\ j \in DOMAIN blocks
    BY <1>1, <2>2
  <2>4. IsHeading(blocks[j]) /\ blocks[j].path # << >> /\ blocks[j].level # 0
    BY <2>2, <2>3 DEF T, Outlined, IsHeading
  <2> SUFFICES ASSUME SectionKey(ss[l]) = SectionKey(ss[m]) PROVE FALSE
    OBVIOUS
  <2>5. Joined(ss[l].path) = Joined(ss[m].path) /\ ss[l].level = ss[m].level /\ ss[l].ordinal = ss[m].ordinal
    BY DEF SectionKey
  <2>6. /\ Joined(blocks[i].path) = Joined(blocks[j].path)
        /\ IsHeading(blocks[i])
        /\ Cardinality(Twins(blocks, i)) = Cardinality(Twins(blocks, j))
    BY <1>8, <2>1, <2>4, <2>5 DEF SectionHeld
  <2> QED  BY <2>2, <2>3, <2>6, TwinsGrow
<1>11. KeysDiffer(ss)
  <2> SUFFICES ASSUME NEW l \in 1..Len(F), NEW m \in 1..Len(F), SectionKey(ss[l]) = SectionKey(ss[m])
               PROVE  l = m
    BY <1>6 DEF KeysDiffer
  <2>1. F[l] \in Nat /\ F[m] \in Nat
    BY <1>1, <1>4, <1>5
  <2>2. F[l] = F[m]
    BY <1>10, <2>1
  <2> QED  BY <1>4, <1>5, <2>2
<1>12. ASSUME NEW k \in DOMAIN blocks
       PROVE  \E s \in DOMAIN ss :
                /\ Tokens(blocks[k].text) \subseteq TokensOf(SectionUnits(ss[s])) \cup TrailTokens(ss[s].path)
                /\ Tokens(blocks[k].text) # {} => TokensOf(SectionUnits(ss[s])) # {}
  <2> DEFINE B == {j \in 1..k : j = 1 \/ IsHeading(blocks[j])}
  <2>1. k \in Nat /\ k \in 1..n
    BY <1>1
  <2>2. 1 \in B /\ B \in SUBSET (1..k)
    BY <2>1
  <2>3. Max(B) \in B /\ \A j \in B : j <= Max(B)
    <3> HIDE DEF B
    <3> QED  BY <2>1, <2>2, MaxFacts
  <2>4. PICK i : i = Max(B)
    OBVIOUS
  <2>5. i \in 1..k /\ (i = 1 \/ IsHeading(blocks[i])) /\ \A j \in i + 1..k : ~IsHeading(blocks[j])
    <3>1. i \in 1..k /\ (i = 1 \/ IsHeading(blocks[i]))
      BY <2>3, <2>4
    <3>2. \A j \in i + 1..k : j \in 1..k /\ ~(j <= i)
      BY <2>1, <3>1
    <3>3. \A j \in i + 1..k : j \notin B
      BY <2>3, <2>4, <3>2
    <3> QED  BY <3>1, <3>2, <3>3
  <2> HIDE DEF B
  <2>6. i \in T \cap 1..n /\ k \in i..n
    BY <1>1, <2>1, <2>5 DEF T
  <2>7. PICK m \in 1..Len(F) : F[m] = i
    BY <1>4, <1>5, <2>6
  <2>8. PICK s : s = ss[m]
    OBVIOUS
  <2>9. /\ s \in Sections /\ s.path = blocks[i].path
        /\ \A u \in DOMAIN s.units : s.units[u] # << >>
        /\ ~IsHeading(blocks[k]) => \E u \in DOMAIN s.units : s.units[u] = blocks[k].text
    <3>1. SectionHeld(s, blocks, i)
      BY <1>8, <2>7, <2>8
    <3>2. k \in i..Len(blocks)
      BY <2>6 DEF n
    <3> QED  BY <2>5, <3>1, <3>2 DEF SectionHeld
  <2>10. CASE ~IsHeading(blocks[k])
    <3>1. PICK u \in DOMAIN s.units : s.units[u] = blocks[k].text
      BY <2>9, <2>10
    <3>2. s.units # << >>
      BY <3>1
    <3>3. SectionUnits(s) = s.units
      BY <3>2 DEF SectionUnits
    <3>4. Tokens(blocks[k].text) \subseteq TokensOf(SectionUnits(s))
      BY <3>1, <3>3 DEF TokensOf
    <3> QED  BY <1>6, <2>7, <2>8, <3>4
  <2>11. CASE IsHeading(blocks[k])
    <3>1. k = i
      <4>1. k \notin i + 1..k
        BY <2>5, <2>11
      <4> QED  BY <2>1, <2>5, <4>1
    <3>2. s.path # << >> /\ Last(s.path) = blocks[k].text
      BY <2>9, <2>11, <3>1 DEF Outlined
    <3>3. /\ Tokens(blocks[k].text) \subseteq TrailTokens(s.path)
          /\ Tokens(blocks[k].text) # {} => TokensOf(SectionUnits(s)) # {}
      BY <2>9, <3>2, SectionHoldsHeading
    <3> QED  BY <1>6, <2>7, <2>8, <3>3
  <2> QED  BY <2>10, <2>11
<1> QED  BY <1>2, <1>9, <1>11, <1>12

(* What a list of chunks holds: their texts and their heading trails.      *)
HeldIn(children) ==
  UNION {Tokens(children[i].text) \cup TrailTokens(children[i].section.path) : i \in DOMAIN children}

(* A child names its section and parent and has only tokens of the parent. *)
ChildIsOf(child, parent) ==
  /\ child.section = parent.section /\ child.parent = parent.n
  /\ Tokens(child.text) \subseteq Tokens(parent.text)

(* The children of a plan: each within ChildMax and of some parent, no two *)
(* at the same place, and together with every token of every parent.       *)
WholeChildren(plan, children) ==
  /\ children \in Seq(PlannedChild)
  /\ \A i \in DOMAIN children : Count(children[i].text) <= ChildMax
  /\ \A i \in DOMAIN children : \E p \in DOMAIN plan : ChildIsOf(children[i], plan[p])
  /\ \A p \in DOMAIN plan : \E i \in DOMAIN children : children[i].section = plan[p].section
  /\ \A i, j \in DOMAIN children : PositionalKey(children[i]) = PositionalKey(children[j]) => i = j
  /\ \A p \in DOMAIN plan : Tokens(plan[p].text) \subseteq HeldIn(children)

(* The children of a whole plan are whole.                                 *)
LEMMA ChildrenAreWhole ==
  ASSUME NEW sections, NEW plan, WholePlan(sections, plan)
  PROVE  WholeChildren(plan, PlannedChildren(plan))
<1>1. plan \in Seq(PlannedParent) /\ \A p \in DOMAIN plan : WholeParent(plan[p])
  BY DEF WholePlan
<1>2. PICK new : new = PlannedChildren(plan)
  OBVIOUS
<1>3. PICK parts : parts = [p \in DOMAIN plan |-> plan[p].children]
  OBVIOUS
<1>4. new \in Seq(PlannedChild)
  BY <1>1, <1>2, ChildrenPlaced
<1>5. PICK row, col \in [DOMAIN new -> Nat] : IsPlacing(row, col, new, parts, Len(plan))
  BY <1>1, <1>2, <1>3, ChildrenPlaced
<1>6. DOMAIN plan = 1..Len(plan) /\ \A p \in DOMAIN plan : parts[p] = plan[p].children
  BY <1>1, <1>3, LenProperties
<1>7. \A i \in DOMAIN new : /\ row[i] \in DOMAIN plan /\ col[i] \in DOMAIN plan[row[i]].children
                          /\ new[i] = plan[row[i]].children[col[i]]
  <2>1. ASSUME NEW i \in DOMAIN new
        PROVE  row[i] \in 1..Len(plan) /\ col[i] \in DOMAIN parts[row[i]] /\ new[i] = parts[row[i]][col[i]]
    BY <1>5 DEF IsPlacing
  <2>2. ASSUME NEW i \in DOMAIN new PROVE row[i] \in DOMAIN plan /\ parts[row[i]] = plan[row[i]].children
    BY <1>6, <2>1
  <2> QED  BY <2>1, <2>2
<1>8. \A p \in DOMAIN plan : \A c \in DOMAIN plan[p].children :
         \E i \in DOMAIN new : row[i] = p /\ col[i] = c /\ new[i] = plan[p].children[c]
  <2> SUFFICES ASSUME NEW p \in DOMAIN plan, NEW c \in DOMAIN plan[p].children
               PROVE  \E i \in DOMAIN new : row[i] = p /\ col[i] = c /\ new[i] = plan[p].children[c]
    OBVIOUS
  <2>1. p \in 1..Len(plan) /\ c \in DOMAIN parts[p]
    BY <1>6
  <2>2. PICK i \in DOMAIN new : row[i] = p /\ col[i] = c
    BY <1>5, <2>1 DEF IsPlacing
  <2> QED  BY <1>7, <2>2
<1>9. ASSUME NEW i \in DOMAIN new
      PROVE  Count(new[i].text) <= ChildMax /\ ChildIsOf(new[i], plan[row[i]])
  <2>1. PICK x : x = plan[row[i]]
    OBVIOUS
  <2>2. WholeParent(x) /\ col[i] \in DOMAIN x.children /\ new[i] = x.children[col[i]]
    BY <1>1, <1>7, <2>1
  <2>3. ChildrenOf(x)
    BY <2>2 DEF WholeParent
  <2> QED  BY <2>1, <2>2, <2>3 DEF ChildrenOf, ChildIsOf
<1>10. ASSUME NEW p \in DOMAIN plan
       PROVE  \E i \in DOMAIN new : new[i].section = plan[p].section
  <2>1. plan[p] \in PlannedParent /\ plan[p].children # << >>
    BY <1>1, <1>6, ElementOfSeq DEF WholeParent
  <2>2. 1 \in DOMAIN plan[p].children
    <3>1. plan[p].children \in Seq(PlannedChild)
      BY <2>1 DEF PlannedParent
    <3> QED  BY <2>1, <3>1, EmptySeq, LenProperties
  <2>3. PICK i \in DOMAIN new : row[i] = p
    BY <1>8, <2>2
  <2>4. new[i].section = plan[p].section
    BY <1>9, <2>3 DEF ChildIsOf
  <2> QED  BY <2>4
<1>11. ASSUME NEW i \in DOMAIN new, NEW j \in DOMAIN new, PositionalKey(new[i]) = PositionalKey(new[j])
       PROVE  i = j
  <2>1. /\ SectionKey(new[i].section) = SectionKey(new[j].section)
        /\ new[i].parent = new[j].parent /\ new[i].ordinal = new[j].ordinal
    BY <1>11 DEF PositionalKey
  <2>2. SectionKey(plan[row[i]].section) = SectionKey(plan[row[j]].section) /\ plan[row[i]].n = plan[row[j]].n
    BY <1>9, <2>1 DEF ChildIsOf
  <2>3. row[i] = row[j]
    BY <1>7, <2>2 DEF WholePlan
  <2>4. PICK x : x = plan[row[i]]
    OBVIOUS
  <2>5. /\ WholeParent(x) /\ col[i] \in DOMAIN x.children /\ col[j] \in DOMAIN x.children
        /\ x.children[col[i]].ordinal = x.children[col[j]].ordinal
    BY <1>1, <1>7, <2>1, <2>3, <2>4
  <2>6. col[i] = col[j]
    BY <2>5 DEF WholeParent
  <2> QED  BY <1>5, <2>3, <2>6 DEF IsPlacing
<1>12. ASSUME NEW p \in DOMAIN plan, NEW x \in Tokens(plan[p].text) PROVE x \in HeldIn(new)
  <2>1. PICK c \in DOMAIN plan[p].children : x \in Tokens(plan[p].children[c].text)
    <3>1. PICK y : y = plan[p]
      OBVIOUS
    <3>2. WholeParent(y) /\ x \in Tokens(y.text)
      BY <1>1, <1>12, <3>1
    <3>3. \E c \in DOMAIN y.children : x \in Tokens(y.children[c].text)
      BY <3>2 DEF WholeParent
    <3> QED  BY <3>1, <3>3
  <2>2. PICK i \in DOMAIN new : new[i] = plan[p].children[c]
    BY <1>8
  <2> QED  BY <2>1, <2>2 DEF HeldIn
<1>13. WholeChildren(plan, new)
  BY <1>4, <1>9, <1>7, <1>10, <1>11, <1>12 DEF WholeChildren
<1> QED  BY <1>2, <1>13

(* plan_chunks of an outlined page: a whole plan whose children hold every *)
(* token of every block.                                                   *)
LEMMA PlanHolds ==
  ASSUME NEW blocks, Outlined(blocks)
  PROVE  /\ WholePlan(BuildSections(blocks), PlanChunks(blocks))
         /\ WholeChildren(PlanChunks(blocks), PlannedChildren(PlanChunks(blocks)))
         /\ \A k \in DOMAIN blocks : Tokens(blocks[k].text) \subseteq HeldIn(PlannedChildren(PlanChunks(blocks)))
<1>1. PICK ss, plan, new : ss = BuildSections(blocks) /\ plan = PlanChunks(blocks) /\ new = PlannedChildren(plan)
  OBVIOUS
<1>2. /\ ss \in Seq(Sections) /\ KeysDiffer(ss)
      /\ \A k \in DOMAIN blocks : \E s \in DOMAIN ss :
           /\ Tokens(blocks[k].text) \subseteq TokensOf(SectionUnits(ss[s])) \cup TrailTokens(ss[s].path)
           /\ Tokens(blocks[k].text) # {} => TokensOf(SectionUnits(ss[s])) # {}
  BY <1>1, SectionsOutline
<1>3. plan = FlattenSeq([s \in DOMAIN ss |-> PlanSection(ss[s])])
  BY <1>1 DEF PlanChunks
<1>4. WholePlan(ss, plan)
  BY <1>2, <1>3, PlansAreWhole
<1>5. WholeChildren(plan, new)
  BY <1>1, <1>4, ChildrenAreWhole
<1>6. ParentTokens(plan) \subseteq HeldIn(new)
  BY <1>5 DEF WholeChildren, ParentTokens
<1>7. ASSUME NEW k \in DOMAIN blocks, NEW x \in Tokens(blocks[k].text) PROVE x \in HeldIn(new)
  <2>1. PICK s \in DOMAIN ss :
          /\ x \in TokensOf(SectionUnits(ss[s])) \cup TrailTokens(ss[s].path)
          /\ TokensOf(SectionUnits(ss[s])) # {}
    BY <1>2, <1>7
  <2>2. /\ TokensOf(SectionUnits(ss[s])) \subseteq ParentTokens(plan)
        /\ \E p \in DOMAIN plan : plan[p].section = KeyOf(ss[s])
    BY <1>4, <2>1 DEF WholePlan
  <2>3. CASE x \in TokensOf(SectionUnits(ss[s]))
    BY <1>6, <2>2, <2>3
  <2>4. CASE x \in TrailTokens(ss[s].path)
    <3>1. PICK p \in DOMAIN plan : plan[p].section = KeyOf(ss[s])
      BY <2>2
    <3>2. PICK i \in DOMAIN new : new[i].section = plan[p].section
      BY <1>5 DEF WholeChildren
    <3>3. new[i].section.path = ss[s].path
      BY <3>1, <3>2 DEF KeyOf
    <3> QED  BY <2>4, <3>3 DEF HeldIn
  <2> QED  BY <2>1, <2>3, <2>4
<1> QED  BY <1>1, <1>4, <1>5, <1>7

-----------------------------------------------------------------------------
(* The state of the parser of normalize_body.                              *)
Readings == [blocks: Seq(PlainBlock), buf: Text, kind: Kinds]

(* The tokens of a list of blocks.                                         *)
BlockTokens(blocks) == UNION {Tokens(blocks[i].text) : i \in DOMAIN blocks}

(* The tokens of the blocks made and of the text not flushed yet.          *)
ReadTokens(s) == Tokens(s.buf) \cup BlockTokens(s.blocks)

(* _flush makes no empty block.                                            *)
NoneEmpty(blocks) == \A i \in DOMAIN blocks : blocks[i].text # << >>

(* The tokens of the text that an event hands to handle_data.              *)
DataTokens(e) == IF e.event = "data" THEN Tokens(e.text) ELSE {}

(* _flush loses nothing and leaves nothing in the buffer.                  *)
LEMMA FlushKeeps ==
  ASSUME NEW s \in Readings, NEW level \in Nat
  PROVE  /\ Flush(s, level) \in Readings
         /\ NoneEmpty(s.blocks) => NoneEmpty(Flush(s, level).blocks)
         /\ ReadTokens(Flush(s, level)) = ReadTokens(s)
         /\ Flush(s, level).buf = << >>
<1>1. s.blocks \in Seq(PlainBlock) /\ s.buf \in Text /\ s.kind \in Kinds
  BY DEF Readings
<1>2. CASE s.buf = << >>
  BY <1>2 DEF Flush
<1>3. CASE s.buf # << >>
  <2>1. PICK b : b = Block(s.kind, level, s.buf)
    OBVIOUS
  <2>2. b \in PlainBlock /\ b.text = s.buf
    BY <1>1, <2>1 DEF Block, PlainBlock
  <2>3. PICK bs : bs = Append(s.blocks, b)
    OBVIOUS
  <2>4. PICK n : n = Len(s.blocks)
    OBVIOUS
  <2>5. /\ bs \in Seq(PlainBlock) /\ Len(bs) = n + 1 /\ bs[n + 1] = b
        /\ \A i \in 1..n : bs[i] = s.blocks[i]
    BY <1>1, <2>2, <2>3, <2>4, AppendProperties
  <2>6. n \in Nat /\ DOMAIN s.blocks = 1..n /\ DOMAIN bs = 1..n + 1
    BY <1>1, <2>4, <2>5, LenProperties
  <2>7. n + 1 \in DOMAIN bs /\ \A i \in DOMAIN bs : i = n + 1 \/ i \in DOMAIN s.blocks
    BY <2>6
  <2>8. \A i \in DOMAIN s.blocks : i \in DOMAIN bs /\ bs[i] = s.blocks[i]
    BY <2>5, <2>6
  <2>9. BlockTokens(bs) = BlockTokens(s.blocks) \cup Tokens(s.buf)
    BY <2>2, <2>5, <2>7, <2>8 DEF BlockTokens
  <2>10. NoneEmpty(s.blocks) => NoneEmpty(bs)
    BY <1>3, <2>2, <2>5, <2>7, <2>8 DEF NoneEmpty
  <2>11. Flush(s, level) = [blocks |-> bs, buf |-> << >>, kind |-> "paragraph"]
    BY <1>3, <2>1, <2>3 DEF Flush
  <2>12. << >> \in Text
    BY EmptySeq DEF Text
  <2>13. "paragraph" \in Kinds
    BY DEF Kinds
  <2> QED  BY <2>5, <2>9, <2>10, <2>11, <2>12, <2>13, TokensEmpty DEF Readings, ReadTokens
<1> QED  BY <1>2, <1>3

(* The kind of the next block changes no text.                             *)
LEMMA KindKeeps ==
  ASSUME NEW s \in Readings, NEW kind \in Kinds
  PROVE  /\ [s EXCEPT !.kind = kind] \in Readings
         /\ [s EXCEPT !.kind = kind].blocks = s.blocks
         /\ ReadTokens([s EXCEPT !.kind = kind]) = ReadTokens(s)
BY DEF Readings, ReadTokens

(* A flush and a new kind.                                                 *)
LEMMA FlushedAs ==
  ASSUME NEW s \in Readings, NEW level \in Nat, NEW kind \in Kinds
  PROVE  LET t == [Flush(s, level) EXCEPT !.kind = kind] IN
         /\ t \in Readings
         /\ NoneEmpty(s.blocks) => NoneEmpty(t.blocks)
         /\ ReadTokens(t) = ReadTokens(s)
BY FlushKeeps, KindKeeps

(* From s to t no block is empty and no token is lost.                     *)
HandlesWell(s, t) ==
  /\ t \in Readings
  /\ NoneEmpty(s.blocks) => NoneEmpty(t.blocks)
  /\ ReadTokens(s) \subseteq ReadTokens(t)

(* Each handler of the parser loses nothing and keeps the text it is       *)
(* given.                                                                  *)
LEMMA HandleKeeps ==
  ASSUME NEW s \in Readings, NEW e \in Event
  PROVE  HandlesWell(s, HandleEvent(s, e)) /\ DataTokens(e) \subseteq ReadTokens(HandleEvent(s, e))
<1>1. 0 \in Nat
  OBVIOUS
<1>8. {"heading", "paragraph", "list", "table", "code", "panel"} = Kinds
  BY DEF Kinds
<1>2. PICK tag, t : tag = e.tag /\ t = HandleEvent(s, e)
  OBVIOUS
<1>7. \A h \in Headings : h \notin {"list", "table", "code", "panel", "macro", "p"}
  BY DEF Headings, HeadingTags
<1>3. CASE e.event = "open"
  <2>1. e \in [event: {"open", "close"}, tag: STRING]
    BY <1>3 DEF Event
  <2>2. t = HandleStart(s, tag) /\ DataTokens(e) = {}
    BY <1>2, <1>3, <2>1 DEF HandleEvent, DataTokens
  <2>3. CASE tag \in Headings
    <3>1. t = [Flush(s, 0) EXCEPT !.kind = "heading"]
      BY <1>7, <2>2, <2>3 DEF HandleStart
    <3> QED  BY <1>1, <1>2, <1>8, <2>2, <3>1, FlushedAs DEF HandlesWell
  <2>4. CASE tag \notin Headings /\ tag \in {"list", "table", "code", "panel"}
    <3>1. t = [Flush(s, 0) EXCEPT !.kind = tag]
      BY <2>2, <2>4 DEF HandleStart
    <3> QED  BY <1>1, <1>2, <1>8, <2>2, <2>4, <3>1, FlushedAs DEF HandlesWell
  <2>5. CASE tag \notin Headings /\ tag \notin {"list", "table", "code", "panel"}
    <3>1. t = s
      BY <2>2, <2>5 DEF HandleStart
    <3> QED  BY <1>2, <2>2, <3>1 DEF HandlesWell
  <2> QED  BY <2>3, <2>4, <2>5
<1>4. CASE e.event = "close"
  <2>1. e \in [event: {"open", "close"}, tag: STRING]
    BY <1>4 DEF Event
  <2>2. t = HandleEnd(s, tag) /\ DataTokens(e) = {}
    BY <1>2, <1>4, <2>1 DEF HandleEvent, DataTokens
  <2>3. CASE tag \in Headings
    <3>1. t = [Flush(s, HeadingTags[tag]) EXCEPT !.kind = "paragraph"]
      BY <1>7, <2>2, <2>3 DEF HandleEnd, MacroTags
    <3>2. HeadingTags[tag] \in Nat
      BY <2>3 DEF Headings, HeadingTags
    <3> QED  BY <1>1, <1>2, <1>8, <2>2, <3>1, <3>2, FlushedAs DEF HandlesWell
  <2>4. CASE tag \notin Headings /\ tag \in {"list", "table"} \cup MacroTags
    <3>1. t = [Flush(s, 0) EXCEPT !.kind = "paragraph"]
      BY <2>2, <2>4 DEF HandleEnd, MacroTags
    <3> QED  BY <1>1, <1>2, <1>8, <2>2, <3>1, FlushedAs DEF HandlesWell
  <2>5. CASE tag \notin Headings /\ tag \notin {"list", "table"} \cup MacroTags /\ tag = "p"
    <3>1. t = Flush(s, 0)
      BY <2>2, <2>5 DEF HandleEnd
    <3> QED  BY <1>1, <1>2, <2>2, <3>1, FlushKeeps DEF HandlesWell
  <2>6. CASE tag \notin Headings /\ tag \notin {"list", "table"} \cup MacroTags /\ tag # "p"
    <3>1. t = s
      BY <2>2, <2>6 DEF HandleEnd
    <3> QED  BY <1>2, <2>2, <3>1 DEF HandlesWell
  <2> QED  BY <2>3, <2>4, <2>5, <2>6
<1>5. CASE e.event = "data"
  <2>1. e.text \in Text
    BY <1>5 DEF Event
  <2>2. t = [s EXCEPT !.buf = @ \o e.text]
    BY <1>2, <1>5 DEF HandleEvent
  <2>3. PICK u : u = s.buf \o e.text
    OBVIOUS
  <2>4. s.buf \in Text /\ s.blocks \in Seq(PlainBlock) /\ s.kind \in Kinds
    BY DEF Readings
  <2>5. u \in Text /\ Tokens(u) = Tokens(s.buf) \cup Tokens(e.text)
    BY <2>1, <2>3, <2>4, TokensConcat, CountConcat
  <2>6. t = [blocks |-> s.blocks, buf |-> u, kind |-> s.kind]
    BY <2>2, <2>3 DEF Readings
  <2> QED  BY <1>2, <1>5, <2>4, <2>5, <2>6 DEF HandlesWell, Readings, ReadTokens, DataTokens
<1>6. CASE e.event \in {"cdata", "broken"}
  <2>1. t = s /\ DataTokens(e) = {}
    BY <1>2, <1>6 DEF HandleEvent, DataTokens
  <2> QED  BY <1>2, <2>1 DEF HandlesWell
<1>9. e.event \in {"open", "close", "data", "cdata", "broken"}
  BY DEF Event
<1> QED  BY <1>3, <1>4, <1>5, <1>6, <1>9

(* The parser begins with nothing read.                                    *)
NoReading == [blocks |-> << >>, buf |-> << >>, kind |-> "paragraph"]

(* normalize_body feeds the events one after the other.                    *)
LEMMA ReadRuns ==
  ASSUME NEW body \in Seq(Event)
  PROVE  \E f \in [0..Len(body) -> Readings] :
           /\ f[0] = NoReading
           /\ \A i \in 1..Len(body) : f[i] = HandleEvent(f[i - 1], body[i])
           /\ f[Len(body)] = FoldLeft(HandleEvent, [blocks |-> << >>, buf |-> << >>, kind |-> "paragraph"], body)
<1> DEFINE n == Len(body)
           base == [blocks |-> << >>, buf |-> << >>, kind |-> "paragraph"]
           iter[t \in SUBSET DOMAIN body] ==
             IF t = {} THEN base ELSE LET x == Max(t) IN HandleEvent(iter[t \ {x}], body[x])
           step == [p \in Readings \X (1..n) |-> HandleEvent(p[1], body[p[2]])]
           last == FoldLeft(HandleEvent, base, body)
<1>1. last = iter[DOMAIN body]
  BY DEF FoldLeft, MapThenFoldSet
<1>2. n \in Nat /\ DOMAIN body = 1..n
  BY LenProperties
<1>3. base \in Readings /\ base = NoReading
  <2>1. << >> \in Text /\ << >> \in Seq(PlainBlock) /\ "paragraph" \in Kinds
    BY EmptySeq DEF Text, Kinds
  <2> QED  BY <2>1 DEF Readings, NoReading
<1>a. \A p \in Readings, i \in 1..n : HandleEvent(p, body[i]) \in Readings
  <2>1. \A i \in 1..n : body[i] \in Event
    BY ElementOfSeq
  <2> QED  BY <2>1, HandleKeeps DEF HandlesWell
<1> HIDE DEF n, base, last
<1>4. /\ step \in [Readings \X (1..n) -> Readings]
      /\ \A p \in Readings, i \in 1..n : step[<<p, i>>] = HandleEvent(p, body[i])
  BY <1>a
<1> HIDE DEF step
<1>5. PICK g \in [SUBSET (1..n) -> Readings] : IsFold(g, n, base, step)
  BY <1>2, <1>3, <1>4, FoldExists, Zenon
<1>6. \A t \in SUBSET (1..n) : t # {} => Max(t) \in 1..n /\ t \ {Max(t)} \in SUBSET (1..n)
  BY <1>2, MaxFacts
<1>7. g = [t \in SUBSET DOMAIN body |->
             IF t = {} THEN base ELSE LET x == Max(t) IN HandleEvent(g[t \ {x}], body[x])]
  <2>1. ASSUME NEW t \in SUBSET (1..n), t # {}
        PROVE  g[t] = HandleEvent(g[t \ {Max(t)}], body[Max(t)])
    BY <1>4, <1>5, <1>6, <2>1 DEF IsFold
  <2>2. g[{}] = base
    BY <1>5 DEF IsFold
  <2> QED  BY <1>2, <1>5, <2>1, <2>2
<1>8. iter = [t \in SUBSET DOMAIN body |->
                IF t = {} THEN base ELSE LET x == Max(t) IN HandleEvent(iter[t \ {x}], body[x])]
  BY <1>7, Zenon
<1> HIDE DEF iter
<1>9. IsFoldOn(Readings, iter, n, base, step)
  <2>1. ASSUME NEW s \in SUBSET (1..n), s # {}, iter[s \ {Max(s)}] \in Readings
        PROVE  iter[s] = step[<<iter[s \ {Max(s)}], Max(s)>>]
    <3>1. iter[s] = HandleEvent(iter[s \ {Max(s)}], body[Max(s)])
      BY <1>2, <1>8, <2>1
    <3> QED  BY <1>4, <1>6, <2>1, <3>1
  <2> QED  BY <1>8, <2>1 DEF IsFoldOn
<1>10. PICK f \in [0..n -> Readings] : IsRun(f, n, base, step, iter[1..n])
  BY <1>2, <1>3, <1>4, <1>9, FoldRuns, Zenon
<1>11. ASSUME NEW i \in 1..n PROVE f[i] = HandleEvent(f[i - 1], body[i])
  <2>1. i - 1 \in 0..n
    BY <1>2
  <2>2. f[i - 1] \in Readings
    BY <2>1
  <2> QED  BY <1>4, <1>10, <2>2 DEF IsRun
<1>12. f[0] = NoReading /\ f[n] = last
  BY <1>1, <1>2, <1>3, <1>10 DEF IsRun
<1> QED
  BY <1>11, <1>12 DEF n, last, base

(* Blocks that are none empty and hold the text html.parser hands over.    *)
HoldsText(blocks, body) ==
  /\ blocks \in Seq(PlainBlock)
  /\ NoneEmpty(blocks)
  /\ \A i \in DOMAIN body : DataTokens(body[i]) \subseteq BlockTokens(blocks)

(* The parser keeps the text it is handed, whatever tags are open or       *)
(* closed.                                                                 *)
LEMMA ParsedHolds ==
  ASSUME NEW body \in Seq(Event)
  PROVE  HoldsText(Parsed(body), body)
<1> DEFINE n == Len(body)
<1>1. n \in Nat /\ DOMAIN body = 1..n /\ \A i \in 1..n : body[i] \in Event
  BY LenProperties, ElementOfSeq
<1>2. PICK f \in [0..n -> Readings] :
        /\ f[0] = NoReading
        /\ \A i \in 1..n : f[i] = HandleEvent(f[i - 1], body[i])
        /\ f[n] = FoldLeft(HandleEvent, [blocks |-> << >>, buf |-> << >>, kind |-> "paragraph"], body)
  BY ReadRuns
<1>3. Parsed(body) = Flush(f[n], 0).blocks
  BY <1>2 DEF Parsed
<1> HIDE DEF n
<1> DEFINE T == {i \in 0..n : /\ NoneEmpty(f[i].blocks)
                              /\ \A k \in 1..i : DataTokens(body[k]) \subseteq ReadTokens(f[i])}
<1>4. 0 \in T
  <2>1. NoneEmpty(f[0].blocks)
    BY <1>2 DEF NoReading, NoneEmpty
  <2>2. 1..0 = {} /\ 0 \in 0..n
    BY <1>1
  <2> QED  BY <2>1, <2>2
<1>5. ASSUME NEW i \in 1..n, i - 1 \in T PROVE i \in T
  <2>1. i \in 0..n /\ i - 1 \in 0..n /\ \A k \in 1..i : k = i \/ k \in 1..i - 1
    BY <1>1
  <2>2. PICK s, t : s = f[i - 1] /\ t = f[i]
    OBVIOUS
  <2>3. s \in Readings /\ t = HandleEvent(s, body[i]) /\ body[i] \in Event
    BY <1>1, <1>2, <2>1, <2>2
  <2>4. HandlesWell(s, t) /\ DataTokens(body[i]) \subseteq ReadTokens(t)
    BY <2>3, HandleKeeps
  <2>5. NoneEmpty(s.blocks) /\ \A k \in 1..i - 1 : DataTokens(body[k]) \subseteq ReadTokens(s)
    BY <1>5, <2>2
  <2>6. NoneEmpty(t.blocks) /\ \A k \in 1..i : DataTokens(body[k]) \subseteq ReadTokens(t)
    BY <2>1, <2>4, <2>5 DEF HandlesWell
  <2> QED  BY <2>1, <2>2, <2>6
<1> HIDE DEF T
<1>6. n \in T
  <2>1. \A i \in 0..n : i \in T
    BY <1>1, <1>4, <1>5, Upwards
  <2> QED  BY <1>1, <2>1
<1>7. PICK s, t : s = f[n] /\ t = Flush(s, 0)
  OBVIOUS
<1>8. s \in Readings /\ NoneEmpty(s.blocks) /\ \A k \in 1..n : DataTokens(body[k]) \subseteq ReadTokens(s)
  BY <1>1, <1>2, <1>6, <1>7 DEF T
<1>9. t \in Readings /\ NoneEmpty(t.blocks) /\ ReadTokens(t) = ReadTokens(s) /\ t.buf = << >>
  BY <1>7, <1>8, FlushKeeps
<1>10. ReadTokens(t) = BlockTokens(t.blocks)
  BY <1>9, TokensEmpty DEF ReadTokens
<1>11. t.blocks \in Seq(PlainBlock) /\ Parsed(body) = t.blocks
  BY <1>3, <1>7, <1>9 DEF Readings
<1> QED  BY <1>1, <1>8, <1>9, <1>10, <1>11 DEF HoldsText

(* So does the fallback.                                                   *)
LEMMA StrippedHolds ==
  ASSUME NEW body \in Seq(Event)
  PROVE  HoldsText(Stripped(body), body)
<1> DEFINE texts == [i \in DOMAIN body |-> IF body[i].event = "data" THEN body[i].text ELSE << >>]
<1>1. DOMAIN body = 1..Len(body) /\ Len(body) \in Nat /\ \A i \in DOMAIN body : body[i] \in Event
  BY LenProperties, ElementOfSeq
<1>2. << >> \in Text /\ \A i \in DOMAIN body : body[i].event = "data" => body[i].text \in Text
  BY <1>1, EmptySeq DEF Event, Text
<1>3. PICK ss : ss = texts
  OBVIOUS
<1>4. /\ ss \in Seq(Text) /\ DOMAIN ss = DOMAIN body
      /\ \A i \in DOMAIN ss : ss[i] = IF body[i].event = "data" THEN body[i].text ELSE << >>
  <2>1. DOMAIN ss = DOMAIN body /\ \A i \in DOMAIN ss : ss[i] \in Text
    BY <1>2, <1>3
  <2>2. ss \in [1..Len(body) -> Text]
    BY <1>1, <1>2, <1>3
  <2> QED  BY <1>1, <1>3, <2>1, <2>2, SeqDef
<1>5. PICK t : t = FlattenSeq(ss)
  OBVIOUS
<1>6. t \in Text /\ Tokens(t) = UNION {Tokens(ss[i]) : i \in DOMAIN ss}
  BY <1>4, <1>5, TokensFlatten
<1>7. \A i \in DOMAIN body : DataTokens(body[i]) \subseteq Tokens(t)
  BY <1>4, <1>6 DEF DataTokens
<1>8. PICK blocks : blocks = Stripped(body)
  OBVIOUS
<1>9. blocks = IF t = << >> THEN << >> ELSE <<Block("paragraph", 0, t)>>
  BY <1>3, <1>5, <1>8 DEF Stripped
<1>10. CASE t = << >>
  <2>1. blocks = << >> /\ Tokens(t) = {}
    BY <1>9, <1>10, TokensEmpty
  <2>2. << >> \in Seq(PlainBlock) /\ NoneEmpty(<< >>)
    BY EmptySeq DEF NoneEmpty
  <2> QED  BY <1>7, <1>8, <2>1, <2>2 DEF HoldsText
<1>11. CASE t # << >>
  <2>1. PICK b : b = Block("paragraph", 0, t)
    OBVIOUS
  <2>2. b \in PlainBlock /\ b.text = t
    BY <1>6, <2>1 DEF Block, PlainBlock, Kinds
  <2>3. blocks = <<b>>
    BY <1>9, <1>11, <2>1
  <2>4. blocks \in Seq(PlainBlock) /\ DOMAIN blocks = {1} /\ blocks[1] = b
    BY <2>2, <2>3
  <2>5. NoneEmpty(blocks) /\ Tokens(t) \subseteq BlockTokens(blocks)
    BY <1>11, <2>2, <2>4 DEF NoneEmpty, BlockTokens
  <2> QED  BY <1>7, <1>8, <2>4, <2>5 DEF HoldsText
<1> QED  BY <1>10, <1>11

(* normalize_body: no empty block, and every token that html.parser hands  *)
(* over as text is in one; CDATA sections are not handed over.             *)
LEMMA BodyHolds ==
  ASSUME NEW body \in Seq(Event)
  PROVE  /\ NormalizeBody(body) \in Seq(PlainBlock)
         /\ NoneEmpty(NormalizeBody(body))
         /\ \A i \in DOMAIN body : DataTokens(body[i]) \subseteq BlockTokens(NormalizeBody(body))
BY ParsedHolds, StrippedHolds DEF NormalizeBody, HoldsText

(* A normalized body with its heading paths is outlined.                   *)
LEMMA PlacedOutline ==
  ASSUME NEW blocks \in Seq(PlainBlock), NoneEmpty(blocks)
  PROVE  /\ Outlined(WithHeadingPaths(blocks))
         /\ BlockTokens(WithHeadingPaths(blocks)) = BlockTokens(blocks)
<1>1. PICK ps, n : ps = WithHeadingPaths(blocks) /\ n = Len(blocks)
  OBVIOUS
<1>2. n \in Nat /\ DOMAIN blocks = 1..n /\ \A i \in 1..n : blocks[i] \in PlainBlock
  BY <1>1, LenProperties, ElementOfSeq
<1>3. ps = [i \in DOMAIN blocks |->
              [kind |-> blocks[i].kind, level |-> blocks[i].level, text |-> blocks[i].text,
               path |-> HeadingPath(blocks, i)]]
  BY <1>1 DEF WithHeadingPaths
<1>4. ASSUME NEW i \in 1..n
      PROVE  /\ ps[i].kind = blocks[i].kind /\ ps[i].level = blocks[i].level
             /\ ps[i].text = blocks[i].text /\ ps[i].path = HeadingPath(blocks, i)
             /\ ps[i] \in PlacedBlock
             /\ IsHeading(ps[i]) <=> IsHeading(blocks[i])
  <2>1. HeadingPath(blocks, i) \in Seq(Text)
    BY <1>2, PathsEndInHeadings
  <2>2. ps[i] = [kind |-> blocks[i].kind, level |-> blocks[i].level, text |-> blocks[i].text,
                 path |-> HeadingPath(blocks, i)]
    BY <1>2, <1>3
  <2>3. blocks[i] \in PlainBlock
    BY <1>2
  <2> QED  BY <2>1, <2>2, <2>3 DEF PlainBlock, PlacedBlock, IsHeading
<1>5. ps \in Seq(PlacedBlock) /\ DOMAIN ps = 1..n
  <2>1. ps \in [1..n -> PlacedBlock]
    BY <1>2, <1>3, <1>4
  <2> QED  BY <1>2, <2>1, AsSeq
<1>6. ASSUME NEW i \in 1..n
      PROVE  /\ IsHeading(ps[i]) => ps[i].path # << >> /\ Last(ps[i].path) = ps[i].text
             /\ ~IsHeading(ps[i]) => ps[i].text # << >>
             /\ i = 1 /\ ~IsHeading(ps[i]) => ps[i].path = << >> \/ ps[i].level = 0
  <2>1. PICK h : h = HeadingPath(blocks, i)
    OBVIOUS
  <2>2. /\ IsHeading(blocks[i]) => h # << >> /\ Last(h) = blocks[i].text
        /\ i = 1 /\ ~IsHeading(blocks[i]) => h = << >>
    BY <1>2, <2>1, PathsEndInHeadings
  <2>3. ps[i].path = h /\ ps[i].text = blocks[i].text /\ (IsHeading(ps[i]) <=> IsHeading(blocks[i]))
    BY <1>4, <2>1
  <2>4. blocks[i].text # << >>
    BY <1>2 DEF NoneEmpty
  <2> QED  BY <2>2, <2>3, <2>4
<1>7. Outlined(ps)
  BY <1>5, <1>6 DEF Outlined
<1>8. BlockTokens(ps) = BlockTokens(blocks)
  BY <1>2, <1>4, <1>5 DEF BlockTokens
<1> QED  BY <1>1, <1>7, <1>8

(* A block that can stand anywhere in an outlined page.                    *)
StandsAlone(b) ==
  /\ IsHeading(b) => b.path # << >> /\ Last(b.path) = b.text
  /\ ~IsHeading(b) => b.text # << >> /\ b.level = 0

(* What can stand anywhere can follow an outlined page.                    *)
LEMMA OutlinesJoin ==
  ASSUME NEW xs, Outlined(xs),
         NEW ys \in Seq(PlacedBlock), \A i \in DOMAIN ys : StandsAlone(ys[i])
  PROVE  Outlined(xs \o ys) /\ BlockTokens(xs \o ys) = BlockTokens(xs) \cup BlockTokens(ys)
<1>1. PICK zs, m, n : zs = xs \o ys /\ m = Len(xs) /\ n = Len(ys)
  OBVIOUS
<1>2. xs \in Seq(PlacedBlock) /\ ys \in Seq(PlacedBlock)
  BY DEF Outlined
<1>3. /\ zs \in Seq(PlacedBlock) /\ Len(zs) = m + n
      /\ \A i \in 1..m + n : zs[i] = IF i <= m THEN xs[i] ELSE ys[i - m]
  BY <1>1, <1>2, ConcatProperties
<1>4. m \in Nat /\ n \in Nat /\ DOMAIN xs = 1..m /\ DOMAIN ys = 1..n /\ DOMAIN zs = 1..m + n
  BY <1>1, <1>2, <1>3, LenProperties
<1>5. ASSUME NEW i \in 1..m + n
      PROVE  \/ i \in DOMAIN xs /\ zs[i] = xs[i]
             \/ i # 1 /\ i - m \in DOMAIN ys /\ zs[i] = ys[i - m]
             \/ i = 1 /\ 1 \in DOMAIN ys /\ zs[i] = ys[1]
  <2>1. CASE i <= m
    <3>1. i \in 1..m
      BY <1>4, <2>1
    <3> QED  BY <1>3, <1>4, <2>1, <3>1
  <2>2. CASE ~(i <= m)
    <3>0. i - m \in 1..n
      BY <1>4, <2>2
    <3>1. i - m \in 1..n /\ zs[i] = ys[i - m]
      BY <1>3, <2>2, <3>0
    <3>2. i = 1 => i - m = 1
      BY <1>4, <2>2
    <3> QED  BY <1>4, <3>1, <3>2
  <2> QED  BY <2>1, <2>2
<1>6. /\ \A i \in DOMAIN xs : i \in DOMAIN zs /\ zs[i] = xs[i]
      /\ \A i \in DOMAIN ys : m + i \in DOMAIN zs /\ zs[m + i] = ys[i]
  <2>1. ASSUME NEW i \in 1..m PROVE i \in 1..m + n /\ zs[i] = xs[i]
    <3>1. i \in 1..m + n /\ i <= m
      BY <1>4
    <3> QED  BY <1>3, <3>1
  <2>2. ASSUME NEW i \in 1..n PROVE m + i \in 1..m + n /\ zs[m + i] = ys[i]
    <3>1. m + i \in 1..m + n /\ ~(m + i <= m) /\ (m + i) - m = i
      BY <1>4
    <3> QED  BY <1>3, <3>1
  <2> QED  BY <1>4, <2>1, <2>2
<1>9. ASSUME NEW i \in DOMAIN zs
      PROVE  /\ IsHeading(zs[i]) => zs[i].path # << >> /\ Last(zs[i].path) = zs[i].text
             /\ ~IsHeading(zs[i]) => zs[i].text # << >>
             /\ i = 1 /\ ~IsHeading(zs[i]) => zs[i].path = << >> \/ zs[i].level = 0
  <2>1. PICK c : c = zs[i]
    OBVIOUS
  <2>2. CASE i \in DOMAIN xs /\ zs[i] = xs[i]
    BY <2>2 DEF Outlined
  <2>3. CASE i # 1 /\ i - m \in DOMAIN ys /\ zs[i] = ys[i - m]
    BY <2>3 DEF StandsAlone
  <2>4. CASE i = 1 /\ 1 \in DOMAIN ys /\ zs[i] = ys[1]
    BY <2>4 DEF StandsAlone
  <2> QED  BY <1>4, <1>5, <2>2, <2>3, <2>4
<1>10. Outlined(zs)
  BY <1>3, <1>9 DEF Outlined
<1>11. BlockTokens(zs) = BlockTokens(xs) \cup BlockTokens(ys)
  <2>1. ASSUME NEW i \in DOMAIN zs
        PROVE  \/ \E j \in DOMAIN xs : zs[i] = xs[j]
               \/ \E j \in DOMAIN ys : zs[i] = ys[j]
    BY <1>4, <1>5
  <2>2. ASSUME NEW x \in BlockTokens(zs) PROVE x \in BlockTokens(xs) \cup BlockTokens(ys)
    <3>1. PICK i \in DOMAIN zs : x \in Tokens(zs[i].text)
      BY DEF BlockTokens
    <3> QED  BY <2>1, <3>1 DEF BlockTokens
  <2>3. ASSUME NEW x \in BlockTokens(xs) \cup BlockTokens(ys) PROVE x \in BlockTokens(zs)
    BY <1>6 DEF BlockTokens
  <2> QED  BY <2>2, <2>3
<1> QED  BY <1>1, <1>10, <1>11
=============================================================================
