------------------------------- MODULE ReadProofs -------------------------------
(***************************************************************************)
(* Proofs about the range functions for any ranges, about RangeFetch for   *)
(* blobs of any size, and about ImageReads for any number of goroutines.   *)
(***************************************************************************)
EXTENDS ImageReads, FoldProofs

(* What the functions are given and return: ranges that hold a byte at least. *)
Rng == [Offset : Nat, Length : Nat \ {0}]

Holds(r, x) == r.Offset <= x /\ x < End(r)

LEMMA RngIs ==
  ASSUME NEW r \in Rng
  PROVE  /\ r.Offset \in Nat /\ r.Length \in Nat /\ r.Length > 0
         /\ End(r) = r.Offset + r.Length /\ End(r) \in Nat /\ r.Offset < End(r)
         /\ \A x \in Int : Holds(r, x) <=> r.Offset <= x /\ x < End(r)
<1>1. r.Offset \in Nat /\ r.Length \in Nat /\ r.Length > 0
  BY DEF Rng
<1>2. QED
  BY <1>1 DEF End, Holds

LEMMA IntervalIs ==
  ASSUME NEW a \in Nat, NEW b \in Nat, a < b
  PROVE  /\ Interval(a, b - a) \in Rng
         /\ Interval(a, b - a).Offset = a /\ End(Interval(a, b - a)) = b
BY DEF Interval, End, Rng

LEMMA FunctionIsSeq ==
  ASSUME NEW n \in Nat, NEW S, NEW f \in [1..n -> S]
  PROVE  f \in Seq(S) /\ Len(f) = n
OBVIOUS

LEMMA FrontIs ==
  ASSUME NEW S, NEW s \in Seq(S), s # <<>>
  PROVE  /\ Len(s) \in Nat \ {0} /\ s[Len(s)] \in S /\ Last(s) = s[Len(s)]
         /\ Front(s) \in Seq(S) /\ Len(Front(s)) = Len(s) - 1
         /\ \A i \in 1..Len(s) - 1 : Front(s)[i] = s[i]
<1>1. Len(s) \in Nat \ {0}
  OBVIOUS
<1>2. Front(s) = SubSeq(s, 1, Len(s) - 1)
  BY DEF Front
<1>3. SubSeq(s, 1, Len(s) - 1) \in Seq(S) /\ Len(SubSeq(s, 1, Len(s) - 1)) = Len(s) - 1
  <2> DEFINE m == Len(s) - 1
             f == [i \in 1..m |-> s[i]]
  <2>1. m \in Nat /\ f \in [1..m -> S]
    BY <1>1
  <2>2. SubSeq(s, 1, m) = f
    BY <1>1
  <2> HIDE DEF m, f
  <2>3. f \in Seq(S) /\ Len(f) = m
    BY <2>1, FunctionIsSeq
  <2>4. QED
    BY <2>2, <2>3 DEF m
<1>4. \A i \in 1..Len(s) - 1 : SubSeq(s, 1, Len(s) - 1)[i] = s[i]
  BY <1>1
<1>5. QED
  BY <1>1, <1>2, <1>3, <1>4 DEF Last

LEMMA CoveredIs ==
  ASSUME NEW s \in Seq(Rng)
  PROVE  \A x : x \in Covered(s) <=> x \in Int /\ \E i \in 1..Len(s) : Holds(s[i], x)
<1>1. DOMAIN s = 1..Len(s) /\ \A i \in 1..Len(s) : s[i] \in Rng
  OBVIOUS
<1>2. \A r \in Rng : \A x : x \in Bytes(r) <=> x \in Int /\ Holds(r, x)
  BY DEF Bytes, Holds, End, Rng
<1>3. QED
  BY <1>1, <1>2 DEF Covered

LEMMA CoveredNone == Covered(<<>>) = {}
BY DEF Covered

LEMMA CoveredOne ==
  ASSUME NEW s \in Seq(Rng), Len(s) = 1
  PROVE  \A x \in Int : x \in Covered(s) <=> Holds(s[1], x)
<1>1. 1..Len(s) = {1}
  OBVIOUS
<1>2. QED
  BY <1>1, CoveredIs

-------------------------------------------------------------------------------
(* mergeRanges *)

(* Numbers can be put in order. *)
Ordering(key, T, o) ==
  /\ o \in [1..Cardinality(T) -> T]
  /\ \A i, j \in 1..Cardinality(T) : i < j => o[i] # o[j] /\ key[o[i]] <= key[o[j]]

LEMMA OrderExists ==
  ASSUME NEW D, IsFiniteSet(D), NEW key \in [D -> Int]
  PROVE  \E o : Ordering(key, D, o)
<1> DEFINE X == {T \in SUBSET D : \A o : ~Ordering(key, T, o)}
<1>1. SUFFICES ASSUME X # {} PROVE FALSE
  OBVIOUS
<1>2. PICK T \in X : \A t \in SUBSET T : t # T => t \notin X
  <2>1. X \in SUBSET SUBSET D
    OBVIOUS
  <2> HIDE DEF X
  <2>2. QED
    BY <1>1, <2>1, LeastSet
<1>3. IsFiniteSet(T) /\ Cardinality(T) \in Nat
  BY FS_Subset, FS_CardinalityType
<1>4. T # {}
  <2>1. Cardinality({}) = 0 /\ 1..0 = {}
    BY FS_EmptySet
  <2>2. Ordering(key, {}, [i \in {} |-> i])
    BY <2>1 DEF Ordering
  <2>3. QED
    BY <1>2, <2>2
<1>5. PICK x \in T : \A y \in T : key[x] >= key[y]
  <2> DEFINE K == {key[y] : y \in T}
  <2>1. IsFiniteSet(K)
    <3>1. [y \in T |-> key[y]] \in Surjection(T, K)
      BY DEF Surjection
    <3> HIDE DEF K
    <3>2. QED
      BY <1>3, <3>1, FS_Surjection
  <2>2. K \in SUBSET Int /\ K # {}
    BY <1>4
  <2>3. Max(K) \in K /\ \A y \in K : Max(K) >= y
    <3> HIDE DEF K
    <3>1. QED
      BY <2>1, <2>2, HasMax
  <2>4. QED
    BY <2>3
<1> DEFINE R == T \ {x}
           c == Cardinality(T)
<1>6. Cardinality(R) = c - 1 /\ c \in Nat \ {0}
  BY <1>3, <1>4, FS_RemoveElement, FS_EmptySet
<1>7. PICK o : Ordering(key, R, o)
  <2>1. R \in SUBSET T /\ R # T /\ R \in SUBSET D
    OBVIOUS
  <2>2. QED
    BY <1>2, <2>1
<1> DEFINE p == [i \in 1..c |-> IF i < c THEN o[i] ELSE x]
<1>8. o \in [1..c - 1 -> R] /\ \A i, j \in 1..c - 1 : i < j => o[i] # o[j] /\ key[o[i]] <= key[o[j]]
  BY <1>6, <1>7 DEF Ordering
<1> HIDE DEF c
<1>9. p \in [1..c -> T]
  BY <1>6, <1>8
<1>10. ASSUME NEW i \in 1..c, NEW j \in 1..c, i < j PROVE p[i] # p[j] /\ key[p[i]] <= key[p[j]]
  <2>1. i \in 1..c - 1 /\ p[i] = o[i] /\ o[i] \in R
    BY <1>6, <1>8, <1>10
  <2>2. CASE j < c
    BY <1>6, <1>8, <1>10, <2>1, <2>2
  <2>3. CASE ~(j < c)
    <3>1. p[j] = x /\ o[i] # x /\ o[i] \in T
      BY <2>1, <2>3
    <3>2. key[o[i]] \in Int /\ key[x] \in Int /\ key[x] >= key[o[i]]
      BY <1>5, <3>1
    <3>3. QED
      BY <2>1, <3>1, <3>2
  <2>4. QED
    BY <2>2, <2>3
<1>11. Ordering(key, T, p)
  <2> HIDE DEF p
  <2>1. QED
    BY <1>9, <1>10 DEF Ordering, c
<1>12. QED
  BY <1>2, <1>11

(* sortByOffset returns the same ranges, in order of their offsets. *)
LEMMA SortedIs ==
  ASSUME NEW s \in Seq(Rng)
  PROVE  LET sorted == sortByOffset(s)
         IN /\ sorted \in Seq(Rng) /\ Len(sorted) = Len(s)
            /\ \A i, j \in 1..Len(s) : i < j => sorted[i].Offset <= sorted[j].Offset
            /\ Covered(sorted) = Covered(s)
<1> DEFINE n == Len(s)
           key == [i \in 1..n |-> s[i].Offset]
           Good(o) == \A i, j \in DOMAIN s :
                        i < j => o[i] # o[j] /\ s[o[i]].Offset <= s[o[j]].Offset
           order == CHOOSE o \in [DOMAIN s -> DOMAIN s] : Good(o)
<1>1. n \in Nat /\ DOMAIN s = 1..n /\ \A i \in 1..n : s[i] \in Rng
  OBVIOUS
<1> HIDE DEF n
<1>2. IsFiniteSet(1..n) /\ Cardinality(1..n) = n
  BY <1>1, FS_Interval
<1>3. key \in [1..n -> Int] /\ \A i \in 1..n : key[i] = s[i].Offset
  BY <1>1 DEF Rng
<1> HIDE DEF key
<1>4. PICK o : Ordering(key, 1..n, o)
  <2> DEFINE D == 1..n
  <2>1. IsFiniteSet(D) /\ key \in [D -> Int]
    BY <1>2, <1>3
  <2> HIDE DEF D
  <2>2. QED
    BY <2>1, OrderExists DEF D
<1>5. o \in [DOMAIN s -> DOMAIN s] /\ Good(o)
  BY <1>1, <1>2, <1>3, <1>4 DEF Ordering
<1>6. order \in [1..n -> 1..n] /\ \A i, j \in 1..n : i < j => order[i] # order[j] /\ s[order[i]].Offset <= s[order[j]].Offset
  BY <1>1, <1>5
<1>7. sortByOffset(s) = [i \in 1..n |-> s[order[i]]]
  BY <1>1 DEF sortByOffset
<1> HIDE DEF order, Good
<1>8. \A y \in 1..n : \E i \in 1..n : order[i] = y
  <2>1. \A i, j \in 1..n : order[i] = order[j] => i = j
    <3> SUFFICES ASSUME NEW i \in 1..n, NEW j \in 1..n, i # j PROVE order[i] # order[j]
      OBVIOUS
    <3>1. i < j \/ j < i
      BY <1>1
    <3>2. QED
      BY <1>6, <3>1
  <2>2. order \in Injection(1..n, 1..n)
    BY <1>6, <2>1 DEF Injection, IsInjective
  <2>3. order \in Surjection(1..n, 1..n)
    <3> DEFINE D == 1..n
    <3> HIDE DEF D
    <3>1. order \in Injection(D, D) /\ IsFiniteSet(D)
      BY <1>2, <2>2 DEF D
    <3>2. order \in Surjection(D, D)
      BY <3>1, FS_Injection
    <3>3. QED
      BY <3>2 DEF D
  <2>4. QED
    BY <2>3 DEF Surjection
<1> DEFINE sorted == sortByOffset(s)
<1>9. sorted \in Seq(Rng) /\ Len(sorted) = n /\ \A i \in 1..n : sorted[i] = s[order[i]]
  <2>1. sorted \in [1..n -> Rng]
    BY <1>1, <1>6, <1>7
  <2> HIDE DEF sorted
  <2>2. sorted \in Seq(Rng) /\ Len(sorted) = n
    BY <1>1, <2>1, FunctionIsSeq
  <2>3. QED
    BY <1>7, <2>2 DEF sorted
<1> HIDE DEF sorted
<1>10. \A x : x \in Covered(sorted) <=> x \in Covered(s)
  <2> SUFFICES ASSUME NEW x \in Int
               PROVE  (\E i \in 1..n : Holds(sorted[i], x)) <=> \E i \in 1..n : Holds(s[i], x)
    BY <1>9, CoveredIs DEF n
  <2>1. ASSUME NEW i \in 1..n, Holds(sorted[i], x) PROVE \E j \in 1..n : Holds(s[j], x)
    BY <1>6, <1>9, <2>1
  <2>2. ASSUME NEW j \in 1..n, Holds(s[j], x) PROVE \E i \in 1..n : Holds(sorted[i], x)
    <3>1. PICK i \in 1..n : order[i] = j
      BY <1>8
    <3>2. QED
      BY <1>9, <2>2, <3>1
  <2>3. QED
    BY <2>1, <2>2
<1>11. QED
  BY <1>6, <1>9, <1>10 DEF sorted, n

(* A fold of ranges is a walk: its value after each element. *)
LEMMA MergeWalk ==
  ASSUME NEW s \in Seq(Rng)
  PROVE  \E h : /\ h[0] = <<>>
                /\ \A k \in 1..Len(s) : h[k] = Absorb(h[k - 1], s[k])
                /\ FoldLeft(Absorb, <<>>, s) = h[Len(s)]
<1> DEFINE n == Len(s)
           V == Seq(Rng)
           step == [p \in (1..n) \X V |-> Absorb(p[2], s[p[1]])]
<1>1. n \in Nat /\ DOMAIN s = 1..n /\ \A i \in 1..n : s[i] \in Rng
  OBVIOUS
<1>2. ASSUME NEW merged \in V, NEW r \in Rng PROVE Absorb(merged, r) \in V
  <2>1. CASE merged = <<>>
    BY <2>1 DEF Absorb
  <2>2. CASE merged # <<>>
    <3> DEFINE last == Last(merged)
    <3>1. last \in Rng /\ Front(merged) \in V
      BY <2>2 DEF Last, Front
    <3>2. End(r) > End(last) /\ ~(r.Offset > End(last)) =>
            Interval(last.Offset, End(r) - last.Offset) \in Rng
      BY <3>1 DEF Interval, End, Rng
    <3> HIDE DEF last
    <3>3. QED
      BY <2>2, <3>1, <3>2 DEF Absorb, last
  <2>3. QED
    BY <2>1, <2>2
<1>3. step \in [(1..n) \X V -> V]
  <2> HIDE DEF V, n
  <2>1. QED
    BY <1>1, <1>2
<1>4. PICK f : /\ FoldsLeft(f, n, V, step, <<>>)
               /\ \A t \in SUBSET (1..n) : t # {} => Max(t) \in 1..n /\ f[t \ {Max(t)}] \in V
  <2>1. Steps(step, n, V) /\ <<>> \in V
    BY <1>3 DEF Steps
  <2> HIDE DEF n, V, step
  <2>2. QED
    BY <1>1, <2>1, FoldExists
<1>5. f = [t \in SUBSET (1..n) |-> IF t = {} THEN <<>> ELSE Absorb(f[t \ {Max(t)}], s[Max(t)])]
  <2>1. ASSUME NEW t \in SUBSET (1..n), t # {}
        PROVE  step[<<Max(t), f[t \ {Max(t)}]>>] = Absorb(f[t \ {Max(t)}], s[Max(t)])
    <3> HIDE DEF V, n
    <3>1. QED
      BY <1>4, <2>1
  <2> HIDE DEF step, n
  <2>2. QED
    BY <1>4, <2>1 DEF FoldsLeft
<1>6. PICK g : /\ g = [t \in SUBSET (1..n) |-> IF t = {} THEN <<>> ELSE Absorb(g[t \ {Max(t)}], s[Max(t)])]
               /\ FoldLeft(Absorb, <<>>, s) = g[1..n]
  <2> HIDE DEF n
  <2>1. QED
    BY <1>1, <1>5 DEF FoldLeft, MapThenFoldSet
<1> HIDE DEF n
<1>7. g[1..0] = <<>>
  BY <1>6
<1>8. ASSUME NEW k \in 1..n PROVE g[1..k] = Absorb(g[1..k - 1], s[k])
  BY <1>1, <1>6, FoldsPrefixes
<1> DEFINE h == [k \in 0..n |-> g[1..k]]
<1>9. \A k \in 1..n : h[k] = g[1..k] /\ h[k - 1] = g[1..k - 1]
  BY <1>1
<1>10. h[0] = g[1..0] /\ h[n] = g[1..n]
  BY <1>1
<1> HIDE DEF h
<1>11. QED
  BY <1>6, <1>7, <1>8, <1>9, <1>10 DEF n

LEMMA AppendIs ==
  ASSUME NEW m \in Seq(Rng), Apart(m), NEW r \in Rng,
         m # <<>> => End(m[Len(m)]) < r.Offset
  PROVE  LET next == Append(m, r)
         IN /\ next \in Seq(Rng) /\ next # <<>> /\ Apart(next) /\ next[Len(next)] = r
            /\ \A x \in Int : x \in Covered(next) <=> x \in Covered(m) \/ Holds(r, x)
<1> DEFINE next == Append(m, r)
           n == Len(m)
<1>1. next \in Seq(Rng) /\ Len(next) = n + 1 /\ n \in Nat
  OBVIOUS
<1>2. next[n + 1] = r /\ \A i \in 1..n : next[i] = m[i] /\ m[i] \in Rng
  OBVIOUS
<1>3. m # <<>> => n > 0
  OBVIOUS
<1>4. m = <<>> => n = 0
  OBVIOUS
<1> HIDE DEF next, n
<1>5. \A i \in 1..n : End(m[i]) < r.Offset
  <2> SUFFICES ASSUME NEW i \in 1..n PROVE End(m[i]) < r.Offset
    OBVIOUS
  <2>1. n \in 1..n /\ m # <<>>
    BY <1>1, <1>4
  <2>2. End(m[n]) < r.Offset
    BY <2>1 DEF n
  <2>3. CASE i # n
    <3>1. i < n
      BY <1>1, <2>3
    <3>2. End(m[i]) < m[n].Offset
      BY <2>1, <3>1 DEF Apart, n
    <3>3. /\ End(m[i]) \in Nat /\ m[n].Offset \in Nat /\ End(m[n]) \in Nat
          /\ m[n].Offset < End(m[n]) /\ r.Offset \in Nat
      BY <1>2, <2>1, RngIs
    <3>4. QED
      BY <2>2, <3>2, <3>3
  <2>4. QED
    BY <2>2, <2>3
<1>6. Apart(next)
  <2> SUFFICES ASSUME NEW i \in 1..n + 1, NEW j \in 1..n + 1, i < j
               PROVE  End(next[i]) < next[j].Offset
    BY <1>1 DEF Apart
  <2>1. i \in 1..n
    BY <1>1
  <2>2. CASE j = n + 1
    BY <1>2, <1>5, <2>1, <2>2
  <2>3. CASE j # n + 1
    <3>1. j \in 1..n
      BY <1>1, <2>3
    <3>2. QED
      BY <1>2, <2>1, <3>1 DEF Apart, n
  <2>4. QED
    BY <2>2, <2>3
<1>7. ASSUME NEW x \in Int
      PROVE  (\E i \in 1..n + 1 : Holds(next[i], x)) <=> (\E i \in 1..n : Holds(m[i], x)) \/ Holds(r, x)
  <2>1. n + 1 \in 1..n + 1 /\ \A i \in 1..n : i \in 1..n + 1
    BY <1>1
  <2>2. \A i \in 1..n + 1 : i = n + 1 \/ i \in 1..n
    BY <1>1
  <2>3. QED
    BY <1>2, <2>1, <2>2
<1>8. \A x \in Int : x \in Covered(next) <=> x \in Covered(m) \/ Holds(r, x)
  BY <1>1, <1>7, CoveredIs DEF n
<1>9. next # <<>> /\ next[Len(next)] = r
  <2>1. Len(next) # 0
    BY <1>1
  <2>2. QED
    BY <1>1, <1>2, <2>1
<1>10. QED
  BY <1>1, <1>6, <1>8, <1>9 DEF next

(* One step of the merge keeps the ranges apart and adds the bytes of the next. *)
LEMMA AbsorbIs ==
  ASSUME NEW m \in Seq(Rng), Apart(m), NEW r \in Rng,
         m # <<>> => m[Len(m)].Offset <= r.Offset
  PROVE  LET next == Absorb(m, r)
         IN /\ next \in Seq(Rng) /\ next # <<>> /\ Apart(next)
            /\ next[Len(next)].Offset <= r.Offset
            /\ \A x \in Int : x \in Covered(next) <=> x \in Covered(m) \/ Holds(r, x)
<1> DEFINE next == Absorb(m, r)
<1>1. CASE m = <<>>
  <2>1. next = Append(m, r)
    BY <1>1 DEF Absorb
  <2>2. r.Offset <= r.Offset
    BY RngIs
  <2>3. m # <<>> => End(m[Len(m)]) < r.Offset
    BY <1>1
  <2>4. QED
    BY <2>1, <2>2, <2>3, AppendIs
<1>2. CASE m # <<>>
  <2> DEFINE n == Len(m)
             last == m[n]
  <2>1. n \in Nat \ {0} /\ last \in Rng /\ \A i \in 1..n : m[i] \in Rng
    BY <1>2
  <2>2. Last(m) = last /\ last.Offset <= r.Offset
    BY <1>2 DEF Last
  <2> HIDE DEF n
  <2>3. \A i \in 1..n - 1 : End(m[i]) < last.Offset
    BY <2>1 DEF Apart, n
  <2>4. /\ last.Offset \in Nat /\ last.Length \in Nat \ {0} /\ End(last) = last.Offset + last.Length
        /\ r.Offset \in Nat /\ r.Length \in Nat \ {0} /\ End(r) = r.Offset + r.Length
        /\ \A i \in 1..n : m[i].Offset \in Nat /\ End(m[i]) \in Nat /\ m[i].Offset < End(m[i])
    <3>1. ASSUME NEW q \in Rng
          PROVE  /\ q.Offset \in Nat /\ q.Length \in Nat \ {0} /\ End(q) = q.Offset + q.Length
                 /\ End(q) \in Nat /\ q.Offset < End(q)
      BY RngIs
    <3> HIDE DEF last
    <3>2. QED
      BY <2>1, <3>1
  <2>5. CASE r.Offset > End(last)
    <3>1. next = Append(m, r)
      BY <1>2, <2>2, <2>5 DEF Absorb
    <3>2. m # <<>> => End(m[Len(m)]) < r.Offset
      BY <2>4, <2>5 DEF n
    <3>3. r.Offset <= r.Offset
      BY <2>4
    <3>4. QED
      BY <3>1, <3>2, <3>3, AppendIs
  <2>6. CASE ~(r.Offset > End(last)) /\ End(r) > End(last)
    <3> DEFINE joined == Interval(last.Offset, End(r) - last.Offset)
    <3>1. /\ joined \in Rng /\ joined.Offset = last.Offset /\ End(joined) = End(r)
      BY <2>4, <2>6, IntervalIs, Z3
    <3>2. next = Append(Front(m), joined)
      BY <1>2, <2>2, <2>6 DEF Absorb
    <3> HIDE DEF joined
    <3>3. Front(m) \in Seq(Rng) /\ Len(Front(m)) = n - 1 /\ \A i \in 1..n - 1 : Front(m)[i] = m[i]
      BY <1>2, FrontIs DEF n
    <3>4. next \in Seq(Rng) /\ Len(next) = n /\ next[n] = joined /\ \A i \in 1..n - 1 : next[i] = m[i]
      BY <2>1, <3>1, <3>2, <3>3
    <3> HIDE DEF next
    <3>5. Apart(next)
      <4> SUFFICES ASSUME NEW i \in 1..n, NEW j \in 1..n, i < j
                   PROVE  End(next[i]) < next[j].Offset
        BY <3>4 DEF Apart
      <4>1. i \in 1..n - 1 /\ next[i] = m[i]
        BY <2>1, <3>4
      <4>2. CASE j = n
        BY <2>3, <3>1, <3>4, <4>1, <4>2
      <4>3. CASE j # n
        <5>1. j \in 1..n - 1 /\ next[j] = m[j]
          BY <2>1, <3>4, <4>3
        <5>2. End(m[i]) < m[j].Offset
          BY <2>1, <4>1, <5>1 DEF Apart, n
        <5>3. QED
          BY <4>1, <5>1, <5>2
      <4>4. QED
        BY <4>2, <4>3
    <3>6. \A x \in Int : Holds(joined, x) <=> Holds(last, x) \/ Holds(r, x)
      BY <2>2, <2>4, <2>6, <3>1 DEF Holds
    <3>7. ASSUME NEW x \in Int
          PROVE  (\E i \in 1..n : Holds(next[i], x)) <=> (\E i \in 1..n : Holds(m[i], x)) \/ Holds(r, x)
      <4>1. n \in 1..n /\ \A i \in 1..n - 1 : i \in 1..n
        BY <2>1
      <4>2. \A i \in 1..n : i = n \/ i \in 1..n - 1
        BY <2>1
      <4>3. QED
        BY <3>4, <3>6, <4>1, <4>2
    <3>8. \A x \in Int : x \in Covered(next) <=> x \in Covered(m) \/ Holds(r, x)
      BY <3>4, <3>7, CoveredIs DEF n
    <3>9. next # <<>> /\ next[Len(next)].Offset <= r.Offset
      BY <2>1, <2>2, <3>1, <3>4
    <3>10. QED
      BY <3>4, <3>5, <3>8, <3>9 DEF next
  <2>7. CASE ~(r.Offset > End(last)) /\ ~(End(r) > End(last))
    <3>1. next = m
      BY <1>2, <2>2, <2>7 DEF Absorb
    <3>2. \A x \in Int : Holds(r, x) => Holds(last, x)
      BY <2>2, <2>4, <2>7 DEF Holds
    <3>3. n \in 1..n
      BY <2>1
    <3>4. \A x \in Int : x \in Covered(m) <=> x \in Covered(m) \/ Holds(r, x)
      BY <3>2, <3>3, CoveredIs DEF n
    <3>5. QED
      BY <1>2, <2>2, <3>1, <3>4 DEF n
  <2>8. QED
    BY <2>5, <2>6, <2>7
<1>3. QED
  BY <1>1, <1>2

(* After k ranges. *)
MergedOf(s, k, m) ==
  /\ m \in Seq(Rng) /\ Apart(m)
  /\ k > 0 => m # <<>> /\ m[Len(m)].Offset <= s[k].Offset
  /\ k = 0 => m = <<>>
  /\ \A x \in Int : x \in Covered(m) <=> \E i \in 1..k : Holds(s[i], x)

(* mergeRanges returns ranges that are in order and apart, and hold the same bytes. *)
LEMMA MergeIs ==
  ASSUME NEW s \in Seq(Rng)
  PROVE  /\ mergeRanges(s) \in Seq(Rng) /\ Apart(mergeRanges(s))
         /\ Covered(mergeRanges(s)) = Covered(s)
<1> DEFINE sorted == sortByOffset(s)
           n == Len(s)
<1>1. /\ sorted \in Seq(Rng) /\ Len(sorted) = n
      /\ \A i, j \in 1..n : i < j => sorted[i].Offset <= sorted[j].Offset
      /\ Covered(sorted) = Covered(s)
  BY SortedIs
<1> HIDE DEF sorted, n
<1>2. n \in Nat /\ \A i \in 1..n : sorted[i] \in Rng
  BY <1>1
<1>3. PICK h : /\ h[0] = <<>>
               /\ \A k \in 1..n : h[k] = Absorb(h[k - 1], sorted[k])
               /\ FoldLeft(Absorb, <<>>, sorted) = h[n]
  BY <1>1, MergeWalk
<1> DEFINE X == {k \in 0..n : ~MergedOf(sorted, k, h[k])}
<1>4. ASSUME X # {} PROVE FALSE
  <2>1. PICK k \in X : \A j \in X : k <= j
    <3>1. X \in SUBSET Nat
      BY <1>2
    <3> HIDE DEF X
    <3>2. QED
      BY <1>4, <3>1, LeastNumber
  <2>2. k # 0
    <3>1. <<>> \in Seq(Rng) /\ Len(<<>>) = 0 /\ Apart(<<>>)
      BY DEF Apart
    <3>2. \A x \in Int : x \notin Covered(<<>>)
      BY CoveredNone
    <3>3. MergedOf(sorted, 0, <<>>)
      BY <3>1, <3>2 DEF MergedOf
    <3>4. QED
      BY <1>3, <3>3
  <2>3. k \in 1..n /\ k - 1 \in 0..n /\ k \in Nat /\ k - 1 \in Nat
    BY <1>2, <2>2
  <2>4. MergedOf(sorted, k - 1, h[k - 1])
    <3>1. ~(k <= k - 1)
      BY <2>3
    <3>2. k - 1 \notin X
      <4> HIDE DEF X
      <4>1. QED
        BY <2>1, <3>1
    <3>3. QED
      BY <2>3, <3>2
  <2>5. /\ h[k - 1] \in Seq(Rng) /\ Apart(h[k - 1]) /\ sorted[k] \in Rng
        /\ h[k - 1] # <<>> => h[k - 1][Len(h[k - 1])].Offset <= sorted[k].Offset
    <3>1. ASSUME h[k - 1] # <<>> PROVE h[k - 1][Len(h[k - 1])].Offset <= sorted[k].Offset
      <4>1. k - 1 > 0 /\ k - 1 \in 1..n /\ k - 1 < k
        BY <2>3, <2>4, <3>1 DEF MergedOf
      <4>2. h[k - 1][Len(h[k - 1])].Offset <= sorted[k - 1].Offset
        BY <2>4, <4>1 DEF MergedOf
      <4>3. sorted[k - 1].Offset <= sorted[k].Offset
        BY <1>1, <2>3, <4>1
      <4>4. h[k - 1][Len(h[k - 1])] \in Rng /\ sorted[k - 1] \in Rng /\ sorted[k] \in Rng
        BY <1>2, <2>3, <2>4, <3>1, <4>1 DEF MergedOf
      <4>5. QED
        BY <4>2, <4>3, <4>4 DEF Rng
    <3>2. QED
      BY <1>2, <2>3, <2>4, <3>1 DEF MergedOf
  <2>6. h[k] = Absorb(h[k - 1], sorted[k])
    BY <1>3, <2>3
  <2>7. /\ h[k] \in Seq(Rng) /\ h[k] # <<>> /\ Apart(h[k]) /\ h[k][Len(h[k])].Offset <= sorted[k].Offset
        /\ \A x \in Int : x \in Covered(h[k]) <=> x \in Covered(h[k - 1]) \/ Holds(sorted[k], x)
    <3> DEFINE m == h[k - 1]
               r == sorted[k]
    <3> HIDE DEF m, r
    <3>1. m \in Seq(Rng) /\ Apart(m) /\ r \in Rng /\ (m # <<>> => m[Len(m)].Offset <= r.Offset)
      BY <2>5 DEF m, r
    <3>2. h[k] = Absorb(m, r)
      BY <2>6 DEF m, r
    <3>3. /\ h[k] \in Seq(Rng) /\ h[k] # <<>> /\ Apart(h[k]) /\ h[k][Len(h[k])].Offset <= r.Offset
          /\ \A x \in Int : x \in Covered(h[k]) <=> x \in Covered(m) \/ Holds(r, x)
      BY <3>1, <3>2, AbsorbIs
    <3>4. QED
      BY <3>3 DEF m, r
  <2>8. ASSUME NEW x \in Int
        PROVE  x \in Covered(h[k]) <=> \E i \in 1..k : Holds(sorted[i], x)
    <3>1. \A i : i \in 1..k <=> i \in 1..k - 1 \/ i = k
      BY <2>3
    <3>2. x \in Covered(h[k - 1]) <=> \E i \in 1..k - 1 : Holds(sorted[i], x)
      BY <2>4 DEF MergedOf
    <3>3. QED
      BY <2>7, <3>1, <3>2
  <2>9. MergedOf(sorted, k, h[k])
    BY <2>2, <2>7, <2>8 DEF MergedOf
  <2>10. QED
    BY <2>1, <2>9
<1>5. MergedOf(sorted, n, h[n]) /\ mergeRanges(s) = h[n]
  BY <1>2, <1>3, <1>4 DEF mergeRanges, sorted
<1>6. \A x : x \in Covered(h[n]) <=> x \in Covered(sorted)
  BY <1>1, <1>5, CoveredIs DEF MergedOf
<1> DEFINE m == h[n]
<1> HIDE DEF m
<1>7. \A x : x \in Covered(m) <=> x \in Covered(sorted)
  BY <1>6 DEF m
<1>8. Covered(m) = Covered(sorted)
  BY <1>7
<1>9. mergeRanges(s) = m /\ m \in Seq(Rng) /\ Apart(m)
  BY <1>5 DEF MergedOf, m
<1>10. QED
  BY <1>1, <1>8, <1>9

-------------------------------------------------------------------------------
(* findGaps *)

NoGaps == [pos |-> 0, gaps |-> <<>>]

LEMMA SkipWalk ==
  ASSUME NEW s \in Seq(Rng)
  PROVE  \E h : /\ h[0] = NoGaps
                /\ \A k \in 1..Len(s) : h[k] = Skip(h[k - 1], s[k])
                /\ FoldLeft(Skip, NoGaps, s) = h[Len(s)]
<1> DEFINE n == Len(s)
           V == [pos : Nat, gaps : Seq(Rng)]
           step == [p \in (1..n) \X V |-> Skip(p[2], s[p[1]])]
<1>1. n \in Nat /\ DOMAIN s = 1..n /\ \A i \in 1..n : s[i] \in Rng
  OBVIOUS
<1>2. ASSUME NEW walk \in V, NEW r \in Rng PROVE Skip(walk, r) \in V
  <2>1. r.Offset \in Nat /\ End(r) \in Nat /\ walk.pos \in Nat /\ walk.gaps \in Seq(Rng)
    BY RngIs
  <2>2. r.Offset > walk.pos => Interval(walk.pos, r.Offset - walk.pos) \in Rng
    BY <2>1, IntervalIs
  <2>3. r.Offset > walk.pos => Append(walk.gaps, Interval(walk.pos, r.Offset - walk.pos)) \in Seq(Rng)
    BY <2>1, <2>2
  <2>4. QED
    BY <2>1, <2>3 DEF Skip
<1>3. step \in [(1..n) \X V -> V]
  <2> HIDE DEF V, n
  <2>1. QED
    BY <1>1, <1>2
<1>4. PICK f : /\ FoldsLeft(f, n, V, step, NoGaps)
               /\ \A t \in SUBSET (1..n) : t # {} => Max(t) \in 1..n /\ f[t \ {Max(t)}] \in V
  <2>1. Steps(step, n, V) /\ NoGaps \in V
    BY <1>3 DEF Steps, NoGaps
  <2> HIDE DEF n, V, step
  <2>2. QED
    BY <1>1, <2>1, FoldExists
<1>5. f = [t \in SUBSET (1..n) |-> IF t = {} THEN NoGaps ELSE Skip(f[t \ {Max(t)}], s[Max(t)])]
  <2>1. ASSUME NEW t \in SUBSET (1..n), t # {}
        PROVE  step[<<Max(t), f[t \ {Max(t)}]>>] = Skip(f[t \ {Max(t)}], s[Max(t)])
    <3> HIDE DEF V, n
    <3>1. QED
      BY <1>4, <2>1
  <2> HIDE DEF step, n
  <2>2. QED
    BY <1>4, <2>1 DEF FoldsLeft
<1>6. PICK g : /\ g = [t \in SUBSET (1..n) |-> IF t = {} THEN NoGaps ELSE Skip(g[t \ {Max(t)}], s[Max(t)])]
               /\ FoldLeft(Skip, NoGaps, s) = g[1..n]
  <2> HIDE DEF n
  <2>1. QED
    BY <1>1, <1>5 DEF FoldLeft, MapThenFoldSet
<1> HIDE DEF n
<1>7. g[1..0] = NoGaps
  BY <1>6
<1>8. ASSUME NEW k \in 1..n PROVE g[1..k] = Skip(g[1..k - 1], s[k])
  BY <1>1, <1>6, FoldsPrefixes
<1> DEFINE h == [k \in 0..n |-> g[1..k]]
<1>9. \A k \in 1..n : h[k] = g[1..k] /\ h[k - 1] = g[1..k - 1]
  BY <1>1
<1>10. h[0] = g[1..0] /\ h[n] = g[1..n]
  BY <1>1
<1> HIDE DEF h
<1>11. QED
  BY <1>6, <1>7, <1>8, <1>9, <1>10 DEF n

(* The bytes below pos that the first k ranges do not hold, where pos is the end of the *)
(* last of them.                                                                        *)
GapsOf(m, k, pos, found) ==
  /\ found \in Seq(Rng) /\ Apart(found)
  /\ pos \in Nat /\ pos = IF k = 0 THEN 0 ELSE End(m[k])
  /\ found # <<>> => End(found[Len(found)]) < pos
  /\ \A x \in Int : x \in Covered(found) <=>
       0 <= x /\ x < pos /\ ~\E i \in 1..k : Holds(m[i], x)

LEMMA SkipIs ==
  ASSUME NEW m \in Seq(Rng), Apart(m), NEW k \in 1..Len(m), NEW pos, NEW found,
         GapsOf(m, k - 1, pos, found), NEW walk, walk.pos = pos, walk.gaps = found
  PROVE  LET next == Skip(walk, m[k]) IN GapsOf(m, k, next.pos, next.gaps)
<1> DEFINE next == Skip(walk, m[k])
           r == m[k]
<1>1. k \in Nat \ {0} /\ r \in Rng /\ \A i \in 1..k : m[i] \in Rng /\ i \in DOMAIN m
  OBVIOUS
<1>2. r.Offset \in Nat /\ End(r) \in Nat /\ r.Offset < End(r) /\ pos \in Nat
  BY <1>1, RngIs DEF GapsOf
<1> HIDE DEF r
<1>3. \A i \in 1..k - 1 : End(m[i]) <= pos
  <2> SUFFICES ASSUME NEW i \in 1..k - 1 PROVE End(m[i]) <= pos
    OBVIOUS
  <2>1. k - 1 # 0 /\ k - 1 \in 1..k /\ i \in 1..k
    BY <1>1
  <2>2. pos = End(m[k - 1])
    BY <2>1 DEF GapsOf
  <2>3. CASE i = k - 1
    BY <1>2, <2>2, <2>3
  <2>4. CASE i # k - 1
    <3>1. End(m[i]) < m[k - 1].Offset
      BY <1>1, <2>1, <2>4 DEF Apart
    <3>2. End(m[i]) \in Nat /\ m[k - 1].Offset \in Nat /\ m[k - 1].Offset < End(m[k - 1])
      BY <1>1, <2>1, RngIs
    <3>3. QED
      BY <1>2, <2>2, <3>1, <3>2
  <2>5. QED
    BY <2>3, <2>4
<1>4. pos <= r.Offset /\ (k - 1 # 0 => pos < r.Offset)
  <2>1. CASE k - 1 = 0
    BY <1>2, <2>1 DEF GapsOf
  <2>2. CASE k - 1 # 0
    <3>1. k - 1 \in 1..k /\ k \in 1..k /\ k - 1 < k
      BY <1>1, <2>2
    <3>2. pos = End(m[k - 1]) /\ End(m[k - 1]) < m[k].Offset
      BY <1>1, <2>2, <3>1 DEF GapsOf, Apart
    <3>3. QED
      BY <1>2, <3>2 DEF r
  <2>3. QED
    BY <2>1, <2>2
<1>5. next.pos = End(r)
  BY <1>2, <1>4 DEF Skip, r
<1>6. next.gaps = IF r.Offset > pos THEN Append(found, Interval(pos, r.Offset - pos)) ELSE found
  BY DEF Skip, r
<1> HIDE DEF next
<1>7. ASSUME NEW x \in Int
      PROVE  (0 <= x /\ x < End(r) /\ ~\E i \in 1..k : Holds(m[i], x)) <=>
               \/ 0 <= x /\ x < pos /\ ~\E i \in 1..k - 1 : Holds(m[i], x)
               \/ pos <= x /\ x < r.Offset
  <2>1. \A i : i \in 1..k <=> i \in 1..k - 1 \/ i = k
    BY <1>1
  <2>2. Holds(m[k], x) <=> r.Offset <= x /\ x < End(r)
    BY DEF Holds, r
  <2>3. pos <= x => ~\E i \in 1..k - 1 : Holds(m[i], x)
    <3> SUFFICES ASSUME pos <= x, NEW i \in 1..k - 1, Holds(m[i], x) PROVE FALSE
      OBVIOUS
    <3>1. m[i] \in Rng /\ End(m[i]) <= pos
      BY <1>1, <1>3, <2>1
    <3>2. End(m[i]) \in Nat /\ x < End(m[i])
      BY <3>1, RngIs
    <3>3. QED
      BY <1>2, <3>1, <3>2
  <2> DEFINE A == \E i \in 1..k - 1 : Holds(m[i], x)
             B == \E i \in 1..k : Holds(m[i], x)
  <2>4. B <=> A \/ (r.Offset <= x /\ x < End(r))
    BY <2>1, <2>2
  <2> HIDE DEF A, B
  <2>5. pos <= x => ~A
    BY <2>3 DEF A
  <2>6. (0 <= x /\ x < End(r) /\ ~B) <=> (0 <= x /\ x < pos /\ ~A) \/ (pos <= x /\ x < r.Offset)
    BY <1>2, <1>4, <2>4, <2>5
  <2>7. QED
    BY <2>6 DEF A, B
<1>8. /\ next.gaps \in Seq(Rng) /\ Apart(next.gaps)
      /\ next.gaps # <<>> => End(next.gaps[Len(next.gaps)]) < End(r)
      /\ \A x \in Int : x \in Covered(next.gaps) <=> x \in Covered(found) \/ (pos <= x /\ x < r.Offset)
  <2>1. CASE r.Offset > pos
    <3> DEFINE new == Interval(pos, r.Offset - pos)
    <3>1. new \in Rng /\ new.Offset = pos /\ End(new) = r.Offset
      BY <1>2, <2>1, IntervalIs
    <3> HIDE DEF new
    <3>2. found \in Seq(Rng) /\ Apart(found) /\ (found # <<>> => End(found[Len(found)]) < new.Offset)
      BY <3>1 DEF GapsOf
    <3>3. next.gaps = Append(found, new)
      BY <1>6, <2>1 DEF new
    <3>4. \A x \in Int : Holds(new, x) <=> pos <= x /\ x < r.Offset
      BY <3>1 DEF Holds
    <3>5. /\ next.gaps \in Seq(Rng) /\ Apart(next.gaps) /\ next.gaps[Len(next.gaps)] = new
          /\ \A x \in Int : x \in Covered(next.gaps) <=> x \in Covered(found) \/ Holds(new, x)
      BY <3>1, <3>2, <3>3, AppendIs
    <3>6. QED
      BY <1>2, <3>1, <3>4, <3>5
  <2>2. CASE ~(r.Offset > pos)
    <3>1. next.gaps = found /\ pos < End(r)
      BY <1>2, <1>4, <1>6, <2>2
    <3>2. \A x \in Int : ~(pos <= x /\ x < r.Offset)
      BY <1>2, <2>2
    <3>3. found # <<>> => End(found[Len(found)]) < End(r)
      <4> SUFFICES ASSUME found # <<>> PROVE End(found[Len(found)]) < End(r)
        OBVIOUS
      <4>1. found[Len(found)] \in Rng /\ End(found[Len(found)]) < pos
        BY DEF GapsOf
      <4>2. End(found[Len(found)]) \in Nat
        BY <4>1, RngIs
      <4>3. QED
        BY <1>2, <3>1, <4>1, <4>2
    <3>4. QED
      BY <3>1, <3>2, <3>3 DEF GapsOf
  <2>3. QED
    BY <2>1, <2>2
<1>9. \A x \in Int : x \in Covered(next.gaps) <=>
        0 <= x /\ x < next.pos /\ ~\E i \in 1..k : Holds(m[i], x)
  BY <1>5, <1>7, <1>8 DEF GapsOf
<1>10. next.pos = IF k = 0 THEN 0 ELSE End(m[k])
  BY <1>1, <1>5 DEF r
<1>11. GapsOf(m, k, next.pos, next.gaps)
  BY <1>2, <1>5, <1>8, <1>9, <1>10 DEF GapsOf
<1>12. QED
  BY <1>11 DEF next

LEMMA WalkedGaps ==
  ASSUME NEW m \in Seq(Rng), Apart(m)
  PROVE  GapsOf(m, Len(m), FoldLeft(Skip, NoGaps, m).pos, FoldLeft(Skip, NoGaps, m).gaps)
<1> DEFINE n == Len(m)
<1>1. n \in Nat
  OBVIOUS
<1>2. PICK h : /\ h[0] = NoGaps
               /\ \A k \in 1..n : h[k] = Skip(h[k - 1], m[k])
               /\ FoldLeft(Skip, NoGaps, m) = h[n]
  BY SkipWalk
<1> HIDE DEF n
<1> DEFINE Done(k) == GapsOf(m, k, h[k].pos, h[k].gaps)
           X == {k \in 0..n : ~Done(k)}
<1>3. ASSUME X # {} PROVE FALSE
  <2>1. PICK k \in X : \A j \in X : k <= j
    <3>1. X \in SUBSET Nat
      BY <1>1
    <3> HIDE DEF X
    <3>2. QED
      BY <1>3, <3>1, LeastNumber
  <2>2. k # 0
    <3>1. <<>> \in Seq(Rng) /\ Apart(<<>>)
      BY DEF Apart
    <3>2. \A x \in Int : x \notin Covered(<<>>) /\ ~(0 <= x /\ x < 0)
      BY CoveredNone
    <3>3. GapsOf(m, 0, 0, <<>>)
      BY <3>1, <3>2 DEF GapsOf
    <3>4. QED
      BY <1>2, <3>3 DEF NoGaps
  <2>3. k \in 1..n /\ k - 1 \in 0..n
    BY <1>1, <2>2
  <2>4. Done(k - 1)
    <3>1. ~(k <= k - 1)
      BY <2>3
    <3>2. k - 1 \notin X
      <4> HIDE DEF X
      <4>1. QED
        BY <2>1, <3>1
    <3>3. QED
      BY <2>3, <3>2
  <2>5. GapsOf(m, k, Skip(h[k - 1], m[k]).pos, Skip(h[k - 1], m[k]).gaps)
    <3> DEFINE walk == h[k - 1]
    <3>1. GapsOf(m, k - 1, walk.pos, walk.gaps)
      BY <2>4
    <3> HIDE DEF walk
    <3>2. GapsOf(m, k, Skip(walk, m[k]).pos, Skip(walk, m[k]).gaps)
      BY <2>3, <3>1, SkipIs DEF n
    <3>3. QED
      BY <3>2 DEF walk
  <2>6. Done(k)
    BY <1>2, <2>3, <2>5
  <2>7. QED
    BY <2>1, <2>6
<1>4. Done(n)
  BY <1>1, <1>3
<1>5. QED
  BY <1>2, <1>4 DEF n

(* findGaps returns what is missing below the size; what it returns above the size lies *)
(* between ranges.                                                                      *)
LEMMA GapsIs ==
  ASSUME NEW s \in Seq(Rng), NEW total \in Nat \ {0}
  PROVE  LET all == findGaps(s, total)
         IN /\ all \in Seq(Rng) /\ Apart(all)
            /\ \A x \in Int : x \in Covered(all) => 0 <= x /\ x \notin Covered(s)
            /\ \A x \in Int : 0 <= x /\ x < total /\ x \notin Covered(s) => x \in Covered(all)
            /\ \A x \in Int : x \in Covered(all) => x < total \/ \E y \in Covered(s) : x < y
<1> DEFINE m == mergeRanges(s)
           n == Len(m)
           walk == FoldLeft(Skip, NoGaps, m)
           pos == walk.pos
           found == walk.gaps
           all == findGaps(s, total)
<1>1. m \in Seq(Rng) /\ Apart(m) /\ Covered(m) = Covered(s)
  BY MergeIs
<1>2. all = IF pos < total THEN Append(found, Interval(pos, total - pos)) ELSE found
  BY DEF findGaps, NoGaps
<1> HIDE DEF m, all
<1>3. GapsOf(m, n, pos, found)
  BY <1>1, WalkedGaps
<1> HIDE DEF walk, pos, found
<1>4. n \in Nat /\ \A i \in 1..n : m[i] \in Rng /\ i \in DOMAIN m
  BY <1>1
<1> HIDE DEF n
<1>5. \A x \in Int : x \in Covered(s) <=> \E i \in 1..n : Holds(m[i], x)
  BY <1>1, CoveredIs DEF n
<1>6. ASSUME NEW x \in Int, x \in Covered(s) PROVE 0 <= x /\ x < pos
  <2>1. PICK i \in 1..n : Holds(m[i], x)
    BY <1>5, <1>6
  <2>2. m[i] \in Rng /\ m[n] \in Rng /\ n # 0
    BY <1>4
  <2>3. /\ m[i].Offset \in Nat /\ End(m[i]) \in Nat /\ m[i].Offset <= x /\ x < End(m[i])
        /\ m[n].Offset \in Nat /\ End(m[n]) \in Nat /\ m[n].Offset < End(m[n])
    BY <2>1, <2>2, RngIs
  <2>4. pos = End(m[n])
    BY <1>3, <2>2 DEF GapsOf
  <2>5. End(m[i]) <= End(m[n])
    <3>1. CASE i = n
      BY <2>3, <3>1
    <3>2. CASE i # n
      <4>1. End(m[i]) < m[n].Offset
        BY <1>1, <1>4, <3>2 DEF Apart
      <4>2. QED
        BY <2>3, <4>1
    <3>3. QED
      BY <3>1, <3>2
  <2>6. QED
    BY <2>3, <2>4, <2>5
<1>7. /\ pos \in Nat /\ found \in Seq(Rng) /\ Apart(found)
      /\ found # <<>> => End(found[Len(found)]) < pos
      /\ \A x \in Int : x \in Covered(found) <=> 0 <= x /\ x < pos /\ x \notin Covered(s)
  BY <1>3, <1>5 DEF GapsOf
<1>8. CASE pos < total
  <2> DEFINE new == Interval(pos, total - pos)
  <2>1. new \in Rng /\ new.Offset = pos /\ End(new) = total
    BY <1>7, <1>8, IntervalIs
  <2> HIDE DEF new
  <2>2. all = Append(found, new)
    BY <1>2, <1>8 DEF new
  <2>3. found # <<>> => End(found[Len(found)]) < new.Offset
    BY <1>7, <2>1
  <2>4. /\ all \in Seq(Rng) /\ Apart(all)
        /\ \A x \in Int : x \in Covered(all) <=> x \in Covered(found) \/ Holds(new, x)
    BY <1>7, <2>1, <2>2, <2>3, AppendIs
  <2>5. \A x \in Int : Holds(new, x) <=> pos <= x /\ x < total
    BY <2>1 DEF Holds
  <2>6. \A x \in Int : pos <= x => x \notin Covered(s)
    BY <1>6, <1>7
  <2>7. \A x \in Int : x \in Covered(all) <=> 0 <= x /\ x < total /\ x \notin Covered(s)
    BY <1>7, <1>8, <2>4, <2>5, <2>6
  <2>8. QED
    BY <2>4, <2>7 DEF all
<1>9. CASE ~(pos < total)
  <2>1. all = found
    BY <1>2, <1>9
  <2>2. ASSUME NEW x \in Int, x \in Covered(all) PROVE \E y \in Covered(s) : x < y
    <3>1. 0 <= x /\ x < pos /\ x \notin Covered(s)
      BY <1>7, <2>1, <2>2
    <3>2. n # 0
      BY <1>3, <3>1 DEF GapsOf
    <3>3. pos = End(m[n]) /\ n \in 1..n /\ m[n] \in Rng
      BY <1>3, <1>4, <3>2 DEF GapsOf
    <3>4. Holds(m[n], pos - 1)
      BY <1>7, <3>3, RngIs
    <3>5. pos - 1 \in Covered(s)
      BY <1>5, <1>7, <3>3, <3>4
    <3>6. x < pos - 1
      <4>1. x # pos - 1
        BY <3>1, <3>5
      <4>2. QED
        BY <1>7, <3>1, <4>1
    <3>7. QED
      BY <3>5, <3>6
  <2>3. \A x \in Int : 0 <= x /\ x < total => x < pos
    BY <1>7, <1>9
  <2>4. QED
    BY <1>7, <2>1, <2>2, <2>3 DEF all
<1>10. QED
  BY <1>8, <1>9

(* If nothing is missing, nothing is found. *)
LEMMA NoneIs ==
  ASSUME NEW s \in Seq(Rng), \A x \in Int : x \notin Covered(s)
  PROVE  s = <<>>
<1>1. SUFFICES ASSUME s # <<>> PROVE FALSE
  OBVIOUS
<1>2. s[1] \in Rng /\ 1 \in 1..Len(s)
  BY <1>1
<1>3. Holds(s[1], s[1].Offset) /\ s[1].Offset \in Int
  BY <1>2, RngIs
<1>4. s[1].Offset \in Covered(s)
  BY <1>2, <1>3, CoveredIs
<1>5. QED
  BY <1>3, <1>4

-------------------------------------------------------------------------------
(* findGapsInRange *)

ClipAll(s, offset, end) ==
  FoldLeft(LAMBDA result, gap : Clip(result, gap, offset, end), <<>>, s)

LEMMA ClipWalk ==
  ASSUME NEW s \in Seq(Rng), NEW offset \in Nat, NEW end \in Nat
  PROVE  \E h : /\ h[0] = <<>>
                /\ \A k \in 1..Len(s) : h[k] = Clip(h[k - 1], s[k], offset, end)
                /\ ClipAll(s, offset, end) = h[Len(s)]
<1> DEFINE n == Len(s)
           V == Seq(Rng)
           step == [p \in (1..n) \X V |-> Clip(p[2], s[p[1]], offset, end)]
<1>1. n \in Nat /\ DOMAIN s = 1..n /\ \A i \in 1..n : s[i] \in Rng
  OBVIOUS
<1>2. ASSUME NEW result \in V, NEW gap \in Rng PROVE Clip(result, gap, offset, end) \in V
  <2> DEFINE start == IF gap.Offset < offset THEN offset ELSE gap.Offset
             stop == IF End(gap) > end THEN end ELSE End(gap)
  <2>1. start \in Nat /\ stop \in Nat
    BY RngIs
  <2>2. Clip(result, gap, offset, end) =
          IF stop > start THEN Append(result, Interval(start, stop - start)) ELSE result
    BY DEF Clip
  <2> HIDE DEF start, stop
  <2>3. stop > start => Interval(start, stop - start) \in Rng
    BY <2>1, IntervalIs
  <2>4. QED
    BY <2>2, <2>3
<1>3. step \in [(1..n) \X V -> V]
  <2> HIDE DEF V, n
  <2>1. QED
    BY <1>1, <1>2
<1>4. PICK f : /\ FoldsLeft(f, n, V, step, <<>>)
               /\ \A t \in SUBSET (1..n) : t # {} => Max(t) \in 1..n /\ f[t \ {Max(t)}] \in V
  <2>1. Steps(step, n, V) /\ <<>> \in V
    BY <1>3 DEF Steps
  <2> HIDE DEF n, V, step
  <2>2. QED
    BY <1>1, <2>1, FoldExists
<1>5. f = [t \in SUBSET (1..n) |->
             IF t = {} THEN <<>> ELSE Clip(f[t \ {Max(t)}], s[Max(t)], offset, end)]
  <2>1. ASSUME NEW t \in SUBSET (1..n), t # {}
        PROVE  step[<<Max(t), f[t \ {Max(t)}]>>] = Clip(f[t \ {Max(t)}], s[Max(t)], offset, end)
    <3> HIDE DEF V, n
    <3>1. QED
      BY <1>4, <2>1
  <2> HIDE DEF step, n
  <2>2. QED
    BY <1>4, <2>1 DEF FoldsLeft
<1>6. PICK g : /\ g = [t \in SUBSET (1..n) |->
                         IF t = {} THEN <<>> ELSE Clip(g[t \ {Max(t)}], s[Max(t)], offset, end)]
               /\ ClipAll(s, offset, end) = g[1..n]
  <2> HIDE DEF n
  <2>1. QED
    BY <1>1, <1>5 DEF ClipAll, FoldLeft, MapThenFoldSet
<1> HIDE DEF n
<1>7. g[1..0] = <<>>
  <2>1. 1..0 = {} /\ {} \in SUBSET (1..n)
    OBVIOUS
  <2>2. g[{}] = <<>>
    BY <1>6, <2>1
  <2>3. QED
    BY <2>1, <2>2
<1>8. ASSUME NEW k \in 1..n PROVE g[1..k] = Clip(g[1..k - 1], s[k], offset, end)
  BY <1>1, <1>6, FoldsPrefixes
<1> DEFINE h == [k \in 0..n |-> g[1..k]]
<1>9. \A k \in 1..n : h[k] = g[1..k] /\ h[k - 1] = g[1..k - 1]
  BY <1>1
<1>10. h[0] = g[1..0] /\ h[n] = g[1..n]
  BY <1>1
<1> HIDE DEF h
<1>11. QED
  BY <1>6, <1>7, <1>8, <1>9, <1>10 DEF n

(* What the first k gaps have in the window. *)
ClippedOf(s, k, offset, end, result) ==
  /\ result \in Seq(Rng) /\ Apart(result)
  /\ result # <<>> => k > 0 /\ End(result[Len(result)]) <= End(s[k])
  /\ \A x \in Int : x \in Covered(result) <=>
       offset <= x /\ x < end /\ \E i \in 1..k : Holds(s[i], x)

LEMMA ClipIs ==
  ASSUME NEW s \in Seq(Rng), Apart(s), NEW offset \in Nat, NEW end \in Nat,
         NEW k \in 1..Len(s), NEW result, ClippedOf(s, k - 1, offset, end, result)
  PROVE  ClippedOf(s, k, offset, end, Clip(result, s[k], offset, end))
<1> DEFINE next == Clip(result, s[k], offset, end)
           gap == s[k]
           start == IF gap.Offset < offset THEN offset ELSE gap.Offset
           stop == IF End(gap) > end THEN end ELSE End(gap)
           new == Interval(start, stop - start)
<1>1. k \in Nat \ {0} /\ gap \in Rng /\ \A i \in 1..k : s[i] \in Rng /\ i \in DOMAIN s
  OBVIOUS
<1>2. gap.Offset \in Nat /\ End(gap) \in Nat /\ gap.Offset < End(gap)
  BY <1>1, RngIs
<1>3. next = IF stop > start THEN Append(result, new) ELSE result
  BY DEF Clip
<1> HIDE DEF next, gap
<1>4. /\ start \in Nat /\ stop \in Nat /\ gap.Offset <= start /\ stop <= End(gap)
      /\ \A x \in Int : start <= x /\ x < stop <=>
                          offset <= x /\ x < end /\ gap.Offset <= x /\ x < End(gap)
  BY <1>2
<1> HIDE DEF start, stop, new
<1>5. \A x \in Int : Holds(gap, x) <=> gap.Offset <= x /\ x < End(gap)
  BY DEF Holds
<1>6. result # <<>> =>
        /\ End(result[Len(result)]) \in Nat
        /\ End(result[Len(result)]) < gap.Offset
  <2> SUFFICES ASSUME result # <<>>
               PROVE  End(result[Len(result)]) \in Nat /\ End(result[Len(result)]) < gap.Offset
    OBVIOUS
  <2>1. k - 1 > 0 /\ End(result[Len(result)]) <= End(s[k - 1]) /\ result[Len(result)] \in Rng
    BY DEF ClippedOf
  <2>2. k - 1 \in 1..k /\ k \in 1..k /\ k - 1 < k
    BY <1>1, <2>1
  <2>3. End(s[k - 1]) < gap.Offset
    BY <1>1, <2>2 DEF Apart, gap
  <2>4. End(s[k - 1]) \in Nat /\ End(result[Len(result)]) \in Nat
    BY <1>1, <2>1, <2>2, RngIs
  <2>5. QED
    BY <1>2, <2>1, <2>3, <2>4
<1>7. ASSUME NEW x \in Int
      PROVE  (\E i \in 1..k : Holds(s[i], x)) <=> (\E i \in 1..k - 1 : Holds(s[i], x)) \/ Holds(gap, x)
  <2>1. \A i : i \in 1..k <=> i \in 1..k - 1 \/ i = k
    BY <1>1
  <2>2. QED
    BY <2>1 DEF gap
<1>8. result \in Seq(Rng) /\ Apart(result)
  BY DEF ClippedOf
<1>9. CASE stop > start
  <2>1. new \in Rng /\ new.Offset = start /\ End(new) = stop
    BY <1>4, <1>9, IntervalIs DEF new
  <2>2. result # <<>> => End(result[Len(result)]) < new.Offset
    BY <1>2, <1>4, <1>6, <2>1
  <2>3. next = Append(result, new)
    BY <1>3, <1>9
  <2>4. /\ next \in Seq(Rng) /\ Apart(next) /\ next[Len(next)] = new
        /\ \A x \in Int : x \in Covered(next) <=> x \in Covered(result) \/ Holds(new, x)
    BY <1>8, <2>1, <2>2, <2>3, AppendIs
  <2>5. \A x \in Int : Holds(new, x) <=> offset <= x /\ x < end /\ Holds(gap, x)
    BY <1>4, <1>5, <2>1 DEF Holds
  <2>6. \A x \in Int : x \in Covered(next) <=>
          offset <= x /\ x < end /\ \E i \in 1..k : Holds(s[i], x)
    BY <1>7, <2>4, <2>5 DEF ClippedOf
  <2>7. End(next[Len(next)]) <= End(gap) /\ k > 0
    BY <1>1, <1>4, <2>1, <2>4
  <2>8. ClippedOf(s, k, offset, end, next)
    BY <2>4, <2>6, <2>7 DEF ClippedOf, gap
  <2>9. QED
    BY <2>8 DEF next
<1>10. CASE ~(stop > start)
  <2>1. next = result
    BY <1>3, <1>10
  <2>2. \A x \in Int : ~(offset <= x /\ x < end /\ Holds(gap, x))
    BY <1>4, <1>5, <1>10
  <2>3. \A x \in Int : x \in Covered(next) <=>
          offset <= x /\ x < end /\ \E i \in 1..k : Holds(s[i], x)
    BY <1>7, <2>1, <2>2 DEF ClippedOf
  <2>4. next # <<>> => k > 0 /\ End(next[Len(next)]) <= End(gap)
    BY <1>1, <1>2, <1>6, <2>1
  <2>5. ClippedOf(s, k, offset, end, next)
    BY <1>8, <2>1, <2>3, <2>4 DEF ClippedOf, gap
  <2>6. QED
    BY <2>5 DEF next
<1>11. QED
  BY <1>9, <1>10

(* findGapsInRange returns what is missing in the window. *)
LEMMA WindowIs ==
  ASSUME NEW s \in Seq(Rng), NEW w \in Rng
  PROVE  LET some == findGapsInRange(s, w.Offset, w.Length)
         IN /\ some \in Seq(Rng) /\ Apart(some)
            /\ \A x \in Int : x \in Covered(some) <=> Holds(w, x) /\ x \notin Covered(s)
<1> DEFINE offset == w.Offset
           end == w.Offset + w.Length
           all == findGaps(s, end)
           n == Len(all)
           some == findGapsInRange(s, w.Offset, w.Length)
<1>1. offset \in Nat /\ end \in Nat \ {0} /\ w.Length > 0 /\ ~(w.Length <= 0)
  BY RngIs
<1>2. \A x \in Int : Holds(w, x) <=> offset <= x /\ x < end
  BY DEF Holds, End
<1>3. some = ClipAll(all, offset, end)
  BY <1>1 DEF findGapsInRange, ClipAll
<1> HIDE DEF offset, end, some
<1>4. /\ all \in Seq(Rng) /\ Apart(all)
      /\ \A x \in Int : x \in Covered(all) => 0 <= x /\ x \notin Covered(s)
      /\ \A x \in Int : 0 <= x /\ x < end /\ x \notin Covered(s) => x \in Covered(all)
  BY <1>1, GapsIs
<1> HIDE DEF all
<1>5. n \in Nat
  BY <1>4
<1>6. PICK h : /\ h[0] = <<>>
               /\ \A k \in 1..n : h[k] = Clip(h[k - 1], all[k], offset, end)
               /\ some = h[n]
  <2>1. end \in Nat
    BY <1>1
  <2>2. \E h : /\ h[0] = <<>>
               /\ \A k \in 1..Len(all) : h[k] = Clip(h[k - 1], all[k], offset, end)
               /\ ClipAll(all, offset, end) = h[Len(all)]
    <3> HIDE DEF n
    <3>1. QED
      BY <1>1, <1>4, <2>1, ClipWalk
  <2>3. QED
    BY <1>3, <2>2, Zenon DEF n
<1> HIDE DEF n
<1> DEFINE Done(k) == ClippedOf(all, k, offset, end, h[k])
           X == {k \in 0..n : ~Done(k)}
<1>7. ASSUME X # {} PROVE FALSE
  <2>1. PICK k \in X : \A j \in X : k <= j
    <3>1. X \in SUBSET Nat
      BY <1>5
    <3> HIDE DEF X
    <3>2. QED
      BY <1>7, <3>1, LeastNumber
  <2>2. k # 0
    <3>1. <<>> \in Seq(Rng) /\ Apart(<<>>)
      BY DEF Apart
    <3>2. \A x \in Int : x \notin Covered(<<>>)
      BY CoveredNone
    <3>3. \A i \in 1..0 : FALSE
      OBVIOUS
    <3>4. ClippedOf(all, 0, offset, end, <<>>)
      BY <3>1, <3>2, <3>3 DEF ClippedOf
    <3>5. QED
      BY <1>6, <3>4
  <2>3. k \in 1..n /\ k - 1 \in 0..n
    BY <1>5, <2>2
  <2>4. Done(k - 1)
    <3>1. ~(k <= k - 1)
      BY <2>3
    <3>2. k - 1 \notin X
      <4> HIDE DEF X
      <4>1. QED
        BY <2>1, <3>1
    <3>3. QED
      BY <2>3, <3>2
  <2>5. ClippedOf(all, k, offset, end, Clip(h[k - 1], all[k], offset, end))
    BY <1>1, <1>4, <2>3, <2>4, ClipIs DEF n
  <2>6. Done(k)
    BY <1>6, <2>3, <2>5
  <2>7. QED
    BY <2>1, <2>6
<1>8. ClippedOf(all, n, offset, end, some)
  <2>1. Done(n)
    BY <1>5, <1>7
  <2>2. QED
    BY <1>6, <2>1
<1>9. \A x \in Int : x \in Covered(all) <=> \E i \in 1..n : Holds(all[i], x)
  BY <1>4, CoveredIs DEF n
<1>10. ASSUME NEW x \in Int
       PROVE  x \in Covered(some) <=> Holds(w, x) /\ x \notin Covered(s)
  <2>1. x \in Covered(some) <=> offset <= x /\ x < end /\ x \in Covered(all)
    BY <1>8, <1>9 DEF ClippedOf
  <2>2. offset <= x => 0 <= x
    BY <1>1
  <2>3. QED
    BY <1>2, <1>4, <2>1, <2>2
<1>11. QED
  BY <1>8, <1>10 DEF ClippedOf, some

-------------------------------------------------------------------------------
(* containsRange and isComplete *)

(* Ranges that are apart hold an interval only if one of them does. *)
LEMMA OneHolds ==
  ASSUME NEW m \in Seq(Rng), Apart(m), NEW w \in Rng,
         \A x \in Int : Holds(w, x) => x \in Covered(m)
  PROVE  \E i \in DOMAIN m : m[i].Offset <= w.Offset /\ End(m[i]) >= End(w)
<1>1. w.Offset \in Nat /\ End(w) \in Nat /\ w.Offset < End(w)
  BY RngIs
<1>2. \A x \in Int : Holds(w, x) <=> w.Offset <= x /\ x < End(w)
  BY DEF Holds
<1>3. \A x \in Int : x \in Covered(m) <=> \E i \in DOMAIN m : Holds(m[i], x)
  BY CoveredIs
<1>4. \A i \in DOMAIN m : /\ m[i].Offset \in Nat /\ End(m[i]) \in Nat /\ m[i].Offset < End(m[i])
                          /\ \A x \in Int : Holds(m[i], x) <=> m[i].Offset <= x /\ x < End(m[i])
  BY RngIs
<1>5. w.Offset \in Covered(m)
  BY <1>1, <1>2
<1>6. PICK i \in DOMAIN m : Holds(m[i], w.Offset)
  BY <1>1, <1>3, <1>5
<1>7. CASE End(m[i]) >= End(w)
  BY <1>1, <1>4, <1>6, <1>7
<1>8. CASE ~(End(m[i]) >= End(w))
  <2>1. Holds(w, End(m[i]))
    BY <1>1, <1>2, <1>4, <1>6, <1>8
  <2>2. PICK j \in DOMAIN m : Holds(m[j], End(m[i]))
    BY <1>3, <1>4, <2>1
  <2>3. m[j].Offset <= End(m[i]) /\ End(m[i]) < End(m[j])
    BY <1>4, <2>2
  <2>4. i \in Int /\ j \in Int
    OBVIOUS
  <2>5. CASE i < j
    <3>1. End(m[i]) < m[j].Offset
      BY <2>5 DEF Apart
    <3>2. QED
      BY <1>4, <2>3, <3>1
  <2>6. CASE i = j
    BY <1>4, <2>3, <2>6
  <2>7. CASE j < i
    <3>1. End(m[j]) < m[i].Offset
      BY <2>7 DEF Apart
    <3>2. QED
      BY <1>4, <2>3, <3>1
  <2>8. QED
    BY <2>4, <2>5, <2>6, <2>7
<1>9. QED
  BY <1>7, <1>8

LEMMA ContainsIs ==
  ASSUME NEW s \in Seq(Rng), NEW w \in Rng
  PROVE  containsRange(s, w.Offset, w.Length) <=> \A x \in Int : Holds(w, x) => x \in Covered(s)
<1> DEFINE m == mergeRanges(s)
<1>1. m \in Seq(Rng) /\ Apart(m) /\ Covered(m) = Covered(s)
  BY MergeIs
<1>2. containsRange(s, w.Offset, w.Length) <=>
        \E i \in DOMAIN m : m[i].Offset <= w.Offset /\ End(m[i]) >= End(w)
  BY DEF containsRange, End
<1> HIDE DEF m
<1>3. ASSUME NEW i \in DOMAIN m, m[i].Offset <= w.Offset, End(m[i]) >= End(w),
             NEW x \in Int, Holds(w, x)
      PROVE  x \in Covered(s)
  <2>1. m[i] \in Rng
    BY <1>1
  <2>2. Holds(m[i], x)
    BY <1>3, <2>1, RngIs
  <2>3. QED
    BY <1>1, <2>2, CoveredIs
<1>4. ASSUME \A x \in Int : Holds(w, x) => x \in Covered(s)
      PROVE  \E i \in DOMAIN m : m[i].Offset <= w.Offset /\ End(m[i]) >= End(w)
  BY <1>1, <1>4, OneHolds
<1>5. QED
  BY <1>2, <1>3, <1>4

LEMMA CoverageWalk ==
  ASSUME NEW s \in Seq(Rng)
  PROVE  \E h : /\ h[0] = 0
                /\ \A k \in 1..Len(s) : h[k] = AddLength(h[k - 1], s[k])
                /\ FoldLeft(AddLength, 0, s) = h[Len(s)]
<1> DEFINE n == Len(s)
           step == [p \in (1..n) \X Nat |-> AddLength(p[2], s[p[1]])]
<1>1. n \in Nat /\ DOMAIN s = 1..n /\ \A i \in 1..n : s[i] \in Rng
  OBVIOUS
<1>2. ASSUME NEW total \in Nat, NEW r \in Rng PROVE AddLength(total, r) \in Nat
  BY RngIs DEF AddLength
<1>3. step \in [(1..n) \X Nat -> Nat]
  <2> HIDE DEF n
  <2>1. QED
    BY <1>1, <1>2
<1>4. PICK f : /\ FoldsLeft(f, n, Nat, step, 0)
               /\ \A t \in SUBSET (1..n) : t # {} => Max(t) \in 1..n /\ f[t \ {Max(t)}] \in Nat
  <2>1. Steps(step, n, Nat) /\ 0 \in Nat
    BY <1>3 DEF Steps
  <2> HIDE DEF n, step
  <2>2. QED
    BY <1>1, <2>1, FoldExists
<1>5. f = [t \in SUBSET (1..n) |-> IF t = {} THEN 0 ELSE AddLength(f[t \ {Max(t)}], s[Max(t)])]
  <2>1. ASSUME NEW t \in SUBSET (1..n), t # {}
        PROVE  step[<<Max(t), f[t \ {Max(t)}]>>] = AddLength(f[t \ {Max(t)}], s[Max(t)])
    <3> HIDE DEF n
    <3>1. QED
      BY <1>4, <2>1
  <2> HIDE DEF step, n
  <2>2. QED
    BY <1>4, <2>1 DEF FoldsLeft
<1>6. PICK g : /\ g = [t \in SUBSET (1..n) |-> IF t = {} THEN 0 ELSE AddLength(g[t \ {Max(t)}], s[Max(t)])]
               /\ FoldLeft(AddLength, 0, s) = g[1..n]
  <2> HIDE DEF n
  <2>1. QED
    BY <1>1, <1>5 DEF FoldLeft, MapThenFoldSet
<1> HIDE DEF n
<1>7. g[1..0] = 0
  <2>1. 1..0 = {} /\ {} \in SUBSET (1..n)
    OBVIOUS
  <2>2. g[{}] = 0
    BY <1>6, <2>1
  <2>3. QED
    BY <2>1, <2>2
<1>8. ASSUME NEW k \in 1..n PROVE g[1..k] = AddLength(g[1..k - 1], s[k])
  BY <1>1, <1>6, FoldsPrefixes
<1> DEFINE h == [k \in 0..n |-> g[1..k]]
<1>9. \A k \in 1..n : h[k] = g[1..k] /\ h[k - 1] = g[1..k - 1]
  BY <1>1
<1>10. h[0] = g[1..0] /\ h[n] = g[1..n]
  BY <1>1
<1> HIDE DEF h
<1>11. QED
  BY <1>6, <1>7, <1>8, <1>9, <1>10 DEF n

LEMMA CompleteIs ==
  ASSUME NEW s \in Seq(Rng), NEW total \in Nat \ {0},
         \A x \in Int : x \in Covered(s) => x < total
  PROVE  isComplete(s, total) <=> \A x \in Int : 0 <= x /\ x < total => x \in Covered(s)
<1> DEFINE all == findGaps(s, total)
           m == mergeRanges(s)
<1>1. /\ all \in Seq(Rng)
      /\ \A x \in Int : x \in Covered(all) => 0 <= x /\ x \notin Covered(s)
      /\ \A x \in Int : 0 <= x /\ x < total /\ x \notin Covered(s) => x \in Covered(all)
      /\ \A x \in Int : x \in Covered(all) => x < total \/ \E y \in Covered(s) : x < y
  BY GapsIs
<1>2. m \in Seq(Rng) /\ Apart(m) /\ Covered(m) = Covered(s)
  BY MergeIs
<1>3. isComplete(s, total) <=> FoldLeft(AddLength, 0, m) = total /\ all = <<>>
  BY DEF isComplete, totalCoverage
<1> HIDE DEF all, m
<1>4. ASSUME all = <<>>, NEW x \in Int, 0 <= x, x < total PROVE x \in Covered(s)
  BY <1>1, <1>4, CoveredNone
<1>5. ASSUME \A x \in Int : 0 <= x /\ x < total => x \in Covered(s)
      PROVE  FoldLeft(AddLength, 0, m) = total /\ all = <<>>
  <2>1. all = <<>>
    <3>1. ASSUME NEW x \in Int, x \in Covered(all) PROVE FALSE
      <4>1. 0 <= x /\ x \notin Covered(s)
        BY <1>1, <3>1
      <4>2. CASE x < total
        BY <1>5, <4>1, <4>2
      <4>3. CASE ~(x < total)
        <5>1. PICK y \in Covered(s) : x < y
          BY <1>1, <3>1, <4>3
        <5>2. y \in Int
          BY <5>1, CoveredIs
        <5>3. y < total
          BY <5>1, <5>2
        <5>4. QED
          BY <4>3, <5>1, <5>2, <5>3
      <4>4. QED
        BY <4>2, <4>3
    <3>2. QED
      BY <1>1, <3>1, NoneIs
  <2> DEFINE w == Interval(0, total - 0)
  <2>2. w \in Rng /\ w.Offset = 0 /\ End(w) = total
    BY IntervalIs
  <2> HIDE DEF w
  <2>3. \A x \in Int : Holds(w, x) => x \in Covered(m)
    BY <1>2, <1>5, <2>2 DEF Holds
  <2>4. PICK i \in DOMAIN m : m[i].Offset <= 0 /\ End(m[i]) >= total
    BY <1>2, <2>2, <2>3, OneHolds
  <2>5. \A k \in DOMAIN m : /\ m[k].Offset \in Nat /\ m[k].Length \in Nat /\ End(m[k]) \in Nat
                            /\ m[k].Offset < End(m[k]) /\ End(m[k]) = m[k].Offset + m[k].Length
                            /\ Holds(m[k], m[k].Offset) /\ Holds(m[k], End(m[k]) - 1)
    <3> SUFFICES ASSUME NEW k \in DOMAIN m
                 PROVE  /\ m[k].Offset \in Nat /\ m[k].Length \in Nat /\ End(m[k]) \in Nat
                        /\ m[k].Offset < End(m[k]) /\ End(m[k]) = m[k].Offset + m[k].Length
                        /\ Holds(m[k], m[k].Offset) /\ Holds(m[k], End(m[k]) - 1)
      OBVIOUS
    <3> DEFINE r == m[k]
    <3>1. r \in Rng
      BY <1>2
    <3> HIDE DEF r
    <3>2. /\ r.Offset \in Nat /\ r.Length \in Nat /\ End(r) \in Nat
          /\ r.Offset < End(r) /\ End(r) = r.Offset + r.Length
      BY <3>1, RngIs
    <3>3. Holds(r, r.Offset) /\ Holds(r, End(r) - 1)
      BY <3>2 DEF Holds
    <3>4. QED
      BY <3>2, <3>3 DEF r
  <2>6. \A k \in DOMAIN m : m[k].Offset < total /\ End(m[k]) <= total
    <3> SUFFICES ASSUME NEW k \in DOMAIN m PROVE m[k].Offset < total /\ End(m[k]) <= total
      OBVIOUS
    <3>1. m[k].Offset \in Covered(s) /\ End(m[k]) - 1 \in Covered(s)
      <4>1. m[k].Offset \in Int /\ End(m[k]) - 1 \in Int /\ k \in 1..Len(m)
        BY <1>2, <2>5
      <4>2. m[k].Offset \in Covered(m) /\ End(m[k]) - 1 \in Covered(m)
        BY <1>2, <2>5, <4>1, CoveredIs
      <4>3. QED
        BY <1>2, <4>2
    <3>2. QED
      BY <2>5, <3>1
  <2>7. m[i].Offset = 0 /\ m[i].Length = total
    BY <2>4, <2>5, <2>6
  <2>8. \A k \in DOMAIN m : k = i
    <3> SUFFICES ASSUME NEW k \in DOMAIN m, k # i PROVE FALSE
      OBVIOUS
    <3>1. k < i \/ i < k
      BY <1>2
    <3>2. CASE k < i
      <4>1. End(m[k]) < m[i].Offset
        BY <1>2, <3>2 DEF Apart
      <4>2. QED
        BY <2>5, <2>7, <4>1
    <3>3. CASE i < k
      <4>1. End(m[i]) < m[k].Offset
        BY <1>2, <3>3 DEF Apart
      <4>2. QED
        BY <2>4, <2>5, <2>6, <4>1
    <3>4. QED
      BY <3>1, <3>2, <3>3
  <2>9. Len(m) = 1 /\ i = 1
    <3>1. Len(m) \in Nat /\ DOMAIN m = 1..Len(m)
      BY <1>2
    <3>2. Len(m) \in DOMAIN m /\ 1 \in DOMAIN m
      BY <2>4, <3>1
    <3>3. QED
      BY <2>8, <3>2
  <2>10. PICK h : /\ h[0] = 0
                  /\ \A k \in 1..Len(m) : h[k] = AddLength(h[k - 1], m[k])
                  /\ FoldLeft(AddLength, 0, m) = h[Len(m)]
    BY <1>2, CoverageWalk
  <2>11. h[1] = AddLength(h[0], m[1])
    BY <2>9, <2>10
  <2>12. FoldLeft(AddLength, 0, m) = total
    <3>1. FoldLeft(AddLength, 0, m) = h[1] /\ h[1] = 0 + m[1].Length
      BY <2>9, <2>10, <2>11 DEF AddLength
    <3>2. m[1].Length = total
      BY <2>7, <2>9
    <3>3. QED
      BY <3>1, <3>2
  <2>13. QED
    BY <2>1, <2>12
<1>6. QED
  BY <1>3, <1>4, <1>5

-------------------------------------------------------------------------------
(* RangeFetch *)

LEMMA WindowsAre ==
  /\ Windows \subseteq Rng
  /\ \A r \in Windows : \A x \in Int : Holds(r, x) => x \in AllBytes
  /\ \A r \in Rng : (\A x \in Int : Holds(r, x) => x \in AllBytes) => r \in Windows
<1>1. TotalSize \in Nat \ {0}
  BY TotalSizeAssumption
<1>2. Windows \subseteq Rng
  BY <1>1 DEF Windows, Rng
<1>3. ASSUME NEW r \in Windows, NEW x \in Int, Holds(r, x) PROVE x \in AllBytes
  <2>1. r.Offset \in Nat /\ End(r) \in Nat /\ r.Offset <= x /\ x < End(r)
    BY <1>2, <1>3, RngIs
  <2>2. End(r) <= TotalSize
    BY DEF Windows
  <2>3. QED
    BY <1>1, <2>1, <2>2 DEF AllBytes
<1>4. ASSUME NEW r \in Rng, \A x \in Int : Holds(r, x) => x \in AllBytes PROVE r \in Windows
  <2>1. /\ r.Offset \in Nat /\ r.Length \in Nat /\ r.Length > 0
        /\ End(r) = r.Offset + r.Length /\ End(r) \in Nat /\ r.Offset < End(r)
    BY RngIs
  <2>2. Holds(r, r.Offset) /\ Holds(r, End(r) - 1)
    BY <2>1 DEF Holds
  <2>3. r.Offset \in AllBytes /\ End(r) - 1 \in AllBytes
    BY <1>4, <2>1, <2>2
  <2>4. r.Offset \in 0..(TotalSize - 1) /\ End(r) <= TotalSize /\ r.Length \in 1..TotalSize
    BY <1>1, <2>1, <2>3 DEF AllBytes
  <2>5. QED
    BY <2>4 DEF Windows, Rng
<1>5. QED
  BY <1>2, <1>3, <1>4

(* A slice of ranges is within the blob if its bytes are. *)
LEMMA Inside ==
  /\ \A s \in Seq(Windows) : s \in Seq(Rng) /\ Covered(s) \subseteq AllBytes
  /\ \A s \in Seq(Rng) : Covered(s) \subseteq AllBytes => s \in Seq(Windows)
<1>1. ASSUME NEW s \in Seq(Windows) PROVE s \in Seq(Rng) /\ Covered(s) \subseteq AllBytes
  <2>1. s \in Seq(Rng)
    BY WindowsAre
  <2>2. QED
    BY <2>1, WindowsAre, CoveredIs
<1>2. ASSUME NEW s \in Seq(Rng), Covered(s) \subseteq AllBytes PROVE s \in Seq(Windows)
  <2>1. ASSUME NEW i \in 1..Len(s) PROVE s[i] \in Windows
    <3>1. s[i] \in Rng
      OBVIOUS
    <3>2. \A x \in Int : Holds(s[i], x) => x \in AllBytes
      BY <1>2, CoveredIs
    <3>3. QED
      BY <3>1, <3>2, WindowsAre
  <2>2. QED
    BY <2>1
<1>3. QED
  BY <1>1, <1>2

LEMMA BytesAre == ASSUME NEW r \in Rng PROVE \A x : x \in Bytes(r) <=> x \in Int /\ Holds(r, x)
BY DEF Bytes, Holds, End, Rng

(* addRange adds bytes, and stays within the blob. *)
LEMMA AddIs ==
  ASSUME NEW s \in Seq(Windows), NEW r \in Windows
  PROVE  /\ addRange(s, r) \in Seq(Windows) /\ Apart(addRange(s, r))
         /\ Covered(addRange(s, r)) = Covered(s) \cup Bytes(r)
<1> DEFINE t == Append(s, r)
           n == Len(s)
<1>1. s \in Seq(Rng) /\ Covered(s) \subseteq AllBytes /\ r \in Rng /\ Bytes(r) \subseteq AllBytes
  BY Inside, WindowsAre, BytesAre
<1>2. t \in Seq(Rng) /\ Len(t) = n + 1 /\ n \in Nat /\ t[n + 1] = r /\ \A i \in 1..n : t[i] = s[i]
  BY <1>1
<1> HIDE DEF t, n
<1>3. ASSUME NEW x PROVE x \in Covered(t) <=> x \in Covered(s) \/ x \in Bytes(r)
  <2>1. \A i : i \in 1..n + 1 <=> i \in 1..n \/ i = n + 1
    BY <1>2
  <2>2. x \in Covered(t) <=> x \in Int /\ \E i \in 1..n + 1 : Holds(t[i], x)
    BY <1>2, CoveredIs
  <2>3. x \in Covered(s) <=> x \in Int /\ \E i \in 1..n : Holds(s[i], x)
    BY <1>1, CoveredIs DEF n
  <2>4. QED
    BY <1>1, <1>2, <2>1, <2>2, <2>3, BytesAre
<1>4. Covered(t) = Covered(s) \cup Bytes(r)
  BY <1>3
<1>5. /\ mergeRanges(t) \in Seq(Rng) /\ Apart(mergeRanges(t))
      /\ Covered(mergeRanges(t)) = Covered(t)
  BY <1>2, MergeIs
<1>6. addRange(s, r) = mergeRanges(t)
  BY DEF addRange, t
<1>7. addRange(s, r) \in Seq(Windows)
  BY <1>1, <1>4, <1>5, <1>6, Inside
<1>8. QED
  BY <1>4, <1>5, <1>6, <1>7

LEMMA TailIs ==
  ASSUME NEW s \in Seq(Windows), Apart(s), s # <<>>
  PROVE  /\ Head(s) \in Windows /\ Tail(s) \in Seq(Windows) /\ Apart(Tail(s))
         /\ Bytes(Head(s)) \subseteq Covered(s) /\ Bytes(Head(s)) # {}
         /\ Covered(Tail(s)) = Covered(s) \ Bytes(Head(s))
<1> DEFINE n == Len(s)
           t == Tail(s)
           r == Head(s)
<1>1. n \in Nat \ {0} /\ t \in Seq(Windows) /\ Len(t) = n - 1 /\ r = s[1] /\ r \in Windows
  OBVIOUS
<1>2. \A i \in 1..n - 1 : t[i] = s[i + 1] /\ i + 1 \in 1..n
  OBVIOUS
<1>3. s \in Seq(Rng) /\ t \in Seq(Rng) /\ r \in Rng
  BY <1>1, Inside, WindowsAre
<1> HIDE DEF t, r, n
<1>4. Apart(t)
  <2> SUFFICES ASSUME NEW i \in 1..n - 1, NEW j \in 1..n - 1, i < j PROVE End(t[i]) < t[j].Offset
    BY <1>1 DEF Apart
  <2>1. i + 1 \in DOMAIN s /\ j + 1 \in DOMAIN s /\ i + 1 < j + 1
    BY <1>2, <1>3 DEF n
  <2>2. End(s[i + 1]) < s[j + 1].Offset
    BY <2>1 DEF Apart
  <2>3. QED
    BY <1>2, <2>2
<1>5. \A i \in 1..n : s[i] \in Rng /\ i \in DOMAIN s
  BY <1>3 DEF n
<1>6. ASSUME NEW x PROVE /\ x \in Covered(t) <=> x \in Covered(s) /\ x \notin Bytes(r)
                         /\ x \in Bytes(r) => x \in Covered(s)
  <2>1. x \in Covered(s) <=> x \in Int /\ \E i \in 1..n : Holds(s[i], x)
    BY <1>3, CoveredIs DEF n
  <2>2. x \in Covered(t) <=> x \in Int /\ \E i \in 1..n - 1 : Holds(t[i], x)
    BY <1>1, <1>3, CoveredIs
  <2>3. x \in Bytes(r) <=> x \in Int /\ Holds(s[1], x)
    BY <1>1, <1>3, BytesAre
  <2>4. 1 \in 1..n /\ \A i \in 1..n : i = 1 \/ (i - 1 \in 1..n - 1 /\ i = (i - 1) + 1)
    BY <1>1
  <2>5. ASSUME x \in Int, NEW i \in 1..n - 1, Holds(s[i + 1], x), Holds(s[1], x) PROVE FALSE
    <3>1. i + 1 \in DOMAIN s /\ 1 \in DOMAIN s /\ 1 < i + 1 /\ s[i + 1] \in Rng /\ s[1] \in Rng
      BY <1>2, <1>5, <2>4
    <3>2. End(s[1]) < s[i + 1].Offset
      BY <3>1 DEF Apart
    <3>3. End(s[1]) \in Nat /\ s[i + 1].Offset \in Nat
      BY <3>1, RngIs
    <3>4. x < End(s[1]) /\ s[i + 1].Offset <= x
      BY <2>5 DEF Holds
    <3>5. QED
      BY <2>5, <3>2, <3>3, <3>4
  <2>6. (\E i \in 1..n : Holds(s[i], x)) <=> Holds(s[1], x) \/ \E i \in 1..n - 1 : Holds(s[i + 1], x)
    BY <1>2, <2>4
  <2>7. (\E i \in 1..n - 1 : Holds(t[i], x)) <=> \E i \in 1..n - 1 : Holds(s[i + 1], x)
    BY <1>2
  <2>8. QED
    BY <2>1, <2>2, <2>3, <2>5, <2>6, <2>7
<1>7. Bytes(r) # {}
  <2>1. r.Offset \in Int /\ Holds(r, r.Offset)
    BY <1>3, RngIs
  <2>2. r.Offset \in Bytes(r)
    BY <1>3, <2>1, BytesAre
  <2>3. QED
    BY <2>2
<1>8. Covered(t) = Covered(s) \ Bytes(r) /\ Bytes(r) \subseteq Covered(s)
  BY <1>6
<1>9. QED
  BY <1>1, <1>4, <1>7, <1>8 DEF t, r

LEMMA FetchInitially ==
  ASSUME FetchInit PROVE FetchInv
<1>1. ranges \in Seq(Windows)
  <2>1. PICK n \in 0..MaxRanges : ranges \in [1..n -> Windows]
    BY DEF FetchInit
  <2>2. n \in Nat
    BY MaxRangesAssumption
  <2>3. QED
    BY <2>1, <2>2, FunctionIsSeq
<1>2. gaps = <<>> /\ window = {} /\ err = FALSE
  BY DEF FetchInit
<1>3. <<>> \in Seq(Windows) /\ Apart(<<>>)
  BY DEF Apart
<1>4. QED
  BY <1>1, <1>2, <1>3 DEF FetchInv

LEMMA ReadStarts ==
  ASSUME FetchInv, StartRead PROVE FetchInv'
<1>1. PICK r \in Windows : window' = {r} /\ gaps' = findGapsInRange(ranges, r.Offset, r.Length)
  BY DEF StartRead
<1>2. UNCHANGED <<ranges, err>>
  BY DEF StartRead
<1>3. r \in Rng /\ ranges \in Seq(Rng) /\ Bytes(r) \subseteq AllBytes
  BY Inside, WindowsAre, BytesAre DEF FetchInv
<1>4. /\ gaps' \in Seq(Rng) /\ Apart(gaps')
      /\ \A x \in Int : x \in Covered(gaps') <=> Holds(r, x) /\ x \notin Covered(ranges)
  BY <1>1, <1>3, WindowIs
<1>5. Covered(gaps') = Bytes(r) \ Covered(ranges)
  <2> DEFINE all == gaps'
  <2>1. \A x : x \in Covered(all) => x \in Int
    BY <1>4, CoveredIs
  <2>2. \A x : x \in Covered(all) <=> x \in Bytes(r) /\ x \notin Covered(ranges)
    BY <1>3, <1>4, <2>1, BytesAre
  <2> HIDE DEF all
  <2>3. Covered(all) = Bytes(r) \ Covered(ranges)
    BY <2>2
  <2>4. QED
    BY <2>3 DEF all
<1>6. gaps' \in Seq(Windows)
  BY <1>3, <1>4, <1>5, Inside
<1>7. window' \subseteq Windows /\ (\A p, q \in window' : p = q) /\ window' # {}
  BY <1>1
<1>8. Apart(gaps)' /\ \A p \in window' : Covered(gaps') = Bytes(p) \ Covered(ranges')
  BY <1>1, <1>2, <1>4, <1>5
<1>9. QED
  BY <1>2, <1>6, <1>7, <1>8 DEF FetchInv

(* A gap that was fetched becomes part of the ranges, and of no gap any more. *)
LEMMA GapFetched ==
  ASSUME FetchInv, FetchGap
  PROVE  /\ FetchInv' /\ Apart(ranges')
         /\ Covered(ranges') = Covered(ranges) \cup Bytes(Head(gaps))
         /\ \A r \in window : Bytes(Head(gaps)) \subseteq Bytes(r) \ Covered(ranges)
<1> DEFINE g == Head(gaps)
<1>1. /\ gaps # <<>> /\ ranges' = addRange(ranges, g) /\ gaps' = Tail(gaps)
      /\ window' = window /\ err' = err
  BY DEF FetchGap
<1>2. /\ g \in Windows /\ Tail(gaps) \in Seq(Windows) /\ Apart(Tail(gaps))
      /\ Bytes(g) \subseteq Covered(gaps) /\ Covered(Tail(gaps)) = Covered(gaps) \ Bytes(g)
  BY <1>1, TailIs DEF FetchInv
<1> HIDE DEF g
<1>3. /\ ranges' \in Seq(Windows) /\ Apart(ranges')
      /\ Covered(ranges') = Covered(ranges) \cup Bytes(g)
  BY <1>1, <1>2, AddIs DEF FetchInv
<1>4. \A r \in window : Covered(gaps) = Bytes(r) \ Covered(ranges)
  BY DEF FetchInv
<1>5. Covered(gaps') = Covered(gaps) \ Bytes(g)
  BY <1>1, <1>2
<1>6. \A r \in window' : Covered(gaps') = Bytes(r) \ Covered(ranges')
  <2> SUFFICES ASSUME NEW r \in window PROVE Covered(gaps') = Bytes(r) \ Covered(ranges')
    BY <1>1
  <2> DEFINE A == Covered(gaps')
             B == Covered(ranges')
             C == Covered(gaps)
             D == Covered(ranges)
  <2>1. A = C \ Bytes(g) /\ B = D \cup Bytes(g) /\ C = Bytes(r) \ D
    BY <1>3, <1>4, <1>5
  <2> HIDE DEF A, B, C, D
  <2>2. A = Bytes(r) \ B
    BY <2>1
  <2>3. QED
    BY <2>2 DEF A, B
<1>7. Apart(gaps)' /\ gaps' \in Seq(Windows) /\ (window' = {} => gaps' = <<>>)
  BY <1>1, <1>2 DEF FetchGap
<1>8. FetchInv'
  BY <1>1, <1>3, <1>6, <1>7 DEF FetchInv
<1>9. QED
  BY <1>2, <1>3, <1>4, <1>8 DEF g

LEMMA FetchStep == FetchInv /\ [FetchNext]_fetchVars => FetchInv'
<1> SUFFICES ASSUME FetchInv, [FetchNext]_fetchVars PROVE FetchInv'
  OBVIOUS
<1>1. CASE StartRead
  BY <1>1, ReadStarts
<1>2. CASE FetchGap
  BY <1>2, GapFetched
<1>3. CASE FailRead \/ FinishRead
  <2>1. window' = {} /\ gaps' = <<>> /\ ranges' = ranges /\ err' \in BOOLEAN
    BY <1>3 DEF FailRead, FinishRead
  <2>2. <<>> \in Seq(Windows) /\ Apart(<<>>)
    BY DEF Apart
  <2>3. QED
    BY <2>1, <2>2 DEF FetchInv
<1>4. CASE UNCHANGED fetchVars
  <2>1. UNCHANGED <<ranges, window, gaps, err>>
    BY <1>4 DEF fetchVars
  <2>2. Apart(gaps)' <=> Apart(gaps)
    BY <2>1 DEF Apart
  <2>3. Covered(gaps)' = Covered(gaps) /\ Covered(ranges)' = Covered(ranges)
    BY <2>1
  <2>4. QED
    BY <2>1, <2>2, <2>3 DEF FetchInv
<1>5. QED
  BY <1>1, <1>2, <1>3, <1>4 DEF FetchNext

-------------------------------------------------------------------------------
(* The ranges of an entry, the read under way and its gaps stay as FetchInv says,      *)
(* whatever the size of the blob and whatever ranges its entry file had.                *)
THEOREM FetchInvariant == FetchSpec => []FetchInv
BY FetchInitially, FetchStep, PTL DEF FetchSpec

LEMMA InvTypes ==
  ASSUME FetchInv
  PROVE  /\ ranges \in Seq(Rng) /\ Covered(ranges) \subseteq AllBytes
         /\ TotalSize \in Nat \ {0} /\ AllBytes \subseteq Nat
         /\ \A x \in Int : x \in AllBytes <=> 0 <= x /\ x < TotalSize
<1>1. ranges \in Seq(Rng) /\ Covered(ranges) \subseteq AllBytes
  BY Inside DEF FetchInv
<1>2. TotalSize \in Nat \ {0}
  BY TotalSizeAssumption
<1>3. QED
  BY <1>1, <1>2 DEF AllBytes

LEMMA AllGaps == FetchInv => GapsAreMissingBytes
<1> SUFFICES ASSUME FetchInv PROVE GapsAreMissingBytes
  OBVIOUS
<1> DEFINE all == findGaps(ranges, TotalSize)
<1>1. /\ all \in Seq(Rng) /\ Apart(all)
      /\ \A x \in Int : x \in Covered(all) => 0 <= x /\ x \notin Covered(ranges)
      /\ \A x \in Int : 0 <= x /\ x < TotalSize /\ x \notin Covered(ranges) => x \in Covered(all)
      /\ \A x \in Int : x \in Covered(all) => x < TotalSize \/ \E y \in Covered(ranges) : x < y
  BY InvTypes, GapsIs
<1> HIDE DEF all
<1>2. ASSUME NEW x \in Covered(all) PROVE x \in AllBytes /\ x \notin Covered(ranges)
  <2>1. x \in Int
    BY <1>1, CoveredIs
  <2>2. 0 <= x /\ x \notin Covered(ranges)
    BY <1>1, <2>1
  <2>3. x < TotalSize \/ \E y \in Covered(ranges) : x < y
    BY <1>1, <2>1
  <2>4. \A y \in Covered(ranges) : y \in Int /\ y < TotalSize
    BY InvTypes
  <2>5. x < TotalSize
    BY <2>1, <2>3, <2>4, InvTypes
  <2>6. QED
    BY <2>1, <2>2, <2>5, InvTypes
<1>3. ASSUME NEW x \in AllBytes, x \notin Covered(ranges) PROVE x \in Covered(all)
  BY <1>1, <1>3, InvTypes
<1>4. Covered(all) = AllBytes \ Covered(ranges)
  BY <1>2, <1>3
<1>5. \A i \in DOMAIN all : all[i].Length > 0
  BY <1>1, RngIs
<1>6. QED
  BY <1>1, <1>4, <1>5 DEF GapsAreMissingBytes, all

LEMMA GapsInside == FetchInv => WindowGapsAreMissingBytes
<1> SUFFICES ASSUME FetchInv, NEW w \in Windows
             PROVE  LET some == findGapsInRange(ranges, w.Offset, w.Length)
                    IN Covered(some) = Bytes(w) \ Covered(ranges) /\ Apart(some)
  BY DEF WindowGapsAreMissingBytes
<1> DEFINE some == findGapsInRange(ranges, w.Offset, w.Length)
<1>1. w \in Rng
  BY WindowsAre
<1>2. /\ some \in Seq(Rng) /\ Apart(some)
      /\ \A x \in Int : x \in Covered(some) <=> Holds(w, x) /\ x \notin Covered(ranges)
  BY <1>1, InvTypes, WindowIs
<1> HIDE DEF some
<1>3. \A x : x \in Covered(some) <=> x \in Bytes(w) /\ x \notin Covered(ranges)
  BY <1>1, <1>2, CoveredIs, BytesAre
<1>4. Covered(some) = Bytes(w) \ Covered(ranges)
  BY <1>3
<1>5. QED
  BY <1>2, <1>4 DEF some

LEMMA TestsAnswer == FetchInv => TestsMatchBytes
<1> SUFFICES ASSUME FetchInv PROVE TestsMatchBytes
  OBVIOUS
<1>1. ASSUME NEW w \in Windows
      PROVE  containsRange(ranges, w.Offset, w.Length) <=> Bytes(w) \subseteq Covered(ranges)
  <2>1. w \in Rng
    BY WindowsAre
  <2>2. containsRange(ranges, w.Offset, w.Length)
          <=> \A x \in Int : Holds(w, x) => x \in Covered(ranges)
    BY <2>1, InvTypes, ContainsIs
  <2>3. (\A x \in Int : Holds(w, x) => x \in Covered(ranges)) <=> Bytes(w) \subseteq Covered(ranges)
    BY <2>1, BytesAre
  <2>4. QED
    BY <2>2, <2>3
<1>2. isComplete(ranges, TotalSize) <=> Covered(ranges) = AllBytes
  <2>1. \A x \in Int : x \in Covered(ranges) => x < TotalSize
    BY InvTypes
  <2>2. isComplete(ranges, TotalSize)
          <=> \A x \in Int : 0 <= x /\ x < TotalSize => x \in Covered(ranges)
    BY <2>1, InvTypes, CompleteIs
  <2>3. (\A x \in Int : 0 <= x /\ x < TotalSize => x \in Covered(ranges))
          <=> AllBytes \subseteq Covered(ranges)
    BY InvTypes
  <2>4. QED
    BY <2>2, <2>3, InvTypes
<1>3. QED
  BY <1>1, <1>2 DEF TestsMatchBytes

(* findGaps lists every missing byte of a blob once, in order, and no other, whatever   *)
(* ranges have come together (ranges.go:41-71).                                         *)
THEOREM GapsComplement == FetchSpec => []GapsAreMissingBytes
BY FetchInvariant, AllGaps, PTL

(* findGapsInRange does so inside every window that a read asks for                     *)
(* (lazy_handle.go, findGapsInRange).                                                   *)
THEOREM WindowGapsComplement == FetchSpec => []WindowGapsAreMissingBytes
BY FetchInvariant, GapsInside, PTL

(* A read is a hit exactly when its bytes are there, and a blob is complete exactly when *)
(* no byte is missing: containsRange and isComplete answer for the bytes.                *)
THEOREM TestsAreExact == FetchSpec => []TestsMatchBytes
BY FetchInvariant, TestsAnswer, PTL

(* addRange leaves the ranges of an entry sorted and apart, even those that an entry     *)
(* file had in another order or overlapping (ranges.go, addRange).                       *)
THEOREM StaysMerged == FetchSpec => MergedForm
<1>1. FetchInv /\ [FetchNext]_fetchVars => [ranges' # ranges => Apart(ranges')]_fetchVars
  <2> SUFFICES ASSUME FetchInv, [FetchNext]_fetchVars, ranges' # ranges PROVE Apart(ranges')
    OBVIOUS
  <2>1. CASE FetchGap
    BY <2>1, GapFetched
  <2>2. CASE StartRead \/ FailRead \/ FinishRead \/ UNCHANGED fetchVars
    BY <2>2 DEF StartRead, FailRead, FinishRead, fetchVars
  <2>3. QED
    BY <2>1, <2>2 DEF FetchNext
<1>2. QED
  BY <1>1, FetchInvariant, PTL DEF FetchSpec, MergedForm

-------------------------------------------------------------------------------
(* The slices as a set of bytes *)

reads == UNION {Bytes(r) : r \in window}

LEMMA ReadsIs ==
  ASSUME FetchInv
  PROVE  /\ \A r \in window : reads = Bytes(r) /\ reads # {} /\ reads \subseteq AllBytes
         /\ window = {} => reads = {}
<1>1. window = {} => reads = {}
  BY DEF reads
<1>2. ASSUME NEW r \in window PROVE reads = Bytes(r) /\ reads # {} /\ reads \subseteq AllBytes
  <2>1. window = {r} /\ r \in Windows /\ r \in Rng
    BY WindowsAre DEF FetchInv
  <2>2. reads = Bytes(r)
    BY <2>1 DEF reads
  <2>3. r.Offset \in Int /\ Holds(r, r.Offset)
    BY <2>1, RngIs
  <2>4. r.Offset \in Bytes(r)
    BY <2>1, <2>3, BytesAre
  <2>5. Bytes(r) \subseteq AllBytes
    BY <2>1, WindowsAre, BytesAre
  <2>6. QED
    BY <2>2, <2>4, <2>5
<1>3. QED
  BY <1>1, <1>2

LEMMA SetStarts == FetchInit => Abstract!Init
<1> SUFFICES ASSUME FetchInit PROVE Abstract!Init
  OBVIOUS
<1>1. Covered(ranges) \subseteq AllBytes
  BY FetchInitially, InvTypes
<1>2. reads = {} /\ err = FALSE
  BY FetchInitially, ReadsIs DEF FetchInit
<1>3. QED
  BY <1>1, <1>2 DEF Abstract!Init, reads

LEMMA SetStep ==
  FetchInv /\ FetchInv' /\ [FetchNext]_fetchVars =>
    [Abstract!Start \/ Abstract!Fetch \/ Abstract!Succeed \/ Abstract!Fail]_<<Covered(ranges), reads, err>>
<1> SUFFICES ASSUME FetchInv, FetchInv', [FetchNext]_fetchVars
             PROVE  \/ Abstract!Start \/ Abstract!Fetch \/ Abstract!Succeed \/ Abstract!Fail
                    \/ UNCHANGED <<Covered(ranges), reads, err>>
  OBVIOUS
<1>1. CASE StartRead
  <2>1. window = {} /\ window' # {} /\ ranges' = ranges /\ err' = err
    BY <1>1 DEF StartRead
  <2>2. reads = {} /\ reads' # {} /\ reads' \subseteq AllBytes
    <3>1. reads = {}
      BY <2>1, ReadsIs
    <3>2. PICK r \in Windows : window' = {r}
      BY <1>1 DEF StartRead
    <3>3. reads' = Bytes(r)
      BY <3>2 DEF reads
    <3>4. r \in Rng
      BY WindowsAre
    <3>5. r.Offset \in Int /\ Holds(r, r.Offset)
      BY <3>4, RngIs
    <3>6. Bytes(r) # {} /\ Bytes(r) \subseteq AllBytes
      BY <3>4, <3>5, BytesAre, WindowsAre
    <3>7. QED
      BY <3>1, <3>3, <3>6
  <2>3. Covered(ranges)' = Covered(ranges)
    BY <2>1
  <2>4. /\ reads = {} /\ reads' \in (SUBSET AllBytes) \ {{}}
        /\ UNCHANGED <<Covered(ranges), err>>
    BY <2>1, <2>2, <2>3
  <2>5. Abstract!Start
    BY <2>4, Zenon DEF Abstract!Start, reads
  <2>6. QED
    BY <2>5
<1>2. CASE FetchGap
  <2>1. PICK r : r \in window
    BY <1>2 DEF FetchGap
  <2>2. /\ Covered(ranges') = Covered(ranges) \cup Bytes(Head(gaps))
        /\ Bytes(Head(gaps)) \subseteq Bytes(r) \ Covered(ranges)
    BY <1>2, <2>1, GapFetched
  <2>3. reads = Bytes(r)
    BY <2>1, ReadsIs
  <2>4. reads' = reads /\ err' = err
    BY <1>2 DEF FetchGap, reads
  <2>5. Bytes(Head(gaps)) \in SUBSET (reads \ Covered(ranges))
    BY <2>2, <2>3
  <2>6. Abstract!Fetch
    BY <2>2, <2>4, <2>5 DEF Abstract!Fetch, reads
  <2>7. QED
    BY <2>6
<1>3. CASE FailRead
  <2>1. window # {} /\ window' = {} /\ err' = TRUE /\ ranges' = ranges
    BY <1>3 DEF FailRead
  <2>2. reads # {} /\ reads' = {}
    BY <2>1, ReadsIs DEF reads
  <2>3. Covered(ranges)' = Covered(ranges)
    BY <2>1
  <2>4. Abstract!Fail
    BY <2>1, <2>2, <2>3 DEF Abstract!Fail, reads
  <2>5. QED
    BY <2>4
<1>4. CASE FinishRead
  <2>1. window # {} /\ gaps = <<>> /\ window' = {} /\ err' = FALSE /\ ranges' = ranges
    BY <1>4 DEF FinishRead
  <2>2. PICK r : r \in window
    BY <2>1
  <2>3. reads = Bytes(r) /\ reads # {} /\ reads' = {}
    BY <2>1, <2>2, ReadsIs DEF reads
  <2>4. Covered(gaps) = {}
    BY <2>1 DEF Covered
  <2>5. reads \subseteq Covered(ranges)
    BY <2>2, <2>3, <2>4 DEF FetchInv
  <2>6. Covered(ranges)' = Covered(ranges)
    BY <2>1
  <2>7. Abstract!Succeed
    BY <2>1, <2>3, <2>5, <2>6 DEF Abstract!Succeed, reads
  <2>8. QED
    BY <2>7
<1>5. CASE UNCHANGED fetchVars
  <2>1. UNCHANGED <<ranges, window, gaps, err>>
    BY <1>5 DEF fetchVars
  <2>2. Covered(ranges)' = Covered(ranges) /\ reads' = reads
    BY <2>1 DEF reads
  <2>3. QED
    BY <2>1, <2>2
<1>6. QED
  BY <1>1, <1>2, <1>3, <1>4, <1>5 DEF FetchNext

(* The slices of ranges behave as the set of bytes that are there, for any blob and any  *)
(* entry file: it grows by missing bytes of the read only, and a read that ends without  *)
(* an error has all its bytes.  It is why CacheDir may keep a set instead of ranges.      *)
THEOREM RangesAreByteSet == FetchSpec => ImplementsByteSet
<1>1. FetchInit => Abstract!Init
  BY SetStarts
<1>2. FetchInv /\ FetchInv' /\ [FetchNext]_fetchVars =>
        [Abstract!Start \/ Abstract!Fetch \/ Abstract!Succeed \/ Abstract!Fail]_<<Covered(ranges), reads, err>>
  BY SetStep
<1>3. QED
  BY <1>1, <1>2, FetchInvariant, PTL DEF FetchSpec, ImplementsByteSet, Abstract!Spec, reads

(* All this holds of the reads of an image too: whoever opens, walks, reads and closes   *)
(* meanwhile, its steps are those of one ReadAt after another, which h.mu is for.         *)
THEOREM ImageFetches == ImageSpec => FetchSpec
<1>1. ImageInit => FetchInit
  BY DEF ImageInit
<1>2. [ImageNext]_imageVars => [FetchNext]_fetchVars
  <2>1. CASE UNCHANGED imageVars
    BY <2>1 DEF imageVars
  <2>2. ASSUME NEW u \in Users,
               \/ OpenReader(u) \/ StartWalk(u) \/ CallInside(u) \/ BeginRead(u) \/ BeginClose(u)
               \/ Takes(u) \/ Works(u)
        PROVE  [FetchNext]_fetchVars
    BY <2>2 DEF OpenReader, StartWalk, CallInside, BeginRead, BeginClose, Takes, Works,
                AnswerInside, ServeRead, LockAndFetch, CloseAgain, LockImage, CloseHandle,
                EndWalk, FetchNextGap, EndRead, FetchNext
  <2>3. QED
    BY <2>1, <2>2 DEF ImageNext
<1>3. QED
  BY <1>1, <1>2, PTL DEF ImageSpec, FetchSpec

-------------------------------------------------------------------------------
LEMMA ImageStart == ImageInit => ClosedInv
BY DEF ImageInit, ClosedInv, Labels

(* A step that takes no mutex, closes nothing and brings u neither into a fetch nor *)
(* into a Close.                                                                     *)
LEMMA PlainStep ==
  ASSUME ClosedInv, NEW u \in Users, NEW label \in Labels \ {"fetch", "closing"},
         UGoto(u, label), UNCHANGED <<kind, imgMu, mu, imgClosed, closed, done>>
  PROVE  ClosedInv'
BY DEF ClosedInv, UGoto

LEMMA FetchStarts ==
  ASSUME ClosedInv, NEW u \in Users, LockAndFetch(u) PROVE ClosedInv'
<1>1. mu' = u /\ kind = "lazy" /\ ~closed /\ UNCHANGED <<kind, imgMu, imgClosed, closed, done>>
  BY DEF LockAndFetch, fileVars
<1>2. \A v \in Users : upc[v] # "fetch"
  BY NobodyAssumption DEF ClosedInv, LockAndFetch
<1>3. upc' = [upc EXCEPT ![u] = "fetch"]
  BY DEF LockAndFetch, UGoto
<1>4. QED
  BY <1>1, <1>2, <1>3 DEF ClosedInv, Labels

LEMMA FetchEnds ==
  ASSUME ClosedInv, NEW u \in Users, EndRead(u) PROVE ClosedInv'
<1>1. \A v \in Users \ {u} : upc[v] # "fetch"
  BY DEF ClosedInv, EndRead
<1>2. upc' = [upc EXCEPT ![u] = "idle"] /\ UNCHANGED <<kind, closed, imgMu, imgClosed, done>>
  BY DEF EndRead, UGoto
<1>3. QED
  BY <1>1, <1>2 DEF ClosedInv, Labels

(* The two ways through Image.Close: the second Close waits until nobody holds img.mu, *)
(* which is when the first has closed the handle.                                      *)
LEMMA CloseSteps ==
  ASSUME ClosedInv, NEW u \in Users,
         CloseAgain(u) \/ LockImage(u) \/ CloseHandle(u)
  PROVE  ClosedInv'
<1>1. CASE CloseAgain(u)
  <2>1. closed
    BY <1>1 DEF ClosedInv, CloseAgain, CanLock
  <2>2. upc' = [upc EXCEPT ![u] = "idle"] /\ UNCHANGED <<kind, closed, imgMu, mu, imgClosed>>
    BY <1>1 DEF CloseAgain, UGoto, fileVars
  <2>3. imgClosed
    BY <1>1 DEF CloseAgain
  <2>4. QED
    BY <2>1, <2>2, <2>3 DEF ClosedInv, Labels
<1>2. CASE LockImage(u)
  <2>1. ~done /\ ~closed /\ \A v \in Users : upc[v] # "closing"
    BY <1>2, NobodyAssumption DEF ClosedInv, LockImage, CanLock
  <2>2. /\ upc' = [upc EXCEPT ![u] = "closing"] /\ imgMu' = u /\ imgClosed' = TRUE
        /\ UNCHANGED <<kind, closed, mu, done>>
    BY <1>2 DEF LockImage, UGoto, fileVars
  <2>3. QED
    BY <2>1, <2>2, NobodyAssumption DEF ClosedInv, Labels
<1>3. CASE CloseHandle(u)
  <2>1. imgClosed /\ \A v \in Users \ {u} : upc[v] # "closing"
    BY <1>3 DEF ClosedInv, CloseHandle
  <2>2. \A v \in Users : upc[v] # "fetch"
    BY <1>3, NobodyAssumption DEF ClosedInv, CloseHandle
  <2>3. /\ upc' = [upc EXCEPT ![u] = "idle"] /\ imgMu' = Nobody /\ closed' = TRUE /\ done' = TRUE
        /\ UNCHANGED <<kind, mu, imgClosed>>
    BY <1>3 DEF CloseHandle, UGoto
  <2>4. QED
    BY <2>1, <2>2, <2>3 DEF ClosedInv, Labels
<1>4. QED
  BY <1>1, <1>2, <1>3

LEMMA ImageStep == ClosedInv /\ [ImageNext]_imageVars => ClosedInv'
<1> SUFFICES ASSUME ClosedInv, [ImageNext]_imageVars PROVE ClosedInv'
  OBVIOUS
<1>1. CASE UNCHANGED imageVars
  BY <1>1 DEF ClosedInv, imageVars, fileVars, userVars
<1>2. CASE ImageNext
  <2>1. PICK u \in Users :
          \/ OpenReader(u) \/ StartWalk(u) \/ CallInside(u) \/ BeginRead(u) \/ BeginClose(u)
          \/ Takes(u) \/ Works(u)
    BY <1>2 DEF ImageNext
  <2>2. CASE OpenReader(u)
    BY <2>2 DEF OpenReader, ClosedInv, fileVars
  <2>3. CASE StartWalk(u)
    BY <2>3, PlainStep DEF StartWalk, fileVars, Labels
  <2>4. CASE CallInside(u)
    BY <2>4, PlainStep DEF CallInside, fileVars, Labels
  <2>5. CASE AnswerInside(u)
    BY <2>5, PlainStep DEF AnswerInside, fileVars, Labels
  <2>6. CASE EndWalk(u)
    BY <2>6, PlainStep DEF EndWalk, fileVars, Labels
  <2>7. CASE BeginRead(u)
    BY <2>7, PlainStep DEF BeginRead, fileVars, Labels
  <2>8. CASE ServeRead(u)
    BY <2>8, PlainStep DEF ServeRead, fileVars, Labels
  <2>9. CASE BeginClose(u)
    BY <2>9, PlainStep DEF BeginClose, fileVars, Labels
  <2>10. CASE FetchNextGap(u)
    BY <2>10 DEF FetchNextGap, ClosedInv, fileVars, userVars
  <2>11. CASE LockAndFetch(u)
    BY <2>11, FetchStarts
  <2>12. CASE EndRead(u)
    BY <2>12, FetchEnds
  <2>13. CASE CloseAgain(u) \/ LockImage(u) \/ CloseHandle(u)
    BY <2>13, CloseSteps
  <2>14. QED
    BY <2>1, <2>2, <2>3, <2>4, <2>5, <2>6, <2>7, <2>8, <2>9, <2>10, <2>11, <2>12, <2>13
       DEF Takes, Works
<1>3. QED
  BY <1>1, <1>2

-------------------------------------------------------------------------------
(* When an Image.Close has returned, to whoever closed first or again, the handle is *)
(* closed and no read fetches into its file (image.go:131-157, lazy_handle.go:203).  *)
THEOREM CloseIsFinal == ImageSpec => []ClosedIsFinal
<1>1. ClosedInv => ClosedIsFinal
  BY DEF ClosedInv, ClosedIsFinal
<1>2. QED
  BY ImageStart, ImageStep, <1>1, PTL DEF ImageSpec
===============================================================================
