------------------------------ MODULE FoldProofs ------------------------------
(***************************************************************************)
(* What the operators of Folds compute, for every finite set: a function   *)
(* that follows a recursion over the subsets of a set exists, is the only  *)
(* one, and so are its values.  The induction is by a least counterexample *)
(* in the well-founded order of finite sets, which is first-order.         *)
(***************************************************************************)
EXTENDS Integers, Sequences, SequencesExt, FiniteSetsExt, TLAPS, FiniteSetTheorems

(* f is computed from the value of the set without the element picked. *)
Follows(f, D, pick, step, base) ==
  \A s \in SUBSET D :
    f[s] = IF s = {} THEN base ELSE step[<<pick[s], f[s \ {pick[s]}]>>]

Picks(pick, D) == \A s \in SUBSET D : s # {} => pick[s] \in s

(* A family of subsets of a finite set has a least one. *)
LEMMA LeastSet ==
  ASSUME NEW D, IsFiniteSet(D), NEW X \in SUBSET SUBSET D, X # {}
  PROVE  \E s \in X : \A t \in SUBSET s : t # s => t \notin X
<1>1. X \subseteq FiniteSubsetsOf(D)
  BY FS_FiniteSubsetsOfFinite
<1>2. IsWellFoundedOn(StrictSubsetOrdering(D), FiniteSubsetsOf(D))
  BY FS_StrictSubsetOrderingWellFounded
<1>3. PICK s \in X : \A t \in X : <<t, s>> \notin StrictSubsetOrdering(D)
  BY <1>1, <1>2, WFMin
<1>4. ASSUME NEW t \in SUBSET s, t # s, t \in X PROVE FALSE
  <2>1. <<t, s>> \in (SUBSET D) \X (SUBSET D)
    BY <1>4
  <2>2. <<t, s>> \in StrictSubsetOrdering(D)
    BY <1>4, <2>1 DEF StrictSubsetOrdering
  <2>3. QED
    BY <1>3, <1>4, <2>2
<1>5. QED
  BY <1>4

LEMMA FollowsOnLess ==
  ASSUME NEW f, NEW D, NEW pick, NEW step, NEW base, Follows(f, D, pick, step, base),
         NEW T \in SUBSET D
  PROVE  Follows(f, T, pick, step, base)
BY DEF Follows

LEMMA FollowsUnique ==
  ASSUME NEW D, IsFiniteSet(D), NEW pick, Picks(pick, D), NEW step, NEW base,
         NEW f, Follows(f, D, pick, step, base), NEW g, Follows(g, D, pick, step, base)
  PROVE  f[D] = g[D]
<1> DEFINE X == {s \in SUBSET D : f[s] # g[s]}
<1>1. SUFFICES ASSUME X # {} PROVE FALSE
  OBVIOUS
<1>2. PICK s \in X : \A t \in SUBSET s : t # s => t \notin X
  <2>1. X \in SUBSET SUBSET D
    OBVIOUS
  <2> HIDE DEF X
  <2>2. QED
    BY <1>1, <2>1, LeastSet
<1>3. s # {}
  BY DEF Follows
<1>4. pick[s] \in s
  BY <1>3 DEF Picks
<1>5. f[s \ {pick[s]}] = g[s \ {pick[s]}]
  BY <1>2, <1>4
<1>6. QED
  BY <1>3, <1>5 DEF Follows

LEMMA FollowsExists ==
  ASSUME NEW D, IsFiniteSet(D), NEW pick, Picks(pick, D),
         NEW V, NEW base \in V, NEW step \in [D \X V -> V]
  PROVE  \E f \in [SUBSET D -> V] : Follows(f, D, pick, step, base)
<1> DEFINE Done(T) == \E f \in [SUBSET T -> V] : Follows(f, T, pick, step, base)
           X == {T \in SUBSET D : ~Done(T)}
<1>1. SUFFICES ASSUME X # {} PROVE FALSE
  OBVIOUS
<1>2. PICK T \in X : \A U \in SUBSET T : U # T => U \notin X
  <2>1. X \in SUBSET SUBSET D
    OBVIOUS
  <2> HIDE DEF X
  <2>2. QED
    BY <1>1, <2>1, LeastSet
<1> DEFINE g(U) == CHOOSE f \in [SUBSET U -> V] : Follows(f, U, pick, step, base)
           rest(s) == s \ {pick[s]}
           F == [s \in SUBSET T |-> IF s = {} THEN base ELSE step[<<pick[s], g(rest(s))[rest(s)]>>]]
<1>3. ASSUME NEW U \in SUBSET T, U # T
      PROVE  g(U) \in [SUBSET U -> V] /\ Follows(g(U), U, pick, step, base)
  <2>1. Done(U)
    BY <1>2, <1>3
  <2>2. QED
    BY <2>1
<1>4. ASSUME NEW s \in SUBSET T, s # {}
      PROVE  pick[s] \in s /\ rest(s) \in SUBSET T /\ rest(s) # T /\ rest(s) \in SUBSET s
  BY <1>4 DEF Picks
<1> HIDE DEF g
<1>5. F \in [SUBSET T -> V]
  <2>1. ASSUME NEW s \in SUBSET T, s # {} PROVE step[<<pick[s], g(rest(s))[rest(s)]>>] \in V
    <3> DEFINE u == rest(s)
    <3>0. u \in SUBSET T /\ u # T
      BY <1>4, <2>1
    <3> HIDE DEF u
    <3>a. g(u) \in [SUBSET u -> V] /\ u \in SUBSET u
      BY <1>3, <3>0
    <3>b. g(u)[u] \in V
      BY <3>a
    <3>1. g(rest(s))[rest(s)] \in V
      BY <3>b DEF u
    <3>2. pick[s] \in D
      BY <1>4, <2>1
    <3>3. QED
      BY <3>1, <3>2
  <2>2. QED
    BY <2>1
<1>a. \A s \in SUBSET T : F[s] = IF s = {} THEN base ELSE step[<<pick[s], g(rest(s))[rest(s)]>>]
  OBVIOUS
<1> HIDE DEF F
<1>6. ASSUME NEW s \in SUBSET T, s # {} PROVE F[rest(s)] = g(rest(s))[rest(s)]
  <2> DEFINE u == rest(s)
             v == rest(u)
  <2>1. u \in SUBSET T /\ u # T /\ Follows(g(u), u, pick, step, base)
    BY <1>3, <1>4, <1>6
  <2>2. CASE u = {}
    BY <1>a, <2>1, <2>2 DEF Follows
  <2>3. CASE u # {}
    <3>1. v \in SUBSET T /\ v # T /\ v \in SUBSET u /\ Follows(g(v), v, pick, step, base)
      BY <1>3, <1>4, <2>1, <2>3
    <3>2. Follows(g(u), v, pick, step, base)
      BY <2>1, <3>1, FollowsOnLess
    <3>3. IsFiniteSet(v) /\ Picks(pick, v)
      BY <3>1, FS_Subset DEF Picks
    <3>4. g(u)[v] = g(v)[v]
      <4> HIDE DEF v
      <4> DEFINE a == g(u)
                 b == g(v)
      <4>1. Follows(a, v, pick, step, base) /\ Follows(b, v, pick, step, base)
        BY <3>1, <3>2
      <4> HIDE DEF a, b
      <4>2. a[v] = b[v]
        BY <3>3, <4>1, FollowsUnique
      <4>3. QED
        BY <4>2 DEF a, b
    <3>5. F[u] = step[<<pick[u], g(v)[v]>>]
      BY <1>a, <2>1, <2>3
    <3>6. g(u)[u] = step[<<pick[u], g(u)[v]>>]
      BY <2>1, <2>3 DEF Follows
    <3>7. QED
      BY <3>4, <3>5, <3>6
  <2>4. QED
    BY <2>2, <2>3
<1>7. Follows(F, T, pick, step, base)
  <2> SUFFICES ASSUME NEW s \in SUBSET T
               PROVE  F[s] = IF s = {} THEN base ELSE step[<<pick[s], F[s \ {pick[s]}]>>]
    BY DEF Follows
  <2>1. QED
    BY <1>a, <1>6
<1>8. Done(T)
  BY <1>5, <1>7
<1>9. QED
  BY <1>2, <1>8

-------------------------------------------------------------------------------
(* Sums *)

SumOver(w, S) == MapThenSumSet(LAMBDA x : w[x], S)

Chosen(s) == CHOOSE x \in s : TRUE

SumsUp(f, w, S) ==
  f = [s \in SUBSET S |-> IF s = {} THEN 0 ELSE w[Chosen(s)] + f[s \ {Chosen(s)}]]

Integral(w, S) == IsFiniteSet(S) /\ \A x \in S : w[x] \in Int

ChosenFrom(S) == [s \in SUBSET S |-> Chosen(s)]
Addition(w, S) == [p \in S \X Int |-> w[p[1]] + p[2]]

LEMMA ChosenPicks == ASSUME NEW S PROVE Picks(ChosenFrom(S), S)
BY DEF Picks, ChosenFrom, Chosen

LEMMA SumIntegral ==
  ASSUME NEW S, NEW w, Integral(w, S), NEW f, SumsUp(f, w, S), NEW T \in SUBSET S
  PROVE  f[T] \in Int
<1> DEFINE X == {s \in SUBSET S : f[s] \notin Int}
<1>1. SUFFICES ASSUME X # {} PROVE FALSE
  OBVIOUS
<1>2. PICK s \in X : \A t \in SUBSET s : t # s => t \notin X
  <2>1. X \in SUBSET SUBSET S
    OBVIOUS
  <2> HIDE DEF X
  <2>2. QED
    BY <1>1, <2>1, LeastSet DEF Integral
<1>3. f[s] = IF s = {} THEN 0 ELSE w[Chosen(s)] + f[s \ {Chosen(s)}]
  BY DEF SumsUp
<1>4. s # {} => Chosen(s) \in s
  BY DEF Chosen
<1>5. s # {} => f[s \ {Chosen(s)}] \in Int
  BY <1>2, <1>4
<1>6. QED
  BY <1>2, <1>3, <1>4, <1>5 DEF Integral

LEMMA SumFollows ==
  ASSUME NEW S, NEW w, Integral(w, S), NEW f, SumsUp(f, w, S), NEW T \in SUBSET S
  PROVE  Follows(f, T, ChosenFrom(S), Addition(w, S), 0)
<1> SUFFICES ASSUME NEW s \in SUBSET T, s # {}
             PROVE  f[s] = Addition(w, S)[<<ChosenFrom(S)[s], f[s \ {ChosenFrom(S)[s]}]>>]
  BY DEF Follows, SumsUp
<1> DEFINE c == Chosen(s)
           v == f[s \ {c}]
<1>1. ChosenFrom(S)[s] = c /\ c \in s
  BY DEF ChosenFrom, Chosen
<1>2. v \in Int
  BY <1>1, SumIntegral
<1>3. f[s] = w[c] + v
  BY DEF SumsUp
<1> HIDE DEF c, v
<1>4. Addition(w, S)[<<c, v>>] = w[c] + v
  BY <1>1, <1>2 DEF Addition
<1>5. QED
  BY <1>1, <1>3, <1>4 DEF v

LEMMA SumExists ==
  ASSUME NEW S, NEW w, Integral(w, S) PROVE \E f : SumsUp(f, w, S)
<1>1. Addition(w, S) \in [S \X Int -> Int]
  BY DEF Addition, Integral
<1>2. PICK f \in [SUBSET S -> Int] : Follows(f, S, ChosenFrom(S), Addition(w, S), 0)
  <2> DEFINE step == Addition(w, S)
             pick == ChosenFrom(S)
  <2>1. IsFiniteSet(S) /\ Picks(pick, S) /\ step \in [S \X Int -> Int] /\ 0 \in Int
    BY <1>1, ChosenPicks DEF Integral
  <2> HIDE DEF step, pick
  <2>2. \E f \in [SUBSET S -> Int] : Follows(f, S, pick, step, 0)
    BY <2>1, FollowsExists
  <2>3. QED
    BY <2>2 DEF step, pick
<1>3. ASSUME NEW s \in SUBSET S, s # {} PROVE f[s] = w[Chosen(s)] + f[s \ {Chosen(s)}]
  <2> DEFINE c == Chosen(s)
             v == f[s \ {c}]
  <2>1. ChosenFrom(S)[s] = c /\ c \in s
    BY <1>3 DEF ChosenFrom, Chosen
  <2>2. v \in Int
    OBVIOUS
  <2>3. f[s] = Addition(w, S)[<<c, v>>]
    BY <1>2, <1>3, <2>1 DEF Follows
  <2> HIDE DEF c, v
  <2>4. Addition(w, S)[<<c, v>>] = w[c] + v
    BY <2>1, <2>2 DEF Addition
  <2>5. QED
    BY <2>3, <2>4 DEF c, v
<1>4. f[{}] = 0
  BY <1>2 DEF Follows
<1>5. SumsUp(f, w, S)
  BY <1>3, <1>4 DEF SumsUp
<1>6. QED
  BY <1>5

LEMMA SumUnique ==
  ASSUME NEW S, NEW w, Integral(w, S), NEW f, SumsUp(f, w, S),
         NEW T \in SUBSET S, NEW g, SumsUp(g, w, T)
  PROVE  f[T] = g[T]
<1>1. IsFiniteSet(T) /\ Integral(w, T)
  BY FS_Subset DEF Integral
<1>2. Follows(f, T, ChosenFrom(S), Addition(w, S), 0)
  BY SumFollows
<1>3. Follows(g, T, ChosenFrom(S), Addition(w, S), 0)
  <2> SUFFICES ASSUME NEW s \in SUBSET T, s # {}
               PROVE  g[s] = Addition(w, S)[<<ChosenFrom(S)[s], g[s \ {ChosenFrom(S)[s]}]>>]
    BY DEF Follows, SumsUp
  <2> DEFINE c == Chosen(s)
             v == g[s \ {c}]
  <2>1. ChosenFrom(S)[s] = c /\ c \in s
    BY DEF ChosenFrom, Chosen
  <2>2. v \in Int
    BY <1>1, <2>1, SumIntegral
  <2>3. g[s] = w[c] + v
    BY DEF SumsUp
  <2> HIDE DEF c, v
  <2>4. Addition(w, S)[<<c, v>>] = w[c] + v
    BY <2>1, <2>2 DEF Addition
  <2>5. QED
    BY <2>1, <2>3, <2>4 DEF v
<1>4. Picks(ChosenFrom(S), T)
  BY ChosenPicks DEF Picks
<1>5. QED
  BY <1>1, <1>2, <1>3, <1>4, FollowsUnique

LEMMA SumIs ==
  ASSUME NEW S, NEW w, Integral(w, S), NEW f, SumsUp(f, w, S)
  PROVE  SumOver(w, S) = f[S]
<1>1. PICK g : SumsUp(g, w, S) /\ SumOver(w, S) = g[S]
  BY DEF SumOver, MapThenSumSet, MapThenFoldSet, SumsUp, Chosen
<1>2. g[S] = f[S]
  BY <1>1, SumUnique
<1>3. QED
  BY <1>1, <1>2

LEMMA SumType ==
  ASSUME NEW S, NEW w, Integral(w, S) PROVE SumOver(w, S) \in Int
BY SumExists, SumIs, SumIntegral

LEMMA SumNone == ASSUME NEW w PROVE SumOver(w, {}) = 0
<1>1. Integral(w, {})
  BY FS_EmptySet DEF Integral
<1>2. PICK f : SumsUp(f, w, {})
  BY <1>1, SumExists
<1>3. SumOver(w, {}) = f[{}]
  BY <1>1, <1>2, SumIs
<1>4. QED
  BY <1>2, <1>3 DEF SumsUp

LEMMA SumLess ==
  ASSUME NEW S, NEW w, Integral(w, S), S # {}
  PROVE  /\ Chosen(S) \in S
         /\ SumOver(w, S) = w[Chosen(S)] + SumOver(w, S \ {Chosen(S)})
<1> DEFINE T == S \ {Chosen(S)}
<1>1. Chosen(S) \in S /\ T \in SUBSET S
  BY DEF Chosen
<1>2. PICK f : SumsUp(f, w, S)
  BY SumExists
<1>3. Integral(w, T)
  BY FS_Subset DEF Integral
<1>4. PICK g : SumsUp(g, w, T)
  <2> HIDE DEF T
  <2>1. QED
    BY <1>3, SumExists
<1>5. SumOver(w, S) = f[S] /\ SumOver(w, T) = g[T] /\ f[T] = g[T]
  <2> HIDE DEF T
  <2>1. QED
    BY <1>1, <1>2, <1>3, <1>4, SumIs, SumUnique
<1>6. f[S] = w[Chosen(S)] + f[T]
  BY <1>2 DEF SumsUp
<1>7. QED
  BY <1>1, <1>5, <1>6

(* A sum does not depend on the order: any element may be taken first. *)
LEMMA SumTake ==
  ASSUME NEW S, NEW w, Integral(w, S)
  PROVE  \A x \in S : SumOver(w, S) = w[x] + SumOver(w, S \ {x})
<1> DEFINE X == {T \in SUBSET S : \E x \in T : SumOver(w, T) # w[x] + SumOver(w, T \ {x})}
<1>1. SUFFICES ASSUME X # {} PROVE FALSE
  OBVIOUS
<1>2. PICK T \in X : \A t \in SUBSET T : t # T => t \notin X
  <2>1. X \in SUBSET SUBSET S
    OBVIOUS
  <2> HIDE DEF X
  <2>2. QED
    BY <1>1, <2>1, LeastSet DEF Integral
<1>3. ASSUME NEW t \in SUBSET S PROVE Integral(w, t) /\ SumOver(w, t) \in Int
  <2>1. Integral(w, t)
    BY FS_Subset DEF Integral
  <2>2. QED
    BY <2>1, SumType
<1>4. PICK x \in T : SumOver(w, T) # w[x] + SumOver(w, T \ {x})
  BY <1>2
<1> DEFINE c == Chosen(T)
<1>5. c \in T /\ SumOver(w, T) = w[c] + SumOver(w, T \ {c})
  BY <1>2, <1>3, SumLess
<1> HIDE DEF c
<1>6. c # x
  BY <1>4, <1>5
<1> DEFINE R == (T \ {c}) \ {x}
<1>7. SumOver(w, T \ {c}) = w[x] + SumOver(w, R)
  <2>1. T \ {c} \in SUBSET T /\ T \ {c} # T /\ x \in T \ {c}
    BY <1>4, <1>5, <1>6
  <2>2. QED
    BY <1>2, <2>1
<1>8. SumOver(w, T \ {x}) = w[c] + SumOver(w, (T \ {x}) \ {c})
  <2>1. T \ {x} \in SUBSET T /\ T \ {x} # T /\ c \in T \ {x}
    BY <1>4, <1>5, <1>6
  <2>2. QED
    BY <1>2, <2>1
<1>9. SumOver(w, (T \ {x}) \ {c}) = SumOver(w, R)
  <2>1. (T \ {x}) \ {c} = R
    OBVIOUS
  <2>2. QED
    BY <2>1, Zenon
<1>10. w[c] \in Int /\ w[x] \in Int /\ SumOver(w, R) \in Int
  <2>1. c \in S /\ x \in S /\ R \in SUBSET S
    BY <1>5
  <2> HIDE DEF R
  <2>2. SumOver(w, R) \in Int
    BY <1>3, <2>1
  <2>3. QED
    BY <2>1, <2>2 DEF Integral
<1> HIDE DEF R
<1>11. SumOver(w, T) = w[c] + (w[x] + SumOver(w, R))
  BY <1>5, <1>7
<1>12. SumOver(w, T \ {x}) = w[c] + SumOver(w, R)
  BY <1>8, <1>9
<1>13. QED
  BY <1>4, <1>10, <1>11, <1>12

LEMMA SumAdd ==
  ASSUME NEW S, NEW w, NEW x, x \notin S, Integral(w, S), w[x] \in Int
  PROVE  Integral(w, S \cup {x}) /\ SumOver(w, S \cup {x}) = SumOver(w, S) + w[x]
<1> DEFINE T == S \cup {x}
<1>1. Integral(w, T)
  BY FS_AddElement DEF Integral
<1>2. x \in T /\ T \ {x} = S
  OBVIOUS
<1>3. SumOver(w, T) = w[x] + SumOver(w, T \ {x})
  <2> HIDE DEF T
  <2>1. \A y \in T : SumOver(w, T) = w[y] + SumOver(w, T \ {y})
    BY <1>1, SumTake
  <2>2. QED
    BY <1>2, <2>1
<1>4. SumOver(w, S) \in Int
  BY SumType
<1>5. SumOver(w, T \ {x}) = SumOver(w, S)
  BY <1>2, Zenon
<1> HIDE DEF T
<1>6. Integral(w, T) /\ SumOver(w, T) = SumOver(w, S) + w[x]
  BY <1>1, <1>3, <1>4, <1>5
<1>7. QED
  BY <1>6 DEF T

LEMMA SumNat ==
  ASSUME NEW S, NEW w, IsFiniteSet(S), \A x \in S : w[x] \in Nat
  PROVE  Integral(w, S) /\ SumOver(w, S) \in Nat
<1> DEFINE X == {T \in SUBSET S : SumOver(w, T) \notin Nat}
<1>1. ASSUME X # {} PROVE FALSE
  <2>1. PICK T \in X : \A t \in SUBSET T : t # T => t \notin X
    <3>1. X \in SUBSET SUBSET S
      OBVIOUS
    <3> HIDE DEF X
    <3>2. QED
      BY <1>1, <3>1, LeastSet
  <2>2. Integral(w, T)
    BY FS_Subset DEF Integral
  <2>3. T # {}
    BY SumNone
  <2>4. Chosen(T) \in T /\ SumOver(w, T) = w[Chosen(T)] + SumOver(w, T \ {Chosen(T)})
    BY <2>2, <2>3, SumLess
  <2>5. SumOver(w, T \ {Chosen(T)}) \in Nat
    <3> DEFINE U == T \ {Chosen(T)}
    <3>1. U \in SUBSET T /\ U # T
      BY <2>4
    <3> HIDE DEF U
    <3>2. SumOver(w, U) \in Nat
      BY <2>1, <3>1
    <3>3. QED
      BY <3>2 DEF U
  <2>6. w[Chosen(T)] \in Nat
    BY <2>4
  <2> HIDE DEF X
  <2>7. SumOver(w, T) \in Nat
    BY <2>4, <2>5, <2>6
  <2>8. QED
    BY <2>7 DEF X
<1>2. QED
  BY <1>1 DEF Integral

LEMMA SumMonotone ==
  ASSUME NEW S, NEW w, IsFiniteSet(S), \A x \in S : w[x] \in Nat, NEW T \in SUBSET S
  PROVE  SumOver(w, T) <= SumOver(w, S)
<1> DEFINE X == {U \in SUBSET S : \E V \in SUBSET U : ~(SumOver(w, V) <= SumOver(w, U))}
<1>1. SUFFICES ASSUME X # {} PROVE FALSE
  OBVIOUS
<1>2. PICK U \in X : \A t \in SUBSET U : t # U => t \notin X
  <2>1. X \in SUBSET SUBSET S
    OBVIOUS
  <2> HIDE DEF X
  <2>2. QED
    BY <1>1, <2>1, LeastSet
<1>3. PICK V \in SUBSET U : ~(SumOver(w, V) <= SumOver(w, U))
  BY <1>2
<1>4. \A t \in SUBSET S : Integral(w, t) /\ SumOver(w, t) \in Nat
  <2> SUFFICES ASSUME NEW t \in SUBSET S PROVE Integral(w, t) /\ SumOver(w, t) \in Nat
    OBVIOUS
  <2>1. IsFiniteSet(t) /\ \A x \in t : w[x] \in Nat
    BY FS_Subset
  <2>2. QED
    BY <2>1, SumNat
<1>5. V # U
  BY <1>3, <1>4
<1>6. PICK x \in U : x \notin V
  BY <1>5
<1> DEFINE R == U \ {x}
<1>7. R \in SUBSET U /\ R # U /\ V \in SUBSET R
  BY <1>6
<1>8. SumOver(w, U) = w[x] + SumOver(w, R)
  BY <1>4, SumTake
<1> HIDE DEF R
<1>9. SumOver(w, V) <= SumOver(w, R)
  BY <1>2, <1>7
<1>10. SumOver(w, R) \in Nat /\ SumOver(w, V) \in Nat /\ w[x] \in Nat
  BY <1>4, <1>7
<1>11. QED
  BY <1>3, <1>8, <1>9, <1>10

LEMMA SumSame ==
  ASSUME NEW S, NEW w, NEW v, Integral(w, S), \A x \in S : w[x] = v[x]
  PROVE  SumOver(w, S) = SumOver(v, S)
<1>1. PICK f : SumsUp(f, w, S)
  BY SumExists
<1>2. \A s \in SUBSET S : s # {} => w[Chosen(s)] = v[Chosen(s)]
  BY DEF Chosen
<1>3. SumsUp(f, v, S)
  BY <1>1, <1>2 DEF SumsUp
<1>4. Integral(v, S)
  BY DEF Integral
<1>5. QED
  BY <1>1, <1>3, <1>4, SumIs

-------------------------------------------------------------------------------
(* Folds of sequences *)

LEMMA LeastNumber ==
  ASSUME NEW X \in SUBSET Nat, X # {}
  PROVE  \E n \in X : \A m \in X : n <= m
<1>1. PICK n \in X : \A m \in X : <<m, n>> \notin OpToRel(<, Nat)
  BY NatLessThanWellFounded, WFMin
<1>2. ASSUME NEW m \in X PROVE n <= m
  <2>1. <<m, n>> \in Nat \X Nat
    OBVIOUS
  <2>2. ~(m < n)
    BY <1>1, <2>1 DEF OpToRel
  <2>3. QED
    BY <2>2
<1>3. QED
  BY <1>2

LEMMA HasMax ==
  ASSUME NEW S \in SUBSET Int, IsFiniteSet(S), S # {}
  PROVE  Max(S) \in S /\ \A y \in S : Max(S) >= y
<1> DEFINE X == {T \in SUBSET S : T # {} /\ \A x \in T : \E y \in T : ~(x >= y)}
<1>1. ASSUME X # {} PROVE FALSE
  <2>1. PICK T \in X : \A t \in SUBSET T : t # T => t \notin X
    <3>1. X \in SUBSET SUBSET S
      OBVIOUS
    <3> HIDE DEF X
    <3>2. QED
      BY <1>1, <3>1, LeastSet
  <2>2. PICK x \in T : TRUE
    OBVIOUS
  <2>3. T \ {x} # {}
    <3>1. PICK y \in T : ~(x >= y)
      BY <2>2
    <3>2. y # x
      BY <3>1, <2>2
    <3>3. QED
      BY <3>1, <3>2
  <2>4. T \ {x} \notin X
    BY <2>1, <2>2
  <2>5. PICK m \in T \ {x} : \A y \in T \ {x} : m >= y
    BY <2>3, <2>4
  <2>6. m \in Int /\ x \in Int /\ T \subseteq Int
    OBVIOUS
  <2>7. CASE m >= x
    <3>1. \A y \in T : m >= y
      BY <2>5, <2>7
    <3>2. QED
      BY <2>5, <3>1
  <2>8. CASE ~(m >= x)
    <3>1. ASSUME NEW y \in T PROVE x >= y
      <4>1. CASE y = x
        BY <2>6, <4>1
      <4>2. CASE y # x
        <5>1. m >= y /\ y \in Int
          BY <2>5, <4>2
        <5>2. QED
          BY <2>6, <2>8, <5>1
      <4>3. QED
        BY <4>1, <4>2
    <3>2. QED
      BY <2>2, <3>1
  <2>9. QED
    BY <2>7, <2>8
<1>2. \E x \in S : \A y \in S : x >= y
  BY <1>1
<1>3. QED
  BY <1>2 DEF Max

LEMMA MaxOfPrefix == ASSUME NEW k \in Nat, k # 0 PROVE Max(1..k) = k /\ (1..k) \ {k} = 1..k - 1
<1>1. IsFiniteSet(1..k) /\ 1..k \subseteq Int /\ k \in 1..k
  BY FS_Interval
<1>2. Max(1..k) \in 1..k /\ Max(1..k) >= k
  BY <1>1, HasMax
<1>3. QED
  BY <1>2

Steps(step, n, V) == step \in [(1..n) \X V -> V]

(* The function that FoldLeft recurs with: of the set of the first k places, its value *)
(* is that of the fold of the first k elements.                                        *)
FoldsLeft(f, n, V, step, base) ==
  /\ f \in [SUBSET (1..n) -> V]
  /\ \A s \in SUBSET (1..n) : f[s] = IF s = {} THEN base ELSE step[<<Max(s), f[s \ {Max(s)}]>>]

LEMMA FoldExists ==
  ASSUME NEW n \in Nat, NEW V, NEW base \in V, NEW step, Steps(step, n, V)
  PROVE  \E f : /\ FoldsLeft(f, n, V, step, base)
               /\ \A s \in SUBSET (1..n) : s # {} => Max(s) \in 1..n /\ f[s \ {Max(s)}] \in V
<1> DEFINE D == 1..n
           last == [s \in SUBSET D |-> Max(s)]
<1>1. IsFiniteSet(D) /\ D \subseteq Int
  BY FS_Interval
<1>2. Picks(last, D)
  <2> SUFFICES ASSUME NEW s \in SUBSET D, s # {} PROVE Max(s) \in s
    BY DEF Picks
  <2>1. IsFiniteSet(s) /\ s \in SUBSET Int
    BY <1>1, FS_Subset
  <2>2. QED
    BY <2>1, HasMax
<1> HIDE DEF last
<1>3. PICK f \in [SUBSET D -> V] : Follows(f, D, last, step, base)
  <2> HIDE DEF D
  <2>1. step \in [D \X V -> V]
    BY DEF D, Steps
  <2>2. QED
    BY <1>1, <1>2, <2>1, FollowsExists
<1>4. \A s \in SUBSET D : last[s] = Max(s)
  BY DEF last
<1>5. FoldsLeft(f, n, V, step, base)
  BY <1>3, <1>4 DEF Follows, FoldsLeft
<1>6. ASSUME NEW s \in SUBSET D, s # {} PROVE Max(s) \in D /\ f[s \ {Max(s)}] \in V
  <2>1. Max(s) \in s
    BY <1>2, <1>4, <1>6 DEF Picks
  <2>2. s \ {Max(s)} \in SUBSET D
    OBVIOUS
  <2>3. QED
    BY <1>3, <2>1, <2>2
<1>7. QED
  BY <1>5, <1>6

(* Its values for the prefixes. *)
LEMMA FoldsPrefixes ==
  ASSUME NEW n \in Nat, NEW k \in 1..n
  PROVE  /\ 1..k \in SUBSET (1..n) /\ 1..k # {}
         /\ Max(1..k) = k /\ (1..k) \ {Max(1..k)} = 1..k - 1
<1>1. k \in Nat /\ k # 0 /\ k \in 1..k
  OBVIOUS
<1>2. 1..k \in SUBSET (1..n) /\ 1..k # {}
  BY <1>1
<1>3. Max(1..k) = k /\ (1..k) \ {k} = 1..k - 1
  BY <1>1, MaxOfPrefix
<1>4. QED
  BY <1>2, <1>3, Zenon

(* An element for every place, and for every element a place. *)
LEMMA OrderOf ==
  ASSUME NEW S, IsFiniteSet(S), NEW order \in SetToSeqs(S)
  PROVE  /\ Cardinality(S) \in Nat
         /\ order \in [1..Cardinality(S) -> S]
         /\ \A i, j \in 1..Cardinality(S) : order[i] = order[j] => i = j
         /\ \A x \in S : \E i \in 1..Cardinality(S) : order[i] = x
<1> DEFINE n == Cardinality(S)
<1>1. n \in Nat /\ IsFiniteSet(1..n) /\ Cardinality(1..n) = n
  BY FS_CardinalityType, FS_Interval
<1>2. order \in [1..n -> S] /\ \A i, j \in 1..n : i # j => order[i] # order[j]
  BY DEF SetToSeqs
<1> HIDE DEF n
<1>3. order \in Injection(1..n, S)
  BY <1>2 DEF Injection, IsInjective
<1>4. order \in Surjection(1..n, S)
  BY <1>1, <1>3, FS_Injection DEF n
<1>5. \A x \in S : \E i \in 1..n : order[i] = x
  BY <1>4 DEF Surjection
<1>6. QED
  BY <1>1, <1>2, <1>5 DEF n
===============================================================================
