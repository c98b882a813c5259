-------------------------- MODULE DownloadsProofs ---------------------------
(***************************************************************************)
(* Proofs about Downloads, for any versions, crates, log files, lines,     *)
(* workers and bounds: from the lines of the log files to the totals, no   *)
(* download is lost or counted twice.  And about CrateView, for any        *)
(* versions and changes: what a response shows fits together.              *)
(*                                                                         *)
(* Sums and folds are recursive.  What they are for every input is proved  *)
(* by the smallest counterexample: the strict subsets of a finite set are  *)
(* well-founded, so a set of finite sets that is not empty has a smallest  *)
(* member.                                                                 *)
(***************************************************************************)
EXTENDS Downloads, CrateView, FiniteSetTheorems, WellFoundedInduction, TLAPS

-----------------------------------------------------------------------------
(* Sums over finite sets, by the smallest set that would be wrong.         *)

\* Among sets of subsets of a finite set, one is smallest.
LEMMA SmallestSubset ==
  ASSUME NEW S, IsFiniteSet(S), NEW C \in SUBSET SUBSET S, C # {}
  PROVE  \E T \in C : \A U \in C : U \subseteq T => U = T
  <1>1. IsWellFoundedOn(StrictSubsetOrdering(S), SUBSET S)
    BY FS_FiniteSubsetsOfFinite, FS_StrictSubsetOrderingWellFounded
  <1>2. PICK T \in C : \A U \in C : <<U, T>> \notin StrictSubsetOrdering(S)
    BY <1>1, WFMin
  <1>3. ASSUME NEW U \in C, U \subseteq T, U # T PROVE FALSE
    BY <1>2, <1>3 DEF StrictSubsetOrdering
  <1> QED
    BY <1>3

\* The element that a sum takes first
Pick(s) == CHOOSE x \in s : TRUE
\* g has the sums of f over the subsets of S.
Partial(g, f, S) ==
  g = [s \in SUBSET S |-> IF s = {} THEN 0 ELSE f[Pick(s)] + g[s \ {Pick(s)}]]

\* Two such functions agree where both have a sum.
LEMMA PartialUnique ==
  ASSUME NEW f, NEW S, IsFiniteSet(S), NEW T, NEW g, NEW h, Partial(g, f, S), Partial(h, f, T),
         NEW s \in SUBSET S, s \subseteq T
  PROVE  g[s] = h[s]
  <1> DEFINE C == {u \in SUBSET S : u \subseteq T /\ g[u] # h[u]}
  <1>1. SUFFICES ASSUME C # {} PROVE FALSE
    OBVIOUS
  <1>2. PICK u \in C : \A w \in C : w \subseteq u => w = u
    <2> HIDE DEF C
    <2>1. C \in SUBSET SUBSET S
      BY DEF C
    <2> QED
      BY <1>1, <2>1, SmallestSubset
  <1>3. u # {}
    BY DEF Partial
  <1>4. Pick(u) \in u
    BY <1>3 DEF Pick
  <1>5. g[u \ {Pick(u)}] = h[u \ {Pick(u)}]
    BY <1>2, <1>4
  <1>6. g[u] = f[Pick(u)] + g[u \ {Pick(u)}] /\ h[u] = f[Pick(u)] + h[u \ {Pick(u)}]
    BY <1>3 DEF Partial
  <1> QED
    BY <1>5, <1>6

\* There is such a function for every finite set.
LEMMA PartialExists ==
  ASSUME NEW f, NEW S, IsFiniteSet(S)
  PROVE  \E g : Partial(g, f, S)
  <1> DEFINE C == {u \in SUBSET S : ~ \E g : Partial(g, f, u)}
  <1>1. SUFFICES ASSUME C # {} PROVE FALSE
    OBVIOUS
  <1>2. PICK u \in C : \A w \in C : w \subseteq u => w = u
    <2> HIDE DEF C
    <2>1. C \in SUBSET SUBSET S
      BY DEF C
    <2> QED
      BY <1>1, <2>1, SmallestSubset
  <1> DEFINE G(w) == CHOOSE g : Partial(g, f, w)
             V(s) == IF s = {} THEN 0 ELSE f[Pick(s)] + G(s \ {Pick(s)})[s \ {Pick(s)}]
             h == [s \in SUBSET u |-> V(s)]
  <1>3. \A w \in SUBSET u : w # u => Partial(G(w), f, w)
    BY <1>2
  <1> HIDE DEF G
  <1>4. ASSUME NEW s \in SUBSET u, s # {} PROVE h[s] = f[Pick(s)] + h[s \ {Pick(s)}]
    <2>1. Pick(s) \in s
      BY <1>4 DEF Pick
    <2> DEFINE r == s \ {Pick(s)}
    <2>2. Partial(G(r), f, r)
      BY <1>3, <2>1
    <2>3. CASE r = {}
      <3>1. G(r)[r] = 0
        BY <2>2, <2>3 DEF Partial
      <3> QED
        BY <1>4, <2>3, <3>1
    <2>4. CASE r # {}
      <3>1. Pick(r) \in r
        BY <2>4 DEF Pick
      <3> DEFINE q == r \ {Pick(r)}
      <3>2. Partial(G(q), f, q)
        BY <1>3, <2>1
      <3>3. G(r)[r] = f[Pick(r)] + G(r)[q]
        BY <2>2, <2>4 DEF Partial
      <3>4. IsFiniteSet(q) /\ q \subseteq r
        BY FS_Subset
      <3>5. G(q)[q] = G(r)[q]
        <4> HIDE DEF q, r
        <4> QED
          BY <2>2, <3>2, <3>4, PartialUnique
      <3> QED
        BY <1>4, <2>4, <3>3, <3>5
    <2> QED
      BY <2>3, <2>4
  <1>5. Partial(h, f, u)
    <2>1. ASSUME NEW s \in SUBSET u
          PROVE  h[s] = IF s = {} THEN 0 ELSE f[Pick(s)] + h[s \ {Pick(s)}]
      BY <1>4
    <2> QED
      BY <2>1 DEF Partial
  <1> QED
    BY <1>2, <1>5

\* SumOf is the value such a function has.
LEMMA SumIs ==
  ASSUME NEW f, NEW S, IsFiniteSet(S), NEW g, Partial(g, f, S)
  PROVE  SumOf(f, S) = g[S]
  <1> DEFINE h == CHOOSE h : h = [s \in SUBSET S |->
                      IF s = {} THEN 0 ELSE f[Pick(s)] + h[s \ {Pick(s)}]]
  <1>1. SumOf(f, S) = h[S]
    BY DEF SumOf, MapThenSumSet, MapThenFoldSet, Pick
  <1>2. Partial(h, f, S)
    BY DEF Partial
  <1> HIDE DEF h
  <1> QED
    BY <1>1, <1>2, PartialUnique

\* The empty sum is 0.
LEMMA SumEmpty == \A f : SumOf(f, {}) = 0
  <1> TAKE f
  <1>1. IsFiniteSet({})
    BY FS_EmptySet
  <1>2. PICK g : Partial(g, f, {})
    BY <1>1, PartialExists
  <1> QED
    BY <1>1, <1>2, SumIs DEF Partial

\* A sum is one of its elements and the sum of the others.
LEMMA SumStep ==
  ASSUME NEW f, NEW S, IsFiniteSet(S), S # {}
  PROVE  Pick(S) \in S /\ SumOf(f, S) = f[Pick(S)] + SumOf(f, S \ {Pick(S)})
  <1>1. Pick(S) \in S
    BY DEF Pick
  <1> DEFINE T == S \ {Pick(S)}
  <1>2. IsFiniteSet(T)
    BY FS_Subset
  <1>3. PICK g : Partial(g, f, S)
    BY PartialExists
  <1>4. PICK h : Partial(h, f, T)
    BY <1>2, PartialExists
  <1>5. SumOf(f, S) = g[S] /\ SumOf(f, T) = h[T]
    <2> HIDE DEF T
    <2> QED
      BY <1>2, <1>3, <1>4, SumIs
  <1>6. g[T] = h[T]
    <2>1. T \subseteq S
      OBVIOUS
    <2> HIDE DEF T
    <2> QED
      BY <2>1, <1>3, <1>4, PartialUnique
  <1>7. g[S] = f[Pick(S)] + g[T]
    BY <1>3 DEF Partial
  <1> QED
    BY <1>1, <1>5, <1>6, <1>7

\* A sum of integers is one.
LEMMA SumType ==
  ASSUME NEW f, NEW S, IsFiniteSet(S), \A x \in S : f[x] \in Int
  PROVE  SumOf(f, S) \in Int
  <1> DEFINE C == {T \in SUBSET S : SumOf(f, T) \notin Int}
  <1>1. SUFFICES ASSUME C # {} PROVE FALSE
    OBVIOUS
  <1>2. PICK T \in C : \A U \in C : U \subseteq T => U = T
    <2>1. C \in SUBSET SUBSET S
      OBVIOUS
    <2> HIDE DEF C
    <2> QED
      BY <1>1, <2>1, SmallestSubset
  <1>3. T # {} /\ IsFiniteSet(T)
    <2>1. SumOf(f, {}) = 0
      BY SumEmpty
    <2>2. T # {}
      <3>1. SUFFICES ASSUME T = {} PROVE FALSE
        OBVIOUS
      <3> QED
        BY <1>2, <2>1, <3>1
    <2> QED
      BY <2>2, FS_Subset
  <1>4. Pick(T) \in T /\ SumOf(f, T) = f[Pick(T)] + SumOf(f, T \ {Pick(T)})
    BY <1>3, SumStep
  <1>5. SumOf(f, T \ {Pick(T)}) \in Int
    BY <1>2, <1>4
  <1>6. f[Pick(T)] \in Int
    BY <1>4
  <1> QED
    BY <1>4, <1>5, <1>6

\* Any member can be taken off a sum.
LEMMA SumRemove ==
  ASSUME NEW f, NEW S, IsFiniteSet(S), \A x \in S : f[x] \in Int, NEW x \in S
  PROVE  SumOf(f, S) = f[x] + SumOf(f, S \ {x})
  <1> DEFINE C == {T \in SUBSET S : \E y \in T : SumOf(f, T) # f[y] + SumOf(f, T \ {y})}
  <1>1. SUFFICES ASSUME C # {} PROVE FALSE
    OBVIOUS
  <1>2. PICK T \in C : \A U \in C : U \subseteq T => U = T
    <2>1. C \in SUBSET SUBSET S
      OBVIOUS
    <2> HIDE DEF C
    <2> QED
      BY <1>1, <2>1, SmallestSubset
  <1>3. PICK y \in T : SumOf(f, T) # f[y] + SumOf(f, T \ {y})
    BY <1>2
  <1>4. IsFiniteSet(T) /\ T # {}
    BY <1>3, FS_Subset
  <1> DEFINE p == Pick(T)
  <1>5. p \in T /\ SumOf(f, T) = f[p] + SumOf(f, T \ {p})
    BY <1>4, SumStep
  <1>6. p # y
    BY <1>3, <1>5
  <1>7. SumOf(f, T \ {p}) = f[y] + SumOf(f, (T \ {p}) \ {y})
    BY <1>2, <1>3, <1>5, <1>6
  <1>8. SumOf(f, T \ {y}) = f[p] + SumOf(f, (T \ {y}) \ {p})
    BY <1>2, <1>3, <1>5, <1>6
  <1>9. SumOf(f, (T \ {p}) \ {y}) = SumOf(f, (T \ {y}) \ {p})
    <2>1. (T \ {p}) \ {y} = (T \ {y}) \ {p}
      OBVIOUS
    <2> QED
      BY ONLY <2>1
  <1>10. SumOf(f, (T \ {y}) \ {p}) \in Int /\ f[p] \in Int /\ f[y] \in Int
    <2>1. IsFiniteSet((T \ {y}) \ {p})
      BY <1>4, FS_Subset
    <2> QED
      BY <2>1, <1>3, <1>5, SumType
  <1> HIDE DEF p
  <1>11. PICK a : a = SumOf(f, (T \ {y}) \ {p})
    OBVIOUS
  <1>12. SumOf(f, T) = f[p] + (f[y] + a)
    BY ONLY <1>5, <1>7, <1>9, <1>11
  <1>13. f[y] + SumOf(f, T \ {y}) = f[y] + (f[p] + a)
    BY ONLY <1>8, <1>11
  <1>14. f[p] + (f[y] + a) = f[y] + (f[p] + a)
    BY ONLY <1>10, <1>11
  <1> QED
    BY ONLY <1>3, <1>12, <1>13, <1>14

\* Two sums, member by member: they add up.
LEMMA SumPlus ==
  ASSUME NEW f, NEW g, NEW h, NEW S, IsFiniteSet(S),
         \A x \in S : f[x] \in Int /\ g[x] \in Int /\ h[x] = f[x] + g[x]
  PROVE  SumOf(h, S) = SumOf(f, S) + SumOf(g, S)
  <1> DEFINE C == {T \in SUBSET S : SumOf(h, T) # SumOf(f, T) + SumOf(g, T)}
  <1>1. SUFFICES ASSUME C # {} PROVE FALSE
    OBVIOUS
  <1>2. PICK T \in C : \A U \in C : U \subseteq T => U = T
    <2>1. C \in SUBSET SUBSET S
      OBVIOUS
    <2> HIDE DEF C
    <2> QED
      BY <1>1, <2>1, SmallestSubset
  <1>3. T # {} /\ IsFiniteSet(T)
    <2>1. SumOf(f, {}) = 0 /\ SumOf(g, {}) = 0 /\ SumOf(h, {}) = 0
      BY SumEmpty
    <2>2. T # {}
      <3>1. SUFFICES ASSUME T = {} PROVE FALSE
        OBVIOUS
      <3> QED
        BY <1>2, <2>1, <3>1
    <2> QED
      BY <2>2, FS_Subset
  <1>4. PICK p : p = Pick(T)
    OBVIOUS
  <1> DEFINE U == T \ {p}
  <1>5. /\ p \in T
        /\ SumOf(f, T) = f[p] + SumOf(f, U)
        /\ SumOf(g, T) = g[p] + SumOf(g, U)
        /\ SumOf(h, T) = h[p] + SumOf(h, U)
    BY <1>3, <1>4, SumStep
  <1>6. SumOf(h, U) = SumOf(f, U) + SumOf(g, U)
    BY <1>2, <1>5
  <1>7. SumOf(f, U) \in Int /\ SumOf(g, U) \in Int
    BY <1>3, FS_Subset, SumType
  <1>8. f[p] \in Int /\ g[p] \in Int /\ h[p] = f[p] + g[p]
    BY <1>5
  <1>9. SumOf(h, T) # SumOf(f, T) + SumOf(g, T)
    BY <1>2
  <1> HIDE DEF U
  <1> QED
    BY <1>5, <1>6, <1>7, <1>8, <1>9

\* Two sums, member by member: they compare.
LEMMA SumMono ==
  ASSUME NEW f, NEW g, NEW S, IsFiniteSet(S),
         \A x \in S : f[x] \in Int /\ g[x] \in Int /\ f[x] <= g[x]
  PROVE  SumOf(f, S) <= SumOf(g, S)
  <1> DEFINE C == {T \in SUBSET S : ~ (SumOf(f, T) <= SumOf(g, T))}
  <1>1. SUFFICES ASSUME C # {} PROVE FALSE
    OBVIOUS
  <1>2. PICK T \in C : \A U \in C : U \subseteq T => U = T
    <2>1. C \in SUBSET SUBSET S
      OBVIOUS
    <2> HIDE DEF C
    <2> QED
      BY <1>1, <2>1, SmallestSubset
  <1>3. T # {} /\ IsFiniteSet(T)
    <2>1. SumOf(f, {}) = 0 /\ SumOf(g, {}) = 0
      BY SumEmpty
    <2>2. T # {}
      <3>1. SUFFICES ASSUME T = {} PROVE FALSE
        OBVIOUS
      <3> QED
        BY <1>2, <2>1, <3>1
    <2> QED
      BY <2>2, FS_Subset
  <1>4. PICK p : p = Pick(T)
    OBVIOUS
  <1> DEFINE U == T \ {p}
  <1>5. /\ p \in T
        /\ SumOf(f, T) = f[p] + SumOf(f, U)
        /\ SumOf(g, T) = g[p] + SumOf(g, U)
    BY <1>3, <1>4, SumStep
  <1>6. SumOf(f, U) <= SumOf(g, U)
    BY <1>2, <1>5
  <1>7. SumOf(f, U) \in Int /\ SumOf(g, U) \in Int
    BY <1>3, FS_Subset, SumType
  <1>8. f[p] \in Int /\ g[p] \in Int /\ f[p] <= g[p]
    BY <1>5
  <1>9. ~ (SumOf(f, T) <= SumOf(g, T))
    BY <1>2
  <1> HIDE DEF U
  <1> QED
    BY <1>5, <1>6, <1>7, <1>8, <1>9

\* A sum depends on the members only.
LEMMA SumCong ==
  ASSUME NEW f, NEW g, NEW S, IsFiniteSet(S), \A x \in S : f[x] = g[x] /\ f[x] \in Int
  PROVE  SumOf(f, S) = SumOf(g, S)
  <1>1. SumOf(f, S) <= SumOf(g, S) /\ SumOf(g, S) <= SumOf(f, S)
    BY SumMono
  <1>2. SumOf(f, S) \in Int /\ SumOf(g, S) \in Int
    BY SumType
  <1> QED
    BY <1>1, <1>2

\* Members that are zero do not count.
LEMMA SumSupport ==
  ASSUME NEW f, NEW S, IsFiniteSet(S), NEW T \in SUBSET S,
         \A x \in S : f[x] \in Int, \A x \in S \ T : f[x] = 0
  PROVE  SumOf(f, S) = SumOf(f, T)
  <1> DEFINE C == {U \in SUBSET S : SumOf(f, U) # SumOf(f, U \cap T)}
  <1>1. SUFFICES ASSUME C # {} PROVE FALSE
    <2>1. S \cap T = T
      OBVIOUS
    <2> QED
      BY <2>1
  <1>2. PICK U \in C : \A V \in C : V \subseteq U => V = U
    <2>1. C \in SUBSET SUBSET S
      OBVIOUS
    <2> HIDE DEF C
    <2> QED
      BY <1>1, <2>1, SmallestSubset
  <1>3. IsFiniteSet(U) /\ IsFiniteSet(U \cap T)
    BY FS_Subset
  <1>4. PICK p \in U : p \notin T
    <2>1. SUFFICES ASSUME U \subseteq T PROVE FALSE
      OBVIOUS
    <2>2. U \cap T = U
      BY <2>1
    <2> QED
      BY <1>2, <2>2
  <1>5. SumOf(f, U) = f[p] + SumOf(f, U \ {p})
    BY <1>3, <1>4, SumRemove
  <1>6. SumOf(f, U \ {p}) = SumOf(f, (U \ {p}) \cap T)
    BY <1>2, <1>4
  <1>7. (U \ {p}) \cap T = U \cap T
    BY <1>4
  <1>8. f[p] = 0 /\ SumOf(f, U \cap T) \in Int
    BY <1>3, <1>4, SumType
  <1>9. SumOf(f, U) # SumOf(f, U \cap T)
    BY <1>2
  <1>10. SumOf(f, U) = 0 + SumOf(f, U \cap T)
    BY ONLY <1>5, <1>6, <1>7, <1>8
  <1> QED
    BY ONLY <1>8, <1>9, <1>10

\* A sum over two parts is that of the parts.
LEMMA SumSplit ==
  ASSUME NEW f, NEW S, IsFiniteSet(S), \A x \in S : f[x] \in Int, NEW T \in SUBSET S
  PROVE  SumOf(f, S) = SumOf(f, T) + SumOf(f, S \ T)
  <1> DEFINE g == [x \in S |-> IF x \in T THEN f[x] ELSE 0]
             h == [x \in S |-> IF x \in T THEN 0 ELSE f[x]]
             U == S \ T
  <1>1. IsFiniteSet(T) /\ IsFiniteSet(U) /\ U \in SUBSET S
    BY FS_Subset
  <1>2. /\ \A x \in S : g[x] \in Int /\ h[x] \in Int /\ f[x] = g[x] + h[x]
        /\ \A x \in S \ T : g[x] = 0
        /\ \A x \in S \ U : h[x] = 0
        /\ \A x \in T : g[x] = f[x]
        /\ \A x \in U : h[x] = f[x]
    OBVIOUS
  <1> HIDE DEF g, h, U
  <1>3. SumOf(f, S) = SumOf(g, S) + SumOf(h, S)
    BY <1>2, SumPlus
  <1>4. SumOf(g, S) = SumOf(g, T) /\ SumOf(h, S) = SumOf(h, U)
    BY <1>1, <1>2, SumSupport
  <1>5. SumOf(g, T) = SumOf(f, T)
    BY <1>1, <1>2, SumCong
  <1>6. SumOf(h, U) = SumOf(f, U)
    <2>1. U \subseteq S
      BY <1>1
    <2> QED
      BY <2>1, <1>1, <1>2, SumCong
  <1> QED
    BY <1>3, <1>4, <1>5, <1>6 DEF U

\* The keys of one version, and of some versions
KeysOf(K, v) == {k \in K : k[1] = v}
KeysIn(K, V) == {k \in K : k[1] \in V}

\* Sums by version add up to the sum of all of them.
LEMMA SumGroups ==
  ASSUME NEW b, NEW K, IsFiniteSet(K), \A k \in K : b[k] \in Int,
         NEW V, IsFiniteSet(V), NEW F, \A v \in V : F[v] = SumOf(b, KeysOf(K, v))
  PROVE  SumOf(F, V) = SumOf(b, KeysIn(K, V))
  <1> USE DEF KeysOf, KeysIn
  <1> DEFINE Of(W) == {k \in K : k[1] \in W}
             Own(v) == {k \in K : k[1] = v}
             C == {W \in SUBSET V : SumOf(F, W) # SumOf(b, Of(W))}
  <1>1. SUFFICES ASSUME C # {} PROVE FALSE
    OBVIOUS
  <1>2. PICK W \in C : \A U \in C : U \subseteq W => U = W
    <2>1. C \in SUBSET SUBSET V
      OBVIOUS
    <2> HIDE DEF C
    <2> QED
      BY <1>1, <2>1, SmallestSubset
  <1>3. W # {}
    <2>1. SUFFICES ASSUME W = {} PROVE FALSE
      OBVIOUS
    <2>2. Of(W) = {}
      BY <2>1
    <2>3. SumOf(F, {}) = 0 /\ SumOf(b, {}) = 0
      BY SumEmpty
    <2> HIDE DEF Of
    <2> QED
      BY <1>2, <2>1, <2>2, <2>3
  <1>4. PICK v \in W : TRUE
    BY <1>3
  <1>5. IsFiniteSet(W) /\ \A x \in W : F[x] \in Int
    <2>1. ASSUME NEW x \in W PROVE F[x] \in Int
      <3>1. Own(x) \in SUBSET K /\ \A k \in Own(x) : b[k] \in Int
        OBVIOUS
      <3>2. F[x] = SumOf(b, Own(x))
        OBVIOUS
      <3> HIDE DEF Own
      <3> QED
        BY <3>1, <3>2, SumType, FS_Subset
    <2> QED
      BY <2>1, FS_Subset
  <1>6. SumOf(F, W) = F[v] + SumOf(F, W \ {v})
    BY <1>5, SumRemove
  <1>7. SumOf(F, W \ {v}) = SumOf(b, Of(W \ {v}))
    BY <1>2
  <1>8. SumOf(b, Of(W)) = SumOf(b, Own(v)) + SumOf(b, Of(W \ {v}))
    <2>1. Of(W) \in SUBSET K /\ (\A k \in Of(W) : b[k] \in Int) /\ Own(v) \in SUBSET Of(W)
      OBVIOUS
    <2>2. Of(W) \ Own(v) = Of(W \ {v})
      OBVIOUS
    <2> HIDE DEF Of, Own
    <2>3. IsFiniteSet(Of(W))
      BY <2>1, FS_Subset
    <2>4. SumOf(b, Of(W)) = SumOf(b, Own(v)) + SumOf(b, Of(W) \ Own(v))
      BY ONLY <2>1, <2>3, SumSplit
    <2> QED
      BY ONLY <2>2, <2>4
  <1>9. F[v] = SumOf(b, Own(v))
    BY <1>4
  <1>10. SumOf(F, W) # SumOf(b, Of(W))
    BY <1>2
  <1> HIDE DEF Of, Own
  <1> QED
    BY ONLY <1>6, <1>7, <1>8, <1>9, <1>10

-----------------------------------------------------------------------------
(* Folds of the lines of a log file.                                       *)

\* A nonempty set of indices has a largest member.
LEMMA MaxIn ==
  ASSUME NEW n \in Nat, NEW s \in SUBSET (1..n), s # {}
  PROVE  Max(s) \in s /\ \A y \in s : y <= Max(s)
  <1> DEFINE Above(x) == {y \in s : y > x}
             C == {Above(x) : x \in s}
  <1>1. PICK T \in C : \A U \in C : U \subseteq T => U = T
    <2>1. C \in SUBSET SUBSET (1..n) /\ C # {}
      <3>1. \A x \in s : Above(x) \in SUBSET (1..n)
        OBVIOUS
      <3> HIDE DEF Above
      <3> QED
        BY <3>1
    <2>2. PICK N : N = 1..n
      OBVIOUS
    <2>3. IsFiniteSet(N)
      BY <2>2, FS_Interval
    <2>4. C \in SUBSET SUBSET N
      BY <2>1, <2>2
    <2>5. C # {}
      BY <2>1
    <2> HIDE DEF C
    <2> QED
      BY ONLY <2>3, <2>4, <2>5, SmallestSubset
  <1>2. PICK x \in s : T = Above(x)
    BY <1>1
  <1>3. ASSUME NEW y \in s, y > x PROVE FALSE
    <2>1. Above(y) \subseteq Above(x) /\ y \in Above(x) /\ y \notin Above(y)
      <3>1. \A z \in s : z \in Int
        OBVIOUS
      <3>2. \A z \in s : z > y => z > x
        BY ONLY <1>3, <3>1, x \in s
      <3>3. ~ y > y
        BY ONLY <1>3, <3>1
      <3> QED
        BY ONLY <1>3, <3>2, <3>3
    <2>2. Above(y) \in C
      OBVIOUS
    <2> HIDE DEF Above
    <2> QED
      BY <1>1, <1>2, <2>1, <2>2
  <1>4. \A y \in s : x >= y
    BY <1>3
  <1>5. Max(s) \in s /\ \A y \in s : Max(s) >= y
    BY <1>4 DEF Max
  <1> QED
    BY <1>5

\* The sets over which Max recurses have a greatest member.
Indices(N) == IsFiniteSet(N) /\ \A s \in SUBSET N : s # {} => Max(s) \in s

\* The indices of a sequence are among them.
LEMMA SequenceIndices ==
  ASSUME NEW A, NEW s \in Seq(A)
  PROVE  Indices(DOMAIN s) /\ \A i \in DOMAIN s : s[i] \in A
  <1>1. DOMAIN s = 1..Len(s) /\ Len(s) \in Nat
    OBVIOUS
  <1>2. IsFiniteSet(1..Len(s))
    BY <1>1, FS_Interval
  <1>3. \A t \in SUBSET (1..Len(s)) : t # {} => Max(t) \in t
    BY <1>1, MaxIn
  <1>4. Indices(1..Len(s))
    BY <1>2, <1>3 DEF Indices
  <1> QED
    BY <1>1, <1>4

\* What holds of a fold of nothing and, with each member, of the fold, holds of folds.
LEMMA FoldTyped ==
  ASSUME NEW N, Indices(N), NEW A, NEW g, g[{}] \in A,
         \A s \in SUBSET N : s # {} /\ g[s \ {Max(s)}] \in A => g[s] \in A
  PROVE  \A s \in SUBSET N : g[s] \in A
  <1> DEFINE C == {s \in SUBSET N : g[s] \notin A}
  <1>1. SUFFICES ASSUME C # {} PROVE FALSE
    OBVIOUS
  <1>2. PICK s \in C : \A t \in C : t \subseteq s => t = s
    <2>1. C \in SUBSET SUBSET N
      OBVIOUS
    <2>2. IsFiniteSet(N)
      BY DEF Indices
    <2> HIDE DEF C
    <2> QED
      BY <1>1, <2>1, <2>2, SmallestSubset
  <1>3. s # {} /\ s \in SUBSET N
    <2>1. s \in SUBSET N /\ g[s] \notin A
      BY <1>2
    <2> QED
      BY <2>1
  <1>4. Max(s) \in s
    BY <1>3 DEF Indices
  <1>5. g[s \ {Max(s)}] \in A
    BY <1>2, <1>3, <1>4
  <1> QED
    BY <1>2, <1>3, <1>5

\* h has the folds over the subsets of D.
Runs(h, F, b, D) ==
  h = [s \in SUBSET D |-> IF s = {} THEN b ELSE F[<<Max(s), h[s \ {Max(s)}]>>]]

\* Two such functions agree where both have a fold.
LEMMA RunsUnique ==
  ASSUME NEW N, Indices(N), NEW F, NEW b, NEW S \in SUBSET N, NEW T \in SUBSET N,
         NEW g, NEW h, Runs(g, F, b, S), Runs(h, F, b, T),
         NEW s \in SUBSET S, s \subseteq T
  PROVE  g[s] = h[s]
  <1> DEFINE C == {u \in SUBSET N : u \subseteq S /\ u \subseteq T /\ g[u] # h[u]}
  <1>1. SUFFICES ASSUME C # {} PROVE FALSE
    OBVIOUS
  <1>2. PICK u \in C : \A w \in C : w \subseteq u => w = u
    <2>1. C \in SUBSET SUBSET N
      OBVIOUS
    <2>2. IsFiniteSet(N)
      BY DEF Indices
    <2> HIDE DEF C
    <2> QED
      BY <1>1, <2>1, <2>2, SmallestSubset
  <1>3. u # {} /\ u \in SUBSET N
    BY <1>2 DEF Runs
  <1>4. Max(u) \in u
    BY <1>3 DEF Indices
  <1>5. g[u \ {Max(u)}] = h[u \ {Max(u)}]
    BY <1>2, <1>4
  <1>6. g[u] = F[<<Max(u), g[u \ {Max(u)}]>>] /\ h[u] = F[<<Max(u), h[u \ {Max(u)}]>>]
    BY <1>2, <1>3 DEF Runs
  <1> QED
    BY <1>2, <1>5, <1>6

\* A fold of the members of a sequence, one after the other, is well defined.
LEMMA RunsExists ==
  ASSUME NEW N, Indices(N), NEW F, NEW b
  PROVE  \E h : Runs(h, F, b, N)
  <1> DEFINE C == {u \in SUBSET N : ~ \E g : Runs(g, F, b, u)}
  <1>1. SUFFICES ASSUME C # {} PROVE FALSE
    OBVIOUS
  <1>2. PICK u \in C : \A w \in C : w \subseteq u => w = u
    <2>1. C \in SUBSET SUBSET N
      OBVIOUS
    <2>2. IsFiniteSet(N)
      BY DEF Indices
    <2> HIDE DEF C
    <2> QED
      BY <1>1, <2>1, <2>2, SmallestSubset
  <1> DEFINE G(w) == CHOOSE g : Runs(g, F, b, w)
             V(s) == IF s = {} THEN b ELSE F[<<Max(s), G(s \ {Max(s)})[s \ {Max(s)}]>>]
             h == [s \in SUBSET u |-> V(s)]
  <1>3. \A w \in SUBSET u : w # u => Runs(G(w), F, b, w)
    BY <1>2
  <1> HIDE DEF G
  <1>0. u \in SUBSET N
    BY <1>2
  <1>4. ASSUME NEW s \in SUBSET u, s # {} PROVE h[s] = F[<<Max(s), h[s \ {Max(s)}]>>]
    <2>1. Max(s) \in s
      BY <1>0, <1>4 DEF Indices
    <2> DEFINE r == s \ {Max(s)}
    <2>2. Runs(G(r), F, b, r)
      BY <1>3, <2>1
    <2>3. CASE r = {}
      <3>1. G(r)[r] = b
        BY <2>2, <2>3 DEF Runs
      <3> QED
        BY <1>4, <2>3, <3>1
    <2>4. CASE r # {}
      <3>1. Max(r) \in r
        BY <1>0, <2>4 DEF Indices
      <3> DEFINE q == r \ {Max(r)}
      <3>2. Runs(G(q), F, b, q)
        BY <1>3, <2>1
      <3>3. G(r)[r] = F[<<Max(r), G(r)[q]>>]
        BY <2>2, <2>4 DEF Runs
      <3>4. q \subseteq r /\ r \in SUBSET N
        BY <1>0
      <3>5. G(q)[q] = G(r)[q]
        <4> HIDE DEF q, r
        <4> QED
          BY <2>2, <3>2, <3>4, RunsUnique
      <3> QED
        BY <1>4, <2>4, <3>3, <3>5
    <2> QED
      BY <2>3, <2>4
  <1>5. Runs(h, F, b, u)
    <2>1. ASSUME NEW s \in SUBSET u
          PROVE  h[s] = IF s = {} THEN b ELSE F[<<Max(s), h[s \ {Max(s)}]>>]
      BY <1>4
    <2> QED
      BY <2>1 DEF Runs
  <1> QED
    BY <1>2, <1>5

-----------------------------------------------------------------------------
\* What DownloadsMap may hold
LogKeys == STRING \X Nat
LogMaps == UNION {[D -> Nat] : D \in SUBSET LogKeys}

\* DownloadsMap::add adds one to a natural number.
LEMMA AddType ==
  ASSUME NEW m \in LogMaps, NEW line \in LogLine
  PROVE  Add(m, line) \in LogMaps
  <1>1. PICK D \in SUBSET LogKeys : m \in [D -> Nat]
    BY DEF LogMaps
  <1> DEFINE k == <<line.path.version, line.date>>
  <1>2. k \in LogKeys
    BY DEF LogLine, LogKeys
  <1>3. Add(m, line) = [x \in D \cup {k} |->
                          IF x # k THEN m[x] ELSE IF x \in D THEN m[x] + 1 ELSE 1]
    BY <1>1 DEF Add
  <1>4. Add(m, line) \in [D \cup {k} -> Nat]
    <2> HIDE DEF k
    <2> QED
      BY <1>1, <1>3
  <1>5. D \cup {k} \in SUBSET LogKeys
    BY <1>2
  <1> QED
    BY <1>4, <1>5 DEF LogMaps

\* A new DownloadsMap holds nothing.
LEMMA EmptyMapType == EmptyMap \in LogMaps
  <1>1. EmptyMap \in [{} -> Nat]
    BY DEF EmptyMap
  <1>2. {} \in SUBSET LogKeys
    OBVIOUS
  <1> QED
    BY <1>1, <1>2 DEF LogMaps

\* count_downloads of either format has a count for each version and date.
LEMMA FastlyType ==
  ASSUME NEW lines \in Seq(LogLine)
  PROVE  CountFastly(lines) \in LogMaps
  <1> DEFINE N == DOMAIN lines
             step(map, line) ==
               IF line.kind = "json" /\ Counts(line, 1) THEN Add(map, line) ELSE map
             F == [p \in N \X LogMaps |-> step(p[2], lines[p[1]])]
             iter == CHOOSE g : g = [s \in SUBSET N |->
                       IF s = {} THEN EmptyMap ELSE step(g[s \ {Max(s)}], lines[Max(s)])]
  <1>1. Indices(N) /\ \A i \in N : lines[i] \in LogLine
    BY SequenceIndices
  <1>2. CountFastly(lines) = iter[N]
    BY DEF CountFastly, FoldLeft, MapThenFoldSet
  <1>3. \A m \in LogMaps, line \in LogLine : step(m, line) \in LogMaps
    BY AddType
  <1> HIDE DEF step, N
  <1>4. PICK h : Runs(h, F, EmptyMap, N)
    <2> HIDE DEF F
    <2> QED
      BY <1>1, RunsExists
  <1>5. ASSUME NEW s \in SUBSET N, s # {}, h[s \ {Max(s)}] \in LogMaps
        PROVE  h[s] = step(h[s \ {Max(s)}], lines[Max(s)]) /\ h[s] \in LogMaps
    <2>1. Max(s) \in N
      BY <1>1, <1>5 DEF Indices
    <2>2. h[s] = F[<<Max(s), h[s \ {Max(s)}]>>]
      BY <1>4, <1>5 DEF Runs
    <2> QED
      BY <1>1, <1>3, <1>5, <2>1, <2>2
  <1>6. \A s \in SUBSET N : h[s] \in LogMaps
    <2>1. h[{}] \in LogMaps
      BY <1>4, EmptyMapType DEF Runs
    <2> QED
      BY <1>1, <1>5, <2>1, FoldTyped
  <1>7. h = [s \in SUBSET N |->
               IF s = {} THEN EmptyMap ELSE step(h[s \ {Max(s)}], lines[Max(s)])]
    <2>1. ASSUME NEW s \in SUBSET N
          PROVE  h[s] = IF s = {} THEN EmptyMap ELSE step(h[s \ {Max(s)}], lines[Max(s)])
      BY <1>4, <1>5, <1>6 DEF Runs
    <2>2. DOMAIN h = SUBSET N /\ h = [s \in DOMAIN h |-> h[s]]
      BY <1>4 DEF Runs
    <2> QED
      BY <2>1, <2>2
  <1>8. iter = [s \in SUBSET N |->
                  IF s = {} THEN EmptyMap ELSE step(iter[s \ {Max(s)}], lines[Max(s)])]
    BY <1>7
  <1> HIDE DEF iter
  <1>9. iter[N] \in LogMaps
    <2>1. iter[{}] \in LogMaps
      BY <1>8, EmptyMapType
    <2>2. ASSUME NEW s \in SUBSET N, s # {}, iter[s \ {Max(s)}] \in LogMaps
          PROVE  iter[s] \in LogMaps
      <3>1. Max(s) \in N
        BY <1>1, <2>2 DEF Indices
      <3>2. iter[s] = step(iter[s \ {Max(s)}], lines[Max(s)])
        BY <1>8, <2>2
      <3> QED
        BY <1>1, <1>3, <2>2, <3>1, <3>2
    <2> QED
      BY <1>1, <2>1, <2>2, FoldTyped
  <1> QED
    BY <1>2, <1>9
\* What cloudfront::count_downloads counts are natural numbers.
LEMMA CloudFrontType ==
  ASSUME NEW lines \in Seq(LogLine)
  PROVE  CountCloudFront(lines).map \in LogMaps
  <1> DEFINE N == DOMAIN lines
             A == [ok : BOOLEAN, columns : Nat, map : LogMaps]
             base == [ok |-> TRUE, columns |-> 0, map |-> EmptyMap]
             step(acc, line) ==
               CASE line.kind = "version" -> [acc EXCEPT !.ok = @ /\ line.columns = 1]
                 [] line.kind = "fields" -> [acc EXCEPT !.columns = line.columns]
                 [] OTHER ->
                      IF line.columns = acc.columns /\ Counts(line, 2) /\ line.date \in Days
                      THEN [acc EXCEPT !.map = Add(@, line)]
                      ELSE acc
             F == [p \in N \X A |-> step(p[2], lines[p[1]])]
             iter == CHOOSE g : g = [s \in SUBSET N |->
                       IF s = {} THEN base ELSE step(g[s \ {Max(s)}], lines[Max(s)])]
  <1>1. Indices(N) /\ \A i \in N : lines[i] \in LogLine
    BY SequenceIndices
  <1>2. CountCloudFront(lines).map = iter[N].map
    BY DEF CountCloudFront, FoldLeft, MapThenFoldSet
  <1>3. \A m \in A, line \in LogLine : step(m, line) \in A
    <2> TAKE m \in A, line \in LogLine
    <2>1. Add(m.map, line) \in LogMaps
      BY AddType
    <2>2. line.columns \in Nat
      BY DEF LogLine
    <2> QED
      BY <2>1, <2>2
  <1>0. base \in A
    BY EmptyMapType
  <1> HIDE DEF step, N, A, base
  <1>4. PICK h : Runs(h, F, base, N)
    <2> HIDE DEF F
    <2> QED
      BY <1>1, RunsExists
  <1>5. ASSUME NEW s \in SUBSET N, s # {}, h[s \ {Max(s)}] \in A
        PROVE  h[s] = step(h[s \ {Max(s)}], lines[Max(s)]) /\ h[s] \in A
    <2>1. Max(s) \in N
      BY <1>1, <1>5 DEF Indices
    <2>2. h[s] = F[<<Max(s), h[s \ {Max(s)}]>>]
      BY <1>4, <1>5 DEF Runs
    <2> QED
      BY <1>1, <1>3, <1>5, <2>1, <2>2
  <1>6. \A s \in SUBSET N : h[s] \in A
    <2>1. h[{}] \in A
      BY <1>4, <1>0 DEF Runs
    <2> QED
      BY <1>1, <1>5, <2>1, FoldTyped
  <1>7. h = [s \in SUBSET N |->
               IF s = {} THEN base ELSE step(h[s \ {Max(s)}], lines[Max(s)])]
    <2>1. ASSUME NEW s \in SUBSET N
          PROVE  h[s] = IF s = {} THEN base ELSE step(h[s \ {Max(s)}], lines[Max(s)])
      BY <1>4, <1>5, <1>6 DEF Runs
    <2>2. DOMAIN h = SUBSET N /\ h = [s \in DOMAIN h |-> h[s]]
      BY <1>4 DEF Runs
    <2> QED
      BY <2>1, <2>2
  <1>8. iter = [s \in SUBSET N |->
                  IF s = {} THEN base ELSE step(iter[s \ {Max(s)}], lines[Max(s)])]
    BY <1>7
  <1> HIDE DEF iter
  <1>9. iter[N] \in A
    <2>1. iter[{}] \in A
      BY <1>8, <1>0
    <2>2. ASSUME NEW s \in SUBSET N, s # {}, iter[s \ {Max(s)}] \in A
          PROVE  iter[s] \in A
      <3>1. Max(s) \in N
        BY <1>1, <2>2 DEF Indices
      <3>2. iter[s] = step(iter[s \ {Max(s)}], lines[Max(s)])
        BY <1>8, <2>2
      <3> QED
        BY <1>1, <1>3, <2>2, <3>1, <3>2
    <2> QED
      BY <1>1, <2>1, <2>2, FoldTyped
  <1> QED
    BY <1>2, <1>9 DEF A

\* A log file has a natural number of downloads for every version and date.
LEMMA InLogType == \A l \in Logs : \A k : InLog(l, k) \in Nat
  <1> TAKE l \in Logs
  <1> TAKE k
  <1>1. Lines[l] \in Seq(LogLine) /\ Format[l] \in {"#", "<", "?"}
    BY DownloadsAssumption
  <1>2. CountDownloads(l).map \in LogMaps
    BY <1>1, FastlyType, CloudFrontType, EmptyMapType DEF CountDownloads, Failed
  <1>3. Counted[l].map \in LogMaps
    BY <1>2, EmptyMapType DEF Counted, LoadAndCount, Failed
  <1>4. PICK D \in SUBSET LogKeys : Counted[l].map \in [D -> Nat]
    BY <1>3 DEF LogMaps
  <1> QED
    BY <1>4 DEF InLog

-----------------------------------------------------------------------------
(* The inductive invariant.                                                *)

\* What the log files and the runs that read them are.
LogTypes ==
  /\ day \in Days
  /\ sqs \subseteq Messages
  /\ waiting \in [Logs -> Nat]
  /\ \A l \in Ignored : waiting[l] = 0
  /\ logRun \in [LogWorkers -> [pc : {"idle", "loaded", "marked"}, log : SUBSET (Logs \ Ignored)]]
  /\ marks \in [Logs -> Nat] /\ \A l \in Logs : marks[l] <= day
  /\ saved \in [Logs -> Nat]
  /\ forgiven = [forgotten |-> forgiven.forgotten, dates |-> forgiven.dates]
  /\ forgiven.forgotten \in [Logs -> Nat]

\* The mark that one transaction has inserted is not there yet, and no other one has it.
MarksInd ==
  /\ \A w \in LogWorkers, l \in Logs :
       logRun[w] = [pc |-> "marked", log |-> {l}] =>
         marks[l] = 0 /\ \A x \in LogWorkers : logRun[x] = logRun[w] => x = w
  /\ \A l \in Logs :
       saved[l] <= forgiven.forgotten[l] + (IF marks[l] # 0 THEN 1 ELSE 0)

\* The downloads of a row that no update has counted
Open(k) == rows[k].downloads - rows[k].counted

\* What the rows and the runs of the update are.
RowTypes ==
  /\ rows \in [DownloadKeys -> [downloads : Nat, counted : Int, processed : BOOLEAN, exists : BOOLEAN]]
  /\ updRun = [u \in Updaters |->
                [pc |-> updRun[u].pc, batch |-> updRun[u].batch, gone |-> updRun[u].gone]]
  /\ \A u \in Updaters :
       LET run == updRun[u] IN
       /\ run.pc \in {"idle", "next", "read", "freeze"}
       /\ run.gone \subseteq DOMAIN run.batch /\ DOMAIN run.batch \subseteq DownloadKeys
       /\ \A k \in DOMAIN run.batch : run.batch[k] \in Int

\* No row is counted beyond its downloads but one that two runs have read at once, and
\* one that is gone has none.
RowsSound ==
  \A k \in DownloadKeys : (k \notin twice => Open(k) >= 0) /\ (~rows[k].exists => rows[k] = NoRow)

\* Of the other rows, each is in the batch of one run.
SoleReader ==
  \A u, x \in Updaters : \A k \in DOMAIN updRun[u].batch \cap DOMAIN updRun[x].batch :
    k \notin twice => u = x

\* What a run has read of them is still to be counted, but for rows that are gone.
RunInd(run) ==
  /\ run.pc # "read" => run.batch = EmptyMap /\ run.gone = {}
  /\ \A k \in DOMAIN run.batch \ twice :
       run.batch[k] \in Nat \ {0} /\ (k \notin run.gone => run.batch[k] <= Open(k))
  /\ \A k \in DOMAIN run.batch \ run.gone : rows[k].exists
  /\ Cardinality(DOMAIN run.batch) <= BatchSize
  /\ run.gone # {} => \E d \in Days : archive[d] # EmptyMap

\* What the rows are while runs of the update are between their reads and their writes.
BatchInd == RowsSound /\ SoleReader /\ \A u \in Updaters : RunInd(updRun[u])

\* A file has all of the downloads of a date.
Full(file, d) ==
  \A v \in Versions : (IF v \in DOMAIN file THEN file[v] ELSE 0) = Expected(<<v, d>>)

\* What the runs of the archive are: a date is only deleted once its file is uploaded.
ArchiveTypes ==
  /\ archRun = [a \in Archivers |->
       [pc |-> archRun[a].pc, files |-> archRun[a].files, dates |-> archRun[a].dates]]
  /\ archive = [d \in Days |-> archive[d]]
  /\ removed \subseteq Days
  /\ \A a \in Archivers :
       /\ archRun[a].dates \subseteq DOMAIN archRun[a].files
       /\ \A d \in DOMAIN archRun[a].files : d \in Days /\ archRun[a].files[d] # EmptyMap
       /\ \A d \in archRun[a].dates : archive[d] # EmptyMap

\* The files of a date that runs have exported
Exported(d) == {archRun[a].files[d] : a \in {x \in Archivers : d \in DOMAIN archRun[x].files}}

\* The dates whose rows are deleted or about to be
Deleting == removed \cup UNION {archRun[a].dates : a \in Archivers}

\* The files that replace, or will, the rows of a date
FilesOf(d) == Exported(d) \cup {archive[x] : x \in {d} \cap Deleting}

\* But for dates whose log files came late, what was exported, and what was uploaded and
\* is or was deleted, is all there is.
FilesFull == \A d \in Days \ forgiven.dates : \A file \in FilesOf(d) : Full(file, d)

\* What was deleted stays so.
RemovedGone ==
  \A d \in removed \ forgiven.dates : \A v \in Versions : ~rows[<<v, d>>].exists

\* What the archive is while runs are between their export and their deletion.
ArchiveInd == ArchiveTypes /\ FilesFull /\ RemovedGone

\* Until the rows of a date are deleted, a version without one has no downloads on it.
RowsComplete ==
  \A k \in DownloadKeys :
    k[2] \notin forgiven.dates \cup removed /\ ~rows[k].exists => Expected(k) = 0

\* The totals are integers.
TotalTypes ==
  totals \in [versions : [Versions -> Int], crates : [Crates -> Int], all : Int]

\* The rows of a version, on all dates
OwnKeys(v) == {k \in DownloadKeys : k[1] = v}

\* What a run has read of a row that is gone since
GoneOf(k) ==
  IF \E u \in Updaters : k \in updRun[u].gone
  THEN updRun[CHOOSE u \in Updaters : k \in updRun[u].gone].batch[k]
  ELSE 0

\* What is still to be counted, with what a run will count of rows that are gone
Due == [k \in DownloadKeys |-> Open(k) + GoneOf(k)]

\* What was counted and what is still due were in the log files.
TotalsBounded ==
  \A v \in Versions :
    OwnKeys(v) \cap twice = {} =>
      totals.versions[v] + SumOf(Due, OwnKeys(v))
        <= SumOf([k \in DownloadKeys |-> Expected(k)], OwnKeys(v))

\* Until something is archived, the total of a version is what its rows say is counted.
TotalsExact ==
  (\A d \in Days : archive[d] = EmptyMap) =>
    \A v \in Versions :
      totals.versions[v] = SumOf([k \in DownloadKeys |-> rows[k].counted], OwnKeys(v))

\* The inductive invariant
DownloadsInd ==
  /\ LogTypes /\ MarksInd
  /\ RowTypes /\ BatchInd
  /\ ArchiveInd /\ RowsComplete /\ DownloadsConserved
  /\ TotalTypes /\ TotalsAgree /\ TotalsBounded /\ TotalsExact

-----------------------------------------------------------------------------
(* The log files and their marks.                                          *)

\* No log file is marked in the beginning.
LEMMA InitLogs == DownloadsInit => LogTypes /\ MarksInd
  <1>1. 1 \in Days /\ Ignored \subseteq Logs
    BY DownloadsAssumption DEF Days
  <1>2. ASSUME DownloadsInit PROVE LogTypes /\ MarksInd
    <2>1. forgiven = [forgotten |-> [l \in Logs |-> 0], dates |-> {}]
      BY <1>2 DEF DownloadsInit
    <2>2. forgiven.forgotten = [l \in Logs |-> 0]
      BY <2>1
    <2> QED
      BY <1>1, <1>2, <2>1, <2>2 DEF DownloadsInit, LogTypes, MarksInd, NoLogRun, Days
  <1> QED
    BY <1>2

\* A mark is inserted by one transaction at a time, and each commit saves its file once.
LEMMA StepLogs == LogTypes /\ MarksInd /\ [DownloadsNext]_downloadVars => LogTypes' /\ MarksInd'
  <1> SUFFICES ASSUME LogTypes, MarksInd, [DownloadsNext]_downloadVars
               PROVE  LogTypes' /\ MarksInd'
    OBVIOUS
  <1> USE DEF LogTypes, MarksInd, front, counts, store, downloadHistory
  <1>0. MaxDay \in Nat \ {0} /\ KeepMarks \in Nat /\ Ignored \subseteq Logs /\ Days \subseteq Nat \ {0}
    BY DownloadsAssumption DEF Days
  <1>1. ASSUME UNCHANGED <<day, sqs, waiting, logRun, marks, saved, forgiven>>
        PROVE  LogTypes' /\ MarksInd'
    BY <1>1
  <1>2. ASSUME NEW ls \in SUBSET (Logs \ Ignored), waiting' = Enqueued(ls)
        PROVE  waiting' \in [Logs -> Nat] /\ \A l \in Ignored : waiting'[l] = 0
    BY <1>0, <1>2 DEF Enqueued
  <1>3. ASSUME NEW w \in LogWorkers, NEW l \in Logs, EndLog(w, l)
        PROVE  LogTypes' /\ MarksInd'
    <2>1. /\ logRun[w].log = {l}
          /\ logRun' = [logRun EXCEPT ![w] = NoLogRun]
          /\ waiting' = [waiting EXCEPT ![l] = @ + 1]
          /\ UNCHANGED <<day, sqs, marks, saved, forgiven>>
      BY <1>3 DEF EndLog
    <2>2. l \notin Ignored
      BY <2>1
    <2> QED
      BY <1>0, <2>1, <2>2 DEF NoLogRun
  <1>4. CASE UNCHANGED downloadVars
    BY <1>1, <1>4 DEF downloadVars
  <1>5. CASE NextDay
    BY <1>0, <1>5 DEF NextDay, Days
  <1>6. ASSUME NEW m \in Messages, Announce(m) PROVE LogTypes' /\ MarksInd'
    BY <1>6 DEF Announce, Trouble
  <1>7. ASSUME NEW q \in QueueRuns, Receive(q) PROVE LogTypes' /\ MarksInd'
    BY <1>1, <1>7 DEF Receive
  <1>8. ASSUME NEW q \in QueueRuns, NEW m \in Messages, ProcessBody(q, m)
        PROVE  LogTypes' /\ MarksInd'
    <2>1. JobsFromMessage(m) \in SUBSET (Logs \ Ignored)
      BY DownloadsAssumption DEF JobsFromMessage
    <2> QED
      BY <1>2, <1>8, <2>1 DEF ProcessBody
  <1>9. ASSUME NEW q \in QueueRuns, DeleteMessage(q) PROVE LogTypes' /\ MarksInd'
    BY <1>9 DEF DeleteMessage
  <1>10. ASSUME NEW q \in QueueRuns, QueueFail(q) PROVE LogTypes' /\ MarksInd'
    <2>1. PICK m, ls : ls \in SUBSET JobsFromMessage(m) /\ waiting' = Enqueued(ls)
      BY <1>10 DEF QueueFail
    <2>2. waiting' = Enqueued(ls \cap Logs)
      BY <2>1 DEF Enqueued
    <2>3. ls \cap Logs \in SUBSET (Logs \ Ignored)
      BY <2>1 DEF JobsFromMessage
    <2> QED
      BY <1>2, <1>10, <2>2, <2>3 DEF QueueFail, Trouble
  <1>11. ASSUME NEW w \in LogWorkers, NEW l \in Logs, SaveAsProcessed(w, l)
         PROVE  LogTypes' /\ MarksInd'
    <2>1. /\ logRun[w] = [pc |-> "loaded", log |-> {l}]
          /\ \A x \in LogWorkers : logRun[x] # [pc |-> "marked", log |-> {l}]
          /\ marks[l] = 0
          /\ logRun' = [logRun EXCEPT ![w].pc = "marked"]
          /\ UNCHANGED <<day, sqs, waiting, marks, saved, forgiven>>
      BY <1>11 DEF SaveAsProcessed
    <2>2. logRun' = [logRun EXCEPT ![w] = [pc |-> "marked", log |-> {l}]]
      <3>1. \A s : [[pc |-> "loaded", log |-> s] EXCEPT !.pc = "marked"] = [pc |-> "marked", log |-> s]
        OBVIOUS
      <3> QED
        BY <2>1, <3>1
    <2>3. {l} \in SUBSET (Logs \ Ignored)
      <3>1. logRun[w].log \in SUBSET (Logs \ Ignored)
        OBVIOUS
      <3> QED
        BY <2>1, <3>1
    <2>4. LogTypes'
      BY <2>1, <2>2, <2>3
    <2>5. \A x \in LogWorkers, k \in Logs :
            logRun'[x] = [pc |-> "marked", log |-> {k}] =>
              marks'[k] = 0 /\ \A y \in LogWorkers : logRun'[y] = logRun'[x] => y = x
      <3> SUFFICES ASSUME NEW x \in LogWorkers, NEW k \in Logs,
                          logRun'[x] = [pc |-> "marked", log |-> {k}]
                   PROVE  marks'[k] = 0 /\ \A y \in LogWorkers : logRun'[y] = logRun'[x] => y = x
        OBVIOUS
      <3>1. CASE x = w
        <4>1. {k} = {l}
          BY <2>2, <3>1
        <4>2. k = l
          BY <4>1
        <4> QED
          BY <2>1, <2>2, <3>1, <4>2
      <3>2. CASE x # w
        <4>1. logRun[x] = [pc |-> "marked", log |-> {k}]
          BY <2>2, <3>2
        <4>2. k # l
          BY <2>1, <4>1
        <4>3. {k} # {l}
          BY <4>2
        <4> QED
          BY <2>1, <2>2, <3>2, <4>1, <4>3
      <3> QED
        BY <3>1, <3>2
    <2> QED
      BY <2>1, <2>4, <2>5
  <1>12. ASSUME NEW w \in LogWorkers, NEW l \in Logs, CommitLog(w, l)
         PROVE  LogTypes' /\ MarksInd'
    <2>1. /\ logRun[w] = [pc |-> "marked", log |-> {l}]
          /\ marks' = [marks EXCEPT ![l] = day]
          /\ logRun' = [logRun EXCEPT ![w] = NoLogRun]
          /\ saved' = [saved EXCEPT ![l] = @ + 1]
          /\ UNCHANGED <<day, sqs, waiting>>
      BY <1>12 DEF CommitLog
    <2>2. forgiven' = [forgotten |-> forgiven.forgotten, dates |-> forgiven'.dates]
      BY <1>12 DEF CommitLog
    <2>3. forgiven'.forgotten = forgiven.forgotten
      BY <2>2
    <2>4. marks[l] = 0 /\ \A x \in LogWorkers : logRun[x] = logRun[w] => x = w
      BY <2>1
    <2>5. LogTypes'
      BY <1>0, <2>1, <2>2, <2>3 DEF NoLogRun
    <2>6. \A x \in LogWorkers, k \in Logs :
            logRun'[x] = [pc |-> "marked", log |-> {k}] =>
              marks'[k] = 0 /\ \A y \in LogWorkers : logRun'[y] = logRun'[x] => y = x
      <3> SUFFICES ASSUME NEW x \in LogWorkers, NEW k \in Logs,
                          logRun'[x] = [pc |-> "marked", log |-> {k}]
                   PROVE  marks'[k] = 0 /\ \A y \in LogWorkers : logRun'[y] = logRun'[x] => y = x
        OBVIOUS
      <3>1. x # w /\ logRun[x] = logRun'[x]
        BY <2>1 DEF NoLogRun
      <3>2. k # l
        BY <2>1, <2>4, <3>1
      <3>3. logRun'[w] # logRun'[x]
        BY <2>1 DEF NoLogRun
      <3> QED
        BY <2>1, <3>1, <3>2, <3>3
    <2>7. \A k \in Logs : saved'[k] <= forgiven'.forgotten[k] + (IF marks'[k] # 0 THEN 1 ELSE 0)
      <3> TAKE k \in Logs
      <3>1. day # 0
        BY <1>0
      <3>2. CASE k = l
        BY <2>1, <2>3, <2>4, <3>1, <3>2
      <3>3. CASE k # l
        BY <2>1, <2>3, <3>3
      <3> QED
        BY <3>2, <3>3
    <2> QED
      BY <2>5, <2>6, <2>7
  <1>13. ASSUME NEW w \in LogWorkers, NEW l \in Logs, RejectLog(w, l) \/ LogFail(w, l)
         PROVE  LogTypes' /\ MarksInd'
    BY <1>3, <1>13 DEF RejectLog, LogFail
  <1>14. ASSUME NEW w \in LogWorkers, NEW l \in Logs, StartLog(w, l)
         PROVE  LogTypes' /\ MarksInd'
    <2>1. /\ waiting[l] > 0
          /\ waiting' = [waiting EXCEPT ![l] = @ - 1]
          /\ \/ logRun' = logRun
             \/ logRun' = [logRun EXCEPT ![w] = [pc |-> "loaded", log |-> {l}]]
          /\ UNCHANGED <<day, sqs, marks, saved, forgiven>>
      BY <1>14 DEF StartLog
    <2>2. {l} \in SUBSET (Logs \ Ignored)
      BY <2>1
    <2>3. LogTypes'
      BY <1>0, <2>1, <2>2
    <2>4. \A x \in LogWorkers : logRun'[x].pc = "marked" => logRun'[x] = logRun[x]
      BY <2>1
    <2> QED
      BY <2>1, <2>3, <2>4
  <1>15. CASE CleanProcessedLogFiles
    <2> DEFINE old == {l \in Logs : marks[l] # 0 /\ marks[l] < day - KeepMarks}
    <2>1. /\ marks' = [l \in Logs |-> IF l \in old THEN 0 ELSE marks[l]]
          /\ UNCHANGED <<day, sqs, waiting, logRun, saved>>
      BY <1>15 DEF CleanProcessedLogFiles
    <2>2. forgiven' = [forgotten |-> forgiven'.forgotten, dates |-> forgiven.dates]
      BY <1>15 DEF CleanProcessedLogFiles
    <2>3. forgiven'.forgotten =
            [l \in Logs |-> IF l \in old THEN forgiven.forgotten[l] + 1 ELSE forgiven.forgotten[l]]
      BY <1>15 DEF CleanProcessedLogFiles
    <2>4. LogTypes'
      BY <1>0, <2>1, <2>2, <2>3
    <2>5. \A l \in Logs : saved'[l] <= forgiven'.forgotten[l] + (IF marks'[l] # 0 THEN 1 ELSE 0)
      <3> TAKE l \in Logs
      <3>1. CASE l \in old
        BY <2>1, <2>3, <3>1
      <3>2. CASE l \notin old
        BY <2>1, <2>3, <3>2
      <3> QED
        BY <3>1, <3>2
    <2> QED
      BY <2>1, <2>4, <2>5
  <1>16. ASSUME NEW u \in Updaters, UpdateNext(u) \/ UpdateFail(u) PROVE LogTypes' /\ MarksInd'
    BY <1>1, <1>16 DEF UpdateNext, UpdateFail, StartUpdate, BatchRead, BatchApply, Freeze
  <1>17. ASSUME NEW a \in Archivers, ArchiveNext(a) \/ ArchiveFail(a)
         PROVE  LogTypes' /\ MarksInd'
    BY <1>1, <1>17 DEF ArchiveNext, Export, UploadCsv, ArchiveFail, DeleteArchived
  <1> QED
    BY <1>4, <1>5, <1>6, <1>7, <1>8, <1>9, <1>10, <1>11, <1>12, <1>13, <1>14, <1>15, <1>16, <1>17
       DEF DownloadsNext, QueueNext, LogNext

-----------------------------------------------------------------------------
(* The rows and the update that reads them.                                *)

\* A row of version_downloads
Row == [downloads : Nat, counted : Int, processed : BOOLEAN, exists : BOOLEAN]

\* The smaller of two is at most the first.
LEMMA MinBound == \A a, b \in Nat : Min({a, b}) <= a
  <1> TAKE a, b \in Nat
  <1>1. \E x \in {a, b} : \A y \in {a, b} : x =< y
    OBVIOUS
  <1>2. Min({a, b}) \in {a, b} /\ \A y \in {a, b} : Min({a, b}) =< y
    BY <1>1 DEF Min
  <1> QED
    BY <1>2

\* version_downloads is finite.
LEMMA KeysFinite == IsFiniteSet(DownloadKeys)
  <1>1. IsFiniteSet(Versions)
    BY DownloadsAssumption
  <1>2. IsFiniteSet(Days)
    BY DownloadsAssumption, FS_Interval DEF Days
  <1> QED
    BY <1>1, <1>2, FS_Product DEF DownloadKeys

\* save_downloads adds what the log file has to every row, and changes nothing else.
LEMMA SavedRows ==
  ASSUME RowTypes, NEW l \in Logs
  PROVE  LET new == SaveDownloads(l) IN
         /\ new \in [DownloadKeys -> Row]
         /\ \A k \in DownloadKeys :
              /\ new[k].downloads = rows[k].downloads + InLog(l, k)
              /\ new[k].counted = rows[k].counted
              /\ (new[k].exists <=> rows[k].exists \/ k \in DOMAIN Counted[l].map)
              /\ k \notin DOMAIN Counted[l].map => new[k] = rows[k] /\ InLog(l, k) = 0
  <1> DEFINE new == SaveDownloads(l)
  <1>1. ASSUME NEW k \in DownloadKeys
        PROVE  /\ new[k] \in Row
               /\ new[k].downloads = rows[k].downloads + InLog(l, k)
               /\ new[k].counted = rows[k].counted
               /\ (new[k].exists <=> rows[k].exists \/ k \in DOMAIN Counted[l].map)
               /\ k \notin DOMAIN Counted[l].map => new[k] = rows[k] /\ InLog(l, k) = 0
    <2>1. rows[k] \in Row
      BY DEF RowTypes, Row
    <2>2. InLog(l, k) \in Nat
      BY InLogType
    <2>3. CASE k \in DOMAIN Counted[l].map
      <3>1. new[k] = [rows[k] EXCEPT !.downloads = @ + InLog(l, k), !.exists = TRUE]
        BY <2>3 DEF SaveDownloads
      <3> HIDE DEF new
      <3>2. new[k] \in Row
        <4>1. \A r \in Row, n \in Nat : [r EXCEPT !.downloads = @ + n, !.exists = TRUE] \in Row
          <5> TAKE r \in Row, n \in Nat
          <5>1. r.downloads + n \in Nat
            BY DEF Row
          <5> QED
            BY <5>1, Zenon DEF Row
        <4> QED
          BY <2>1, <2>2, <3>1, <4>1
      <3>3. new[k].downloads = rows[k].downloads + InLog(l, k) /\ new[k].counted = rows[k].counted
        BY <2>1, <3>1 DEF Row
      <3>4. new[k].exists
        BY <2>1, <3>1 DEF Row
      <3> QED
        BY <2>3, <3>2, <3>3, <3>4
    <2>4. CASE k \notin DOMAIN Counted[l].map
      <3>1. new[k] = rows[k]
        BY <2>4 DEF SaveDownloads
      <3>2. InLog(l, k) = 0
        BY <2>4 DEF InLog
      <3> HIDE DEF new
      <3> QED
        BY <2>1, <2>4, <3>1, <3>2 DEF Row
    <2> QED
      BY <2>3, <2>4
  <1>2. new = [k \in DownloadKeys |-> new[k]]
    BY DEF SaveDownloads
  <1> HIDE DEF new
  <1>3. new \in [DownloadKeys -> Row]
    BY <1>1, <1>2
  <1>4. /\ new \in [DownloadKeys -> Row]
        /\ \A k \in DownloadKeys :
              /\ new[k].downloads = rows[k].downloads + InLog(l, k)
              /\ new[k].counted = rows[k].counted
              /\ (new[k].exists <=> rows[k].exists \/ k \in DOMAIN Counted[l].map)
              /\ k \notin DOMAIN Counted[l].map => new[k] = rows[k] /\ InLog(l, k) = 0
    BY <1>1, <1>3
  <1> QED
    BY <1>4 DEF new

\* The rows once an update has them counted
LEMMA AppliedRows ==
  ASSUME RowTypes, NEW u \in Updaters
  PROVE  LET run == updRun[u]
             new == Applied(run.batch, run.gone) IN
         /\ new \in [DownloadKeys -> Row]
         /\ \A k \in DownloadKeys :
              /\ new[k].downloads = rows[k].downloads
              /\ new[k].exists = rows[k].exists
              /\ new[k].counted = rows[k].counted +
                   (IF k \in DOMAIN run.batch \ run.gone THEN run.batch[k] ELSE 0)
              /\ k \notin DOMAIN run.batch \ run.gone => new[k] = rows[k]
  <1> DEFINE run == updRun[u]
             new == Applied(run.batch, run.gone)
  <1>1. ASSUME NEW k \in DownloadKeys
        PROVE  /\ new[k] \in Row
               /\ new[k].downloads = rows[k].downloads
               /\ new[k].exists = rows[k].exists
               /\ new[k].counted = rows[k].counted +
                    (IF k \in DOMAIN run.batch \ run.gone THEN run.batch[k] ELSE 0)
               /\ k \notin DOMAIN run.batch \ run.gone => new[k] = rows[k]
    <2>1. rows[k] \in Row
      BY DEF RowTypes, Row
    <2>2. \A x \in DOMAIN run.batch : run.batch[x] \in Int
      BY DEF RowTypes
    <2>3. CASE k \in DOMAIN run.batch \ run.gone
      <3>1. new[k] = [rows[k] EXCEPT !.counted = @ + run.batch[k]]
        BY <2>3 DEF Applied
      <3>2. run.batch[k] \in Int
        BY <2>2, <2>3
      <3> HIDE DEF new, run
      <3> QED
        BY <2>1, <2>3, <3>1, <3>2 DEF Row
    <2>4. CASE k \notin DOMAIN run.batch \ run.gone
      <3>1. new[k] = rows[k]
        BY <2>4 DEF Applied
      <3> HIDE DEF new, run
      <3> QED
        BY <2>1, <2>4, <3>1 DEF Row
    <2> QED
      BY <2>3, <2>4
  <1>2. new = [k \in DownloadKeys |-> new[k]]
    BY DEF Applied
  <1> HIDE DEF new
  <1>3. new \in [DownloadKeys -> Row]
    BY <1>1, <1>2
  <1>4. /\ new \in [DownloadKeys -> Row]
        /\ \A k \in DownloadKeys :
              /\ new[k].downloads = rows[k].downloads
              /\ new[k].exists = rows[k].exists
              /\ new[k].counted = rows[k].counted +
                   (IF k \in DOMAIN run.batch \ run.gone THEN run.batch[k] ELSE 0)
              /\ k \notin DOMAIN run.batch \ run.gone => new[k] = rows[k]
    BY <1>1, <1>3
  <1> QED
    BY <1>4 DEF new

\* There are no rows and no runs in the beginning.
LEMMA InitRows == DownloadsInit => RowTypes /\ BatchInd
  <1> SUFFICES ASSUME DownloadsInit PROVE RowTypes /\ BatchInd
    OBVIOUS
  <1>1. rows = [k \in DownloadKeys |-> NoRow] /\ updRun = [u \in Updaters |-> NoUpdate]
    BY DEF DownloadsInit
  <1>2. DOMAIN EmptyMap = {} /\ Cardinality({}) = 0 /\ 0 <= BatchSize
    BY FS_EmptySet, DownloadsAssumption DEF EmptyMap
  <1> QED
    BY <1>1, <1>2 DEF RowTypes, BatchInd, RowsSound, SoleReader, RunInd, Open, NoRow, NoUpdate

\* The run of one worker changes, and the rows stay.
LEMMA ChangedRun ==
  ASSUME RowTypes, BatchInd, UNCHANGED <<rows, archive>>, NEW u \in Updaters,
         NEW pc \in {"idle", "next", "read", "freeze"}, NEW batch,
         updRun'[u] = [pc |-> pc, batch |-> batch, gone |-> {}],
         pc # "read" => batch = EmptyMap,
         \A x \in Updaters \ {u} : updRun'[x] = updRun[x],
         updRun' = [x \in Updaters |-> updRun'[x]],
         twice \subseteq twice',
         \A x \in Updaters \ {u} : DOMAIN batch \cap DOMAIN updRun[x].batch \subseteq twice',
         DOMAIN batch \subseteq DownloadKeys, Cardinality(DOMAIN batch) <= BatchSize,
         \A k \in DOMAIN batch : batch[k] \in Int /\ rows[k].exists,
         \A k \in DOMAIN batch \ twice' : batch[k] \in Nat \ {0} /\ batch[k] <= Open(k)
  PROVE  RowTypes' /\ BatchInd'
  <1>1. RowTypes'
    <2>1. ASSUME NEW x \in Updaters
          PROVE  updRun'[x] = [pc |-> updRun'[x].pc, batch |-> updRun'[x].batch, gone |-> updRun'[x].gone]
      <3>1. CASE x = u
        BY <3>1
      <3>2. CASE x # u
        BY <3>2 DEF RowTypes
      <3> QED
        BY <3>1, <3>2
    <2>2. ASSUME NEW x \in Updaters
          PROVE  LET run == updRun'[x] IN
                 /\ run.pc \in {"idle", "next", "read", "freeze"}
                 /\ run.gone \subseteq DOMAIN run.batch /\ DOMAIN run.batch \subseteq DownloadKeys
                 /\ \A k \in DOMAIN run.batch : run.batch[k] \in Int
      <3>1. CASE x = u
        BY <3>1
      <3>2. CASE x # u
        BY <3>2 DEF RowTypes
      <3> QED
        BY <3>1, <3>2
    <2>3. updRun' = [x \in Updaters |->
            [pc |-> updRun'[x].pc, batch |-> updRun'[x].batch, gone |-> updRun'[x].gone]]
      BY <2>1
    <2> QED
      BY <2>2, <2>3 DEF RowTypes
  <1>2. \A k : Open(k)' = Open(k)
    BY DEF Open
  <1>3. RowsSound'
    BY DEF BatchInd, RowsSound, Open
  <1>4. SoleReader'
    <2> SUFFICES ASSUME NEW x \in Updaters, NEW y \in Updaters,
                        NEW k \in DOMAIN updRun'[x].batch \cap DOMAIN updRun'[y].batch,
                        k \notin twice'
                 PROVE  x = y
      BY DEF SoleReader
    <2>1. updRun'[u].batch = batch
      OBVIOUS
    <2>2. x # u /\ y # u => x = y
      BY DEF BatchInd, SoleReader
    <2> QED
      BY <2>1, <2>2
  <1>5. ASSUME NEW x \in Updaters PROVE RunInd(updRun[x])'
    <2>1. CASE x = u
      <3>1. \A k \in DOMAIN batch \ twice' : batch[k] <= Open(k)'
        BY <1>2
      <3>2. updRun'[x].pc = pc /\ updRun'[x].batch = batch /\ updRun'[x].gone = {}
        BY <2>1
      <3> QED
        BY <3>1, <3>2 DEF RunInd
    <2>2. CASE x # u
      <3>1. updRun'[x] = updRun[x] /\ RunInd(updRun[x])
        BY <2>2 DEF BatchInd
      <3>2. \A k \in DOMAIN updRun[x].batch \ twice' :
              /\ updRun[x].batch[k] \in Nat \ {0}
              /\ k \notin updRun[x].gone => updRun[x].batch[k] <= Open(k)'
        BY <1>2, <3>1 DEF RunInd
      <3> QED
        BY <3>1, <3>2 DEF RunInd
    <2> QED
      BY <2>1, <2>2
  <1> QED
    BY <1>1, <1>3, <1>4, <1>5 DEF BatchInd

\* Whatever commits while a batch is read, no row is counted beyond its downloads but one
\* that two runs have read at once.
LEMMA StepRows ==
  LogTypes /\ RowTypes /\ BatchInd /\ ArchiveInd /\ [DownloadsNext]_downloadVars
    => RowTypes' /\ BatchInd'
  <1> SUFFICES ASSUME LogTypes, RowTypes, BatchInd, ArchiveInd, [DownloadsNext]_downloadVars
               PROVE  RowTypes' /\ BatchInd'
    OBVIOUS
  <1> USE DEF front, counts, store, downloadHistory
  <1>0. /\ DOMAIN EmptyMap = {} /\ Cardinality({}) = 0 /\ BatchSize \in Nat \ {0}
        /\ \A k \in DownloadKeys : rows[k].downloads \in Nat /\ rows[k].counted \in Int
    BY FS_EmptySet, DownloadsAssumption DEF EmptyMap, RowTypes
  <1>1. ASSUME UNCHANGED <<rows, updRun, archive, twice>> PROVE RowTypes' /\ BatchInd'
    BY <1>1 DEF RowTypes, BatchInd, RowsSound, SoleReader, RunInd, Open
  <1>2. CASE UNCHANGED downloadVars
    BY <1>1, <1>2 DEF downloadVars
  <1>3. ASSUME NEW q \in QueueRuns, QueueNext(q) \/ QueueFail(q) PROVE RowTypes' /\ BatchInd'
    BY <1>1, <1>3 DEF QueueNext, QueueFail, Receive, ProcessBody, DeleteMessage, Trouble
  <1>4. ASSUME \/ NextDay \/ CleanProcessedLogFiles
               \/ \E m \in Messages : Announce(m)
               \/ \E a \in Archivers : ArchiveFail(a) \/ \E before \in Days \cup {MaxDay + 1} : Export(a, before)
        PROVE  RowTypes' /\ BatchInd'
    BY <1>1, <1>4 DEF NextDay, CleanProcessedLogFiles, Export, ArchiveFail, Announce
  <1>5. ASSUME NEW w \in LogWorkers, NEW l \in Logs,
               SaveAsProcessed(w, l) \/ RejectLog(w, l) \/ LogFail(w, l) \/ StartLog(w, l)
        PROVE  RowTypes' /\ BatchInd'
    BY <1>1, <1>5 DEF SaveAsProcessed, RejectLog, LogFail, StartLog, EndLog
  <1>6. ASSUME NEW w \in LogWorkers, NEW l \in Logs, CommitLog(w, l)
        PROVE  RowTypes' /\ BatchInd'
    <2>1. rows' = SaveDownloads(l) /\ UNCHANGED <<updRun, archive, twice>>
      BY <1>6 DEF CommitLog
    <2>2. /\ rows' \in [DownloadKeys -> Row]
          /\ \A k \in DownloadKeys :
               /\ rows'[k].downloads = rows[k].downloads + InLog(l, k)
               /\ rows'[k].counted = rows[k].counted
               /\ (rows'[k].exists <=> rows[k].exists \/ k \in DOMAIN Counted[l].map)
               /\ k \notin DOMAIN Counted[l].map => rows'[k] = rows[k]
               /\ InLog(l, k) \in Nat
      BY <2>1, SavedRows, InLogType
    <2>3. RowTypes'
      BY <2>1, <2>2 DEF RowTypes, Row
    <2>4. \A k \in DownloadKeys : Open(k)' >= Open(k)
      BY <1>0, <2>2 DEF Open
    <2>5. \A k \in DownloadKeys : Open(k)' \in Int /\ Open(k) \in Int
      BY <1>0, <2>2 DEF Open, Row
    <2>6. ASSUME NEW k \in DownloadKeys
          PROVE  (k \notin twice => Open(k)' >= 0) /\ (~rows'[k].exists => rows'[k] = NoRow)
      <3>1. (k \notin twice => Open(k) >= 0) /\ (~rows[k].exists => rows[k] = NoRow)
        BY DEF BatchInd, RowsSound
      <3>2. k \notin twice => Open(k)' >= 0
        BY <2>4, <2>5, <3>1
      <3>3. ~rows'[k].exists => rows'[k] = NoRow
        BY <2>2, <3>1
      <3> QED
        BY <3>2, <3>3
    <2>7. \A u \in Updaters : \A k \in DOMAIN updRun[u].batch \ updRun[u].gone :
            rows'[k].exists /\ (k \notin twice => updRun[u].batch[k] <= Open(k)')
      <3> SUFFICES ASSUME NEW u \in Updaters, NEW k \in DOMAIN updRun[u].batch \ updRun[u].gone
                   PROVE  rows'[k].exists /\ (k \notin twice => updRun[u].batch[k] <= Open(k)')
        OBVIOUS
      <3>1. /\ k \in DownloadKeys /\ rows[k].exists /\ updRun[u].batch[k] \in Int
            /\ k \notin twice => updRun[u].batch[k] <= Open(k)
        BY DEF RowTypes, BatchInd, RunInd
      <3>2. rows'[k].exists
        BY <2>2, <3>1
      <3> QED
        BY <2>4, <2>5, <3>1, <3>2
    <2>8. \A u \in Updaters : RunInd(updRun[u])'
      <3> TAKE u \in Updaters
      <3>1. RunInd(updRun[u])
        BY DEF BatchInd
      <3> QED
        BY <2>1, <2>7, <3>1 DEF RunInd
    <2> QED
      BY <2>1, <2>3, <2>6, <2>8 DEF BatchInd, RowsSound, SoleReader
  <1>7. ASSUME NEW u \in Updaters, StartUpdate(u) \/ UpdateFail(u) PROVE RowTypes' /\ BatchInd'
    <2>1. /\ UNCHANGED <<rows, archive, twice>>
          /\ \/ updRun' = [updRun EXCEPT ![u] = NoUpdate]
             \/ updRun[u].pc = "idle" /\ updRun' = [updRun EXCEPT ![u].pc = "next"]
      BY <1>7 DEF StartUpdate, UpdateFail
    <2>2. PICK pc \in {"idle", "next"} : updRun'[u] = [pc |-> pc, batch |-> EmptyMap, gone |-> {}]
      <3>1. CASE updRun' = [updRun EXCEPT ![u] = NoUpdate]
        BY <3>1 DEF RowTypes, NoUpdate
      <3>2. CASE updRun[u].pc = "idle" /\ updRun' = [updRun EXCEPT ![u].pc = "next"]
        <4>0. updRun[u] = [pc |-> updRun[u].pc, batch |-> updRun[u].batch, gone |-> updRun[u].gone]
          BY DEF RowTypes
        <4>1. updRun[u] = [pc |-> "idle", batch |-> EmptyMap, gone |-> {}]
          BY <3>2, <4>0 DEF BatchInd, RunInd
        <4>2. [[pc |-> "idle", batch |-> EmptyMap, gone |-> {}] EXCEPT !.pc = "next"]
                = [pc |-> "next", batch |-> EmptyMap, gone |-> {}]
          OBVIOUS
        <4>3. updRun'[u] = [updRun[u] EXCEPT !.pc = "next"]
          BY <3>2 DEF RowTypes
        <4> QED
          BY <4>1, <4>2, <4>3
      <3> QED
        BY <2>1, <3>1, <3>2
    <2>3. \A x \in Updaters \ {u} : updRun'[x] = updRun[x]
      BY <2>1 DEF RowTypes
    <2>4. updRun' = [x \in Updaters |-> updRun'[x]]
      BY <2>1 DEF RowTypes
    <2>5. DOMAIN EmptyMap \subseteq DownloadKeys /\ Cardinality(DOMAIN EmptyMap) <= BatchSize
      BY <1>0
    <2> QED
      BY <1>0, <2>1, <2>2, <2>3, <2>4, <2>5, ChangedRun
  <1>8. ASSUME NEW u \in Updaters, BatchRead(u) PROVE RowTypes' /\ BatchInd'
    <2>1. PICK ks \in SUBSET Uncounted :
            /\ Cardinality(ks) = Min({BatchSize, Cardinality(Uncounted)})
            /\ updRun' = [updRun EXCEPT ![u] =
                 [pc |-> "read", gone |-> {},
                  batch |-> [k \in ks |-> rows[k].downloads - rows[k].counted]]]
            /\ twice' = twice \cup (ks \cap Reading)
      BY <1>8 DEF BatchRead
    <2>2. UNCHANGED <<rows, archive>> /\ updRun[u].pc = "next"
      BY <1>8 DEF BatchRead
    <2> DEFINE batch == [k \in ks |-> rows[k].downloads - rows[k].counted]
    <2>3. /\ DOMAIN batch = ks /\ ks \subseteq DownloadKeys
          /\ \A k \in ks : batch[k] \in Int /\ rows[k].exists
          /\ \A k \in ks \ twice : batch[k] \in Nat \ {0} /\ batch[k] <= Open(k)
      <3> SUFFICES ASSUME NEW k \in ks
                   PROVE  /\ batch[k] \in Int /\ rows[k].exists
                          /\ k \notin twice => batch[k] \in Nat \ {0} /\ batch[k] <= Open(k)
        BY DEF Uncounted
      <3>1. k \in DownloadKeys /\ rows[k].downloads # rows[k].counted
        BY DEF Uncounted
      <3>2. batch[k] = Open(k) /\ (k \notin twice => Open(k) >= 0)
        BY <3>1 DEF Open, BatchInd, RowsSound
      <3>3. Open(k) \in Int /\ Open(k) # 0
        BY <1>0, <3>1 DEF Open
      <3>4. rows[k].exists
        BY <3>1 DEF BatchInd, RowsSound, NoRow
      <3> QED
        BY <3>2, <3>3, <3>4
    <2>4. Cardinality(ks) <= BatchSize
      <3>1. IsFiniteSet(Uncounted)
        <4>1. Uncounted \in SUBSET DownloadKeys
          BY DEF Uncounted
        <4> QED
          BY <4>1, KeysFinite, FS_Subset
      <3>2. Cardinality(Uncounted) \in Nat
        BY <3>1, FS_CardinalityType
      <3> QED
        BY <1>0, <2>1, <3>2, MinBound
    <2> HIDE DEF batch
    <2>5. /\ updRun'[u] = [pc |-> "read", gone |-> {}, batch |-> batch]
          /\ \A x \in Updaters \ {u} : updRun'[x] = updRun[x]
          /\ updRun' = [x \in Updaters |-> updRun'[x]]
      BY <2>1 DEF batch, RowTypes
    <2>6. /\ twice \subseteq twice'
          /\ \A x \in Updaters \ {u} : DOMAIN batch \cap DOMAIN updRun[x].batch \subseteq twice'
      BY <2>1, <2>3 DEF Reading
    <2>7. /\ \A k \in DOMAIN batch : batch[k] \in Int /\ rows[k].exists
          /\ \A k \in DOMAIN batch \ twice' : batch[k] \in Nat \ {0} /\ batch[k] <= Open(k)
      BY <2>3, <2>6
    <2>8. DOMAIN batch \subseteq DownloadKeys /\ Cardinality(DOMAIN batch) <= BatchSize
      BY <2>3, <2>4
    <2> QED
      BY <2>2, <2>5, <2>6, <2>7, <2>8, ChangedRun
  <1>9. ASSUME NEW u \in Updaters, NEW timeout \in BOOLEAN, BatchApply(u, timeout)
        PROVE  RowTypes' /\ BatchInd'
    <2> DEFINE run == updRun[u]
    <2>1. /\ run.pc = "read"
          /\ rows' = Applied(run.batch, run.gone)
          /\ updRun' = [updRun EXCEPT ![u] = [NoUpdate EXCEPT !.pc =
                 IF Cardinality(DOMAIN run.batch) = BatchSize /\ ~timeout THEN "next" ELSE "freeze"]]
          /\ UNCHANGED <<archive, twice>>
      BY <1>9 DEF BatchApply
    <2>2. /\ rows' \in [DownloadKeys -> Row]
          /\ \A k \in DownloadKeys :
               /\ rows'[k].downloads = rows[k].downloads
               /\ rows'[k].exists = rows[k].exists
               /\ rows'[k].counted = rows[k].counted +
                    (IF k \in DOMAIN run.batch \ run.gone THEN run.batch[k] ELSE 0)
               /\ k \notin DOMAIN run.batch \ run.gone => rows'[k] = rows[k]
      BY <2>1, AppliedRows
    <2>3. PICK pc \in {"next", "freeze"} : updRun' = [updRun EXCEPT ![u] = [NoUpdate EXCEPT !.pc = pc]]
      BY <2>1
    <2>4. /\ updRun'[u].pc = pc /\ updRun'[u].batch = EmptyMap /\ updRun'[u].gone = {}
          /\ \A x \in Updaters \ {u} : updRun'[x] = updRun[x]
      BY <2>3 DEF RowTypes, NoUpdate
    <2>5. \A k \in DownloadKeys : Open(k)' \in Int /\ Open(k) \in Int
      BY <1>0, <2>2 DEF Open, Row
    <2>6. ASSUME NEW k \in DownloadKeys
          PROVE  (k \notin twice => Open(k)' >= 0) /\ (~rows'[k].exists => rows'[k] = NoRow)
      <3>1. CASE k \in DOMAIN run.batch \ run.gone
        <4>1. /\ rows[k].exists /\ run.batch[k] \in Int
              /\ k \notin twice => run.batch[k] <= Open(k)
          BY <3>1 DEF BatchInd, RunInd, RowTypes
        <4>2. Open(k)' = Open(k) - run.batch[k]
          BY <1>0, <2>2, <3>1, <4>1 DEF Open
        <4>3. k \notin twice => Open(k)' >= 0
          BY <2>5, <4>1, <4>2
        <4> QED
          BY <2>2, <4>1, <4>3
      <3>2. CASE k \notin DOMAIN run.batch \ run.gone
        BY <2>2, <3>2 DEF BatchInd, RowsSound, Open
      <3> QED
        BY <3>1, <3>2
    <2>7. RowTypes'
      <3>1. updRun' = [x \in Updaters |->
              [pc |-> updRun'[x].pc, batch |-> updRun'[x].batch, gone |-> updRun'[x].gone]]
        <4>1. ASSUME NEW x \in Updaters
              PROVE  updRun'[x] =
                [pc |-> updRun'[x].pc, batch |-> updRun'[x].batch, gone |-> updRun'[x].gone]
          <5>1. CASE x = u
            <6>1. updRun'[x] = [NoUpdate EXCEPT !.pc = pc]
              BY <2>3, <5>1 DEF RowTypes
            <6> QED
              BY <6>1 DEF NoUpdate
          <5>2. CASE x # u
            BY <2>3, <5>2 DEF RowTypes
          <5> QED
            BY <5>1, <5>2
        <4>2. updRun' = [x \in Updaters |-> updRun'[x]]
          BY <2>3 DEF RowTypes
        <4> QED
          BY <4>1, <4>2
      <3>2. ASSUME NEW x \in Updaters
            PROVE  /\ updRun'[x].pc \in {"idle", "next", "read", "freeze"}
                   /\ updRun'[x].gone \subseteq DOMAIN updRun'[x].batch
                   /\ DOMAIN updRun'[x].batch \subseteq DownloadKeys
                   /\ \A k \in DOMAIN updRun'[x].batch : updRun'[x].batch[k] \in Int
        <4>1. CASE x = u
          BY <1>0, <2>4, <4>1
        <4>2. CASE x # u
          BY <2>4, <4>2 DEF RowTypes
        <4> QED
          BY <4>1, <4>2
      <3> QED
        BY <2>2, <3>1, <3>2 DEF RowTypes, Row
    <2>8. SoleReader'
      <3> SUFFICES ASSUME NEW x \in Updaters, NEW y \in Updaters,
                          NEW k \in DOMAIN updRun'[x].batch \cap DOMAIN updRun'[y].batch,
                          k \notin twice
                   PROVE  x = y
        BY <2>1 DEF SoleReader
      <3>1. x # u /\ y # u
        BY <1>0, <2>4
      <3> QED
        BY <2>4, <3>1 DEF BatchInd, SoleReader
    <2>9. ASSUME NEW x \in Updaters PROVE RunInd(updRun[x])'
      <3>1. CASE x = u
        BY <1>0, <2>4, <3>1 DEF RunInd
      <3>2. CASE x # u
        <4>1. updRun'[x] = updRun[x] /\ RunInd(updRun[x]) /\ RunInd(run)
          BY <2>4, <3>2 DEF BatchInd
        <4>2. ASSUME NEW k \in DOMAIN updRun[x].batch \ updRun[x].gone
              PROVE  rows'[k].exists /\ (k \notin twice => updRun[x].batch[k] <= Open(k)')
          <5>1. k \in DownloadKeys /\ rows[k].exists
            BY <4>1 DEF RowTypes, RunInd
          <5>2. k \notin twice => k \notin DOMAIN run.batch
            BY <3>2 DEF BatchInd, SoleReader
          <5>3. k \notin twice => Open(k)' = Open(k)
            BY <2>2, <5>1, <5>2 DEF Open
          <5>4. rows'[k].exists
            BY <2>2, <5>1
          <5> QED
            BY <4>1, <5>3, <5>4 DEF RunInd
        <4> QED
          BY <2>1, <4>1, <4>2 DEF RunInd
      <3> QED
        BY <3>1, <3>2
    <2>10. RowsSound'
      BY <2>1, <2>6 DEF RowsSound
    <2> QED
      BY <2>7, <2>8, <2>9, <2>10 DEF BatchInd
  <1>10. ASSUME NEW u \in Updaters, Freeze(u) PROVE RowTypes' /\ BatchInd'
    <2>1. /\ rows' = [k \in DownloadKeys |-> IF Frozen(rows[k], k[2])
                                     THEN [rows[k] EXCEPT !.processed = TRUE] ELSE rows[k]]
          /\ updRun' = [updRun EXCEPT ![u] = NoUpdate]
          /\ UNCHANGED <<archive, twice>>
      BY <1>10 DEF Freeze
    <2>2. \A k \in DownloadKeys :
            /\ rows'[k] \in Row /\ (~rows[k].exists => rows'[k] = rows[k])
            /\ rows'[k].downloads = rows[k].downloads /\ rows'[k].counted = rows[k].counted
            /\ rows'[k].exists = rows[k].exists
      <3> TAKE k \in DownloadKeys
      <3>1. rows[k] \in Row
        BY DEF RowTypes, Row
      <3>2. \/ rows'[k] = rows[k]
            \/ rows[k].exists /\ rows'[k] = [rows[k] EXCEPT !.processed = TRUE]
        BY <2>1 DEF Frozen
      <3> QED
        BY <3>1, <3>2 DEF Row
    <2>3. rows' \in [DownloadKeys -> Row]
      BY <2>1, <2>2
    <2>4. /\ updRun'[u] = NoUpdate
          /\ \A x \in Updaters \ {u} : updRun'[x] = updRun[x]
          /\ updRun' = [x \in Updaters |-> updRun'[x]]
      BY <2>1 DEF RowTypes
    <2>5. RowTypes'
      BY <1>0, <2>3, <2>4 DEF RowTypes, Row, NoUpdate
    <2>6. \A k \in DownloadKeys : Open(k)' = Open(k)
      BY <2>2 DEF Open
    <2>7. RowsSound'
      <3> SUFFICES ASSUME NEW k \in DownloadKeys
                   PROVE  /\ k \notin twice => Open(k)' >= 0
                          /\ ~rows'[k].exists => rows'[k] = NoRow
        BY <2>1 DEF RowsSound
      <3>1. (k \notin twice => Open(k) >= 0) /\ (~rows[k].exists => rows[k] = NoRow)
        BY DEF BatchInd, RowsSound
      <3> HIDE DEF Open
      <3> QED
        BY <2>2, <2>6, <3>1
    <2>8. SoleReader'
      BY <1>0, <2>1, <2>4 DEF BatchInd, SoleReader, NoUpdate
    <2>9. ASSUME NEW x \in Updaters PROVE RunInd(updRun[x])'
      <3>1. CASE x = u
        <4>1. updRun'[x].pc = "idle" /\ updRun'[x].batch = EmptyMap /\ updRun'[x].gone = {}
          BY <2>4, <3>1 DEF NoUpdate
        <4> QED
          BY <1>0, <4>1 DEF RunInd
      <3>2. CASE x # u
        <4>1. updRun'[x] = updRun[x] /\ RunInd(updRun[x])
          BY <2>4, <3>2 DEF BatchInd
        <4>2. \A k \in DOMAIN updRun[x].batch : Open(k)' = Open(k) /\ rows'[k].exists = rows[k].exists
          BY <2>2, <2>6 DEF RowTypes
        <4> QED
          BY <2>1, <4>1, <4>2 DEF RunInd
      <3> QED
        BY <3>1, <3>2
    <2> QED
      BY <2>5, <2>7, <2>8, <2>9 DEF BatchInd
  <1>11. ASSUME NEW a \in Archivers, UploadCsv(a) PROVE RowTypes' /\ BatchInd'
    <2>1. UNCHANGED <<rows, updRun, twice>>
      BY <1>11 DEF UploadCsv
    <2>2. \A d \in Days : archive[d] # EmptyMap => archive'[d] # EmptyMap
      BY <1>11 DEF UploadCsv, ArchiveInd, ArchiveTypes
    <2> QED
      BY <2>1, <2>2 DEF RowTypes, BatchInd, RowsSound, SoleReader, RunInd, Open
  <1>12. ASSUME NEW a \in Archivers, NEW ok \in BOOLEAN, DeleteArchived(a, ok)
         PROVE  RowTypes' /\ BatchInd'
    <2> DEFINE dates == IF ok THEN archRun[a].dates ELSE {}
               deleted == {k \in DownloadKeys : k[2] \in dates}
    <2>1. /\ rows' = [k \in DownloadKeys |-> IF k \in deleted THEN NoRow ELSE rows[k]]
          /\ updRun' = [u \in Updaters |->
               [updRun[u] EXCEPT !.gone = @ \cup (deleted \cap DOMAIN updRun[u].batch)]]
          /\ UNCHANGED <<archive, twice>>
      BY <1>12 DEF DeleteArchived
    <2>2. deleted # {} => \E d \in Days : archive[d] # EmptyMap
      BY DEF ArchiveInd, ArchiveTypes
    <2> HIDE DEF deleted
    <2>3. \A u \in Updaters :
            /\ updRun'[u] = [pc |-> updRun'[u].pc, batch |-> updRun'[u].batch, gone |-> updRun'[u].gone]
            /\ updRun'[u].pc = updRun[u].pc /\ updRun'[u].batch = updRun[u].batch
            /\ updRun'[u].gone = updRun[u].gone \cup (deleted \cap DOMAIN updRun[u].batch)
      <3> TAKE u \in Updaters
      <3>1. updRun[u] = [pc |-> updRun[u].pc, batch |-> updRun[u].batch, gone |-> updRun[u].gone]
        BY DEF RowTypes
      <3>2. updRun'[u] = [updRun[u] EXCEPT !.gone = @ \cup (deleted \cap DOMAIN updRun[u].batch)]
        BY <2>1
      <3> QED
        BY <3>1, <3>2
    <2>4. NoRow \in Row /\ NoRow.downloads - NoRow.counted = 0
      BY DEF NoRow, Row
    <2>5. RowTypes'
      <3>1. rows' \in [DownloadKeys -> Row]
        BY <2>1, <2>4 DEF RowTypes, Row
      <3>2. updRun' = [u \in Updaters |->
              [pc |-> updRun'[u].pc, batch |-> updRun'[u].batch, gone |-> updRun'[u].gone]]
        BY <2>1, <2>3
      <3> QED
        BY <2>3, <3>1, <3>2 DEF RowTypes, Row
    <2>6. \A k \in DownloadKeys :
            (k \notin twice => Open(k)' >= 0) /\ (~rows'[k].exists => rows'[k] = NoRow)
      <3> TAKE k \in DownloadKeys
      <3>1. CASE k \in deleted
        <4>1. rows'[k] = NoRow
          BY <2>1, <3>1
        <4> QED
          BY <2>4, <4>1 DEF Open
      <3>2. CASE k \notin deleted
        BY <2>1, <3>2 DEF Open, BatchInd, RowsSound, SoleReader, RunInd
      <3> QED
        BY <3>1, <3>2
    <2>7. \A u \in Updaters : \A k \in DOMAIN updRun'[u].batch \ updRun'[u].gone :
            rows'[k].exists /\ (k \notin twice => updRun'[u].batch[k] <= Open(k)')
      <3> SUFFICES ASSUME NEW u \in Updaters, NEW k \in DOMAIN updRun'[u].batch \ updRun'[u].gone
                   PROVE  rows'[k].exists /\ (k \notin twice => updRun'[u].batch[k] <= Open(k)')
        OBVIOUS
      <3>1. k \in DOMAIN updRun[u].batch /\ k \notin updRun[u].gone /\ k \notin deleted
        BY <2>3
      <3>2. k \in DownloadKeys
        BY <3>1 DEF RowTypes
      <3>3. rows'[k] = rows[k]
        BY <2>1, <3>1, <3>2
      <3> QED
        BY <2>3, <3>1, <3>3 DEF BatchInd, RowsSound, SoleReader, RunInd, Open
    <2>8. \A u \in Updaters : updRun[u].pc # "read" => updRun'[u].gone = {}
      BY <1>0, <2>3 DEF BatchInd, RowsSound, SoleReader, RunInd
    <2>9. \A u \in Updaters : updRun'[u].gone # {} => \E d \in Days : archive[d] # EmptyMap
      BY <2>2, <2>3 DEF BatchInd, RowsSound, SoleReader, RunInd
    <2>10. \A u \in Updaters : RunInd(updRun[u])'
      <3> TAKE u \in Updaters
      <3>1. RunInd(updRun[u])
        BY DEF BatchInd
      <3> QED
        BY <2>1, <2>3, <2>7, <2>8, <2>9, <3>1 DEF RunInd
    <2>11. SoleReader'
      BY <2>1, <2>3 DEF BatchInd, SoleReader
    <2> QED
      BY <2>1, <2>5, <2>6, <2>10, <2>11 DEF BatchInd, RowsSound
  <1> QED
    BY <1>2, <1>3, <1>4, <1>5, <1>6, <1>7, <1>8, <1>9, <1>10, <1>11, <1>12
       DEF DownloadsNext, LogNext, UpdateNext, ArchiveNext

-----------------------------------------------------------------------------
(* Conservation: log files, rows and archive.                              *)

\* What the log files have for a key, each as often as s says
E(s, k) == SumOf([l \in Logs |-> s[l] * InLog(l, k)], {l \in Logs : s[l] > 0})

\* E is a sum over all log files, and a natural number.
LEMMA ExpectedSum ==
  ASSUME NEW s \in [Logs -> Nat], NEW k
  PROVE  /\ \A l \in Logs : s[l] * InLog(l, k) \in Nat
         /\ E(s, k) = SumOf([l \in Logs |-> s[l] * InLog(l, k)], Logs)
         /\ E(s, k) \in Nat
  <1> DEFINE f == [l \in Logs |-> s[l] * InLog(l, k)]
             z == [l \in Logs |-> 0]
             T == {l \in Logs : s[l] > 0}
  <1>1. \A l \in Logs : s[l] * InLog(l, k) \in Nat /\ (s[l] = 0 => s[l] * InLog(l, k) = 0)
    BY InLogType
  <1>2. /\ \A l \in Logs : f[l] \in Int /\ f[l] >= 0 /\ f[l] \in Nat /\ z[l] \in Int /\ z[l] <= f[l] /\ z[l] = 0
        /\ \A l \in Logs \ T : f[l] = 0
    BY <1>1
  <1>3. IsFiniteSet(Logs) /\ T \in SUBSET Logs
    BY DownloadsAssumption
  <1>4. E(s, k) = SumOf(f, T)
    BY DEF E
  <1> HIDE DEF f, z, T
  <1>5. SumOf(f, Logs) = SumOf(f, T)
    BY <1>2, <1>3, SumSupport
  <1>6. SumOf(f, Logs) \in Int
    BY <1>2, <1>3, SumType
  <1>7. SumOf(z, Logs) <= SumOf(f, Logs)
    BY <1>2, <1>3, SumMono
  <1>8. SumOf(z, Logs) = SumOf(z, {}) /\ SumOf(z, {}) = 0
    BY <1>2, <1>3, SumSupport, SumEmpty
  <1>9. SumOf(f, Logs) \in Nat
    BY <1>6, <1>7, <1>8
  <1> QED
    BY <1>1, <1>4, <1>5, <1>9 DEF f

\* A log file that is saved adds what is in it.
LEMMA ExpectedGrows ==
  ASSUME NEW s \in [Logs -> Nat], NEW l \in Logs, NEW k
  PROVE  E([s EXCEPT ![l] = @ + 1], k) = E(s, k) + InLog(l, k)
  <1> DEFINE t == [s EXCEPT ![l] = @ + 1]
             f == [x \in Logs |-> s[x] * InLog(x, k)]
             g == [x \in Logs |-> t[x] * InLog(x, k)]
             R == Logs \ {l}
  <1>1. t \in [Logs -> Nat] /\ t[l] = s[l] + 1 /\ \A x \in Logs \ {l} : t[x] = s[x]
    OBVIOUS
  <1> HIDE DEF t
  <1>2. E(s, k) = SumOf(f, Logs) /\ E(t, k) = SumOf(g, Logs)
    BY <1>1, ExpectedSum
  <1>3. \A x \in Logs : f[x] \in Int /\ g[x] \in Int /\ f[x] = s[x] * InLog(x, k) /\ g[x] = t[x] * InLog(x, k)
    <2>1. \A x \in Logs : s[x] * InLog(x, k) \in Nat /\ t[x] * InLog(x, k) \in Nat
      BY <1>1, ExpectedSum
    <2> QED
      BY <2>1
  <1>4. IsFiniteSet(Logs) /\ IsFiniteSet(R)
    BY DownloadsAssumption, FS_Subset
  <1>5. \A x \in R : f[x] = g[x] /\ f[x] \in Int
    BY <1>1, <1>3
  <1> HIDE DEF f, g
  <1>6. SumOf(f, Logs) = f[l] + SumOf(f, R) /\ SumOf(g, Logs) = g[l] + SumOf(g, R)
    BY <1>3, <1>4, SumRemove
  <1>7. SumOf(f, R) = SumOf(g, R)
    BY <1>4, <1>5, SumCong
  <1>8. SumOf(f, R) \in Int
    BY <1>4, <1>5, SumType
  <1>9. g[l] = f[l] + InLog(l, k)
    <2>1. \A a, b \in Nat : (a + 1) * b = a * b + b
      OBVIOUS
    <2>2. s[l] \in Nat /\ InLog(l, k) \in Nat
      BY InLogType
    <2> QED
      BY <1>1, <1>3, <2>1, <2>2
  <1>10. f[l] \in Int /\ InLog(l, k) \in Int
    BY <1>3, InLogType
  <1>11. SumOf(g, Logs) = SumOf(f, Logs) + InLog(l, k)
    BY <1>6, <1>7, <1>8, <1>9, <1>10
  <1> QED
    BY <1>2, <1>11 DEF t

\* The part of the invariant about the archive
ConservedInd == ArchiveInd /\ RowsComplete /\ DownloadsConserved

\* Nothing is expected in the beginning.
LEMMA InitConserved == DownloadsInit => ConservedInd
  <1> SUFFICES ASSUME DownloadsInit PROVE ConservedInd
    OBVIOUS
  <1>1. /\ archive = [d \in Days |-> EmptyMap] /\ archRun = [a \in Archivers |-> NoArchive]
        /\ rows = [k \in DownloadKeys |-> NoRow] /\ saved = [l \in Logs |-> 0] /\ removed = {}
    BY DEF DownloadsInit
  <1>2. \A k : Expected(k) = 0
    <2> TAKE k
    <2>1. {l \in Logs : saved[l] > 0} = {}
      BY <1>1
    <2> QED
      BY <2>1, SumEmpty DEF Expected
  <1>3. DOMAIN EmptyMap = {}
    BY DEF EmptyMap
  <1>4. ArchiveInd
    <2>1. ArchiveTypes /\ RemovedGone
      BY <1>1, <1>3 DEF ArchiveTypes, RemovedGone, NoArchive
    <2>2. \A d : Exported(d) = {} /\ Deleting = {}
      BY <1>1, <1>3 DEF Exported, Deleting, NoArchive
    <2>3. FilesFull
      BY <2>2 DEF FilesFull, FilesOf
    <2> QED
      BY <2>1, <2>3 DEF ArchiveInd
  <1>5. RowsComplete
    BY <1>2 DEF RowsComplete
  <1>6. DownloadsConserved
    BY <1>1, <1>2, <1>3 DEF DownloadsConserved, InArchive, NoRow, DownloadKeys
  <1> QED
    BY <1>4, <1>5, <1>6 DEF ConservedInd

\* Nothing happens to the log files, the rows' downloads or the archive.
LEMMA ConservedSame ==
  ASSUME ConservedInd, UNCHANGED <<saved, archRun, archive, removed>>,
         forgiven'.dates = forgiven.dates,
         \A k \in DownloadKeys : rows'[k].downloads = rows[k].downloads
                                   /\ (rows'[k].exists <=> rows[k].exists)
  PROVE  ConservedInd'
  <1>1. \A k : Expected(k)' = Expected(k) /\ InArchive(k)' = InArchive(k)
    BY DEF Expected, InArchive
  <1>2. \A v \in Versions, d \in Days : rows'[<<v, d>>].exists <=> rows[<<v, d>>].exists
    BY DEF DownloadKeys
  <1>3. ArchiveInd'
    <2>0. ArchiveTypes'
      BY DEF ConservedInd, ArchiveInd, ArchiveTypes
    <2>1. RemovedGone'
      <3>1. \A d \in removed : d \in Days
        BY DEF ConservedInd, ArchiveInd, ArchiveTypes
      <3>2. RemovedGone
        BY DEF ConservedInd, ArchiveInd
      <3> QED
        BY <1>2, <3>1, <3>2 DEF RemovedGone
    <2>2. \A d : FilesOf(d)' = FilesOf(d)
      BY DEF FilesOf, Exported, Deleting
    <2>3. \A f, d : Full(f, d)' = Full(f, d)
      BY <1>1 DEF Full
    <2>4. FilesFull'
      BY <2>2, <2>3 DEF ConservedInd, ArchiveInd, FilesFull
    <2> QED
      BY <2>0, <2>1, <2>4 DEF ArchiveInd
  <1>4. RowsComplete'
    BY <1>1 DEF ConservedInd, RowsComplete
  <1>5. DownloadsConserved'
    BY <1>1 DEF ConservedInd, DownloadsConserved
  <1> QED
    BY <1>3, <1>4, <1>5 DEF ConservedInd

\* What a run has exported, or deleted before, is all there is until a log file comes late.
LEMMA FullDates ==
  ASSUME ConservedInd, NEW d \in Days \ forgiven.dates, \E v \in Versions : rows[<<v, d>>].exists,
         NEW file,
         DOMAIN file = {v \in Versions : rows[<<v, d>>].exists},
         \A v \in DOMAIN file : file[v] = rows[<<v, d>>].downloads
  PROVE  Full(file, d)
  <1> SUFFICES ASSUME NEW v \in Versions
               PROVE  (IF v \in DOMAIN file THEN file[v] ELSE 0) = Expected(<<v, d>>)
    BY DEF Full
  <1>1. <<v, d>> \in DownloadKeys /\ <<v, d>>[2] = d /\ d \notin removed
    BY DEF DownloadKeys, ConservedInd, ArchiveInd, RemovedGone
  <1>2. rows[<<v, d>>].exists => Expected(<<v, d>>) = rows[<<v, d>>].downloads
    BY <1>1 DEF ConservedInd, DownloadsConserved
  <1>3. ~rows[<<v, d>>].exists => Expected(<<v, d>>) = 0
    BY <1>1 DEF ConservedInd, RowsComplete
  <1> QED
    BY <1>2, <1>3

\* A run of the archive goes on, and nothing else does.
LEMMA ArchiverSteps ==
  ASSUME ConservedInd, UNCHANGED <<rows, saved, forgiven, removed>>,
         NEW a \in Archivers,
         archRun' = [x \in Archivers |->
           [pc |-> archRun'[x].pc, files |-> archRun'[x].files, dates |-> archRun'[x].dates]],
         \A x \in Archivers \ {a} : archRun'[x] = archRun[x],
         archRun'[a].dates \subseteq DOMAIN archRun'[a].files,
         \A d \in DOMAIN archRun'[a].files :
           /\ d \in Days /\ archRun'[a].files[d] # EmptyMap
           /\ d \notin forgiven.dates => Full(archRun'[a].files[d], d),
         archive' = [d \in Days |-> archive'[d]],
         \A d \in Days : \/ archive'[d] = archive[d]
                         \/ d \in DOMAIN archRun'[a].files /\ archive'[d] = archRun'[a].files[d],
         \A d \in archRun'[a].dates : archive'[d] = archRun'[a].files[d]
  PROVE  ConservedInd'
  <1> DEFINE files == archRun'[a].files
             dates == archRun'[a].dates
  <1>1. \A k : Expected(k)' = Expected(k)
    BY DEF Expected
  <1>2. \A f, d : Full(f, d)' = Full(f, d)
    BY <1>1 DEF Full
  <1>3. ArchiveTypes'
    <2>1. ASSUME NEW x \in Archivers
          PROVE  /\ archRun'[x].dates \subseteq DOMAIN archRun'[x].files
                 /\ \A d \in DOMAIN archRun'[x].files : d \in Days /\ archRun'[x].files[d] # EmptyMap
                 /\ \A d \in archRun'[x].dates : archive'[d] # EmptyMap
      <3>1. CASE x = a
        BY <3>1
      <3>2. CASE x # a
        <4>1. archRun'[x] = archRun[x]
          BY <3>2
        <4>2. /\ archRun[x].dates \subseteq DOMAIN archRun[x].files
              /\ \A d \in DOMAIN archRun[x].files : d \in Days /\ archRun[x].files[d] # EmptyMap
              /\ \A d \in archRun[x].dates : archive[d] # EmptyMap
          BY DEF ConservedInd, ArchiveInd, ArchiveTypes
        <4> QED
          BY <4>1, <4>2
      <3> QED
        BY <3>1, <3>2
    <2>2. removed \subseteq Days
      BY DEF ConservedInd, ArchiveInd, ArchiveTypes
    <2> QED
      BY <2>1, <2>2 DEF ArchiveTypes
  <1>4. FilesFull'
    <2> SUFFICES ASSUME NEW d \in Days \ forgiven.dates, NEW file \in FilesOf(d)'
                 PROVE  Full(file, d)
      BY <1>2 DEF FilesFull
    <2>1. \A f \in FilesOf(d) : Full(f, d)
      BY DEF ConservedInd, ArchiveInd, FilesFull
    <2>2. d \in DOMAIN files => Full(files[d], d)
      OBVIOUS
    <2>3. CASE file \in Exported(d)'
      <3>1. PICK x \in Archivers : d \in DOMAIN archRun'[x].files /\ file = archRun'[x].files[d]
        BY <2>3 DEF Exported
      <3>2. x # a => file \in FilesOf(d)
        BY <3>1 DEF FilesOf, Exported
      <3> QED
        BY <2>1, <2>2, <3>1, <3>2
    <2>4. CASE file \notin Exported(d)'
      <3>1. file = archive'[d] /\ d \in Deleting'
        BY <2>4 DEF FilesOf
      <3>2. CASE archive'[d] = archive[d] /\ d \in Deleting
        BY <2>1, <3>1, <3>2 DEF FilesOf
      <3>3. CASE d \in DOMAIN files /\ archive'[d] = files[d]
        BY <2>2, <3>1, <3>3
      <3>4. CASE d \notin Deleting
        <4>1. PICK x \in Archivers : d \in archRun'[x].dates
          BY <3>1, <3>4 DEF Deleting
        <4>2. x = a
          BY <3>4, <4>1 DEF Deleting
        <4> QED
          BY <2>2, <3>1, <4>1, <4>2
      <3> QED
        BY <3>2, <3>3, <3>4
    <2> QED
      BY <2>3, <2>4
  <1>5. RemovedGone'
    BY DEF ConservedInd, ArchiveInd, RemovedGone
  <1>10. ArchiveInd'
    BY <1>3, <1>4, <1>5 DEF ArchiveInd
  <1>11. RowsComplete'
    BY <1>1 DEF ConservedInd, RowsComplete
  <1>12. DownloadsConserved'
    <2> SUFFICES ASSUME NEW v \in Versions, NEW d \in Days, d \notin forgiven.dates
                 PROVE  Expected(<<v, d>>) = IF rows[<<v, d>>].exists
                          THEN rows[<<v, d>>].downloads ELSE InArchive(<<v, d>>)'
      BY <1>1 DEF DownloadsConserved, DownloadKeys
    <2> DEFINE k == <<v, d>>
    <2>1. k \in DownloadKeys /\ k[1] = v /\ k[2] = d
      BY DEF DownloadKeys
    <2>2. Expected(k) = IF rows[k].exists THEN rows[k].downloads ELSE InArchive(k)
      BY <2>1 DEF ConservedInd, DownloadsConserved
    <2>3. CASE archive'[d] = archive[d]
      BY <2>1, <2>2, <2>3 DEF InArchive
    <2>4. CASE d \in DOMAIN files /\ archive'[d] = files[d]
      <3>1. (IF v \in DOMAIN files[d] THEN files[d][v] ELSE 0) = Expected(k)
        BY <2>4 DEF Full
      <3> QED
        BY <2>1, <2>2, <2>4, <3>1 DEF InArchive
    <2> QED
      BY <2>3, <2>4
  <1> QED
    BY <1>10, <1>11, <1>12 DEF ConservedInd

\* No step loses or doubles a download between log files, rows and archive.
LEMMA StepConserved ==
  LogTypes /\ LogTypes' /\ RowTypes /\ BatchInd /\ ConservedInd /\ [DownloadsNext]_downloadVars
    => ConservedInd'
  <1> SUFFICES ASSUME LogTypes, LogTypes', RowTypes, BatchInd, ConservedInd,
                      [DownloadsNext]_downloadVars
               PROVE  ConservedInd'
    OBVIOUS
  <1> USE DEF front, counts, store, downloadHistory
  <1>1. ASSUME UNCHANGED <<rows, saved, archRun, archive, forgiven, removed>> PROVE ConservedInd'
    BY <1>1, ConservedSame
  <1>2. CASE UNCHANGED downloadVars
    BY <1>1, <1>2 DEF downloadVars
  <1>3. ASSUME NEW q \in QueueRuns, QueueNext(q) \/ QueueFail(q) PROVE ConservedInd'
    BY <1>1, <1>3 DEF QueueNext, QueueFail, Receive, ProcessBody, DeleteMessage, Trouble
  <1>4. ASSUME NEW m \in Messages, Announce(m) PROVE ConservedInd'
    BY <1>1, <1>4 DEF Announce
  <1>5. CASE NextDay
    BY <1>1, <1>5 DEF NextDay
  <1>6. CASE CleanProcessedLogFiles
    <2>1. forgiven'.dates = forgiven.dates
      BY <1>6 DEF CleanProcessedLogFiles, LogTypes
    <2> QED
      BY <1>6, <2>1, ConservedSame DEF CleanProcessedLogFiles
  <1>7. ASSUME NEW w \in LogWorkers, NEW l \in Logs,
               SaveAsProcessed(w, l) \/ RejectLog(w, l) \/ LogFail(w, l) \/ StartLog(w, l)
        PROVE  ConservedInd'
    BY <1>1, <1>7 DEF SaveAsProcessed, RejectLog, LogFail, StartLog, EndLog
  <1>8. ASSUME NEW u \in Updaters, StartUpdate(u) \/ BatchRead(u) \/ UpdateFail(u) PROVE ConservedInd'
    BY <1>1, <1>8 DEF StartUpdate, BatchRead, UpdateFail
  <1>9. ASSUME NEW u \in Updaters, NEW timeout \in BOOLEAN, BatchApply(u, timeout)
        PROVE  ConservedInd'
    <2>1. \A k \in DownloadKeys : rows'[k].downloads = rows[k].downloads
                                    /\ (rows'[k].exists <=> rows[k].exists)
      BY <1>9, AppliedRows DEF BatchApply
    <2> QED
      BY <1>9, <2>1, ConservedSame DEF BatchApply
  <1>10. ASSUME NEW u \in Updaters, Freeze(u) PROVE ConservedInd'
    <2>1. \A k \in DownloadKeys : rows'[k].downloads = rows[k].downloads
                                    /\ (rows'[k].exists <=> rows[k].exists)
      <3> TAKE k \in DownloadKeys
      <3>1. rows[k] \in Row
        BY DEF RowTypes, Row
      <3>2. rows'[k] = rows[k] \/ rows'[k] = [rows[k] EXCEPT !.processed = TRUE]
        BY <1>10 DEF Freeze
      <3> QED
        BY <3>1, <3>2 DEF Row
    <2> QED
      BY <1>10, <2>1, ConservedSame DEF Freeze
  <1>11. ASSUME NEW w \in LogWorkers, NEW l \in Logs, CommitLog(w, l) PROVE ConservedInd'
    <2>1. /\ rows' = SaveDownloads(l)
          /\ saved' = [saved EXCEPT ![l] = @ + 1]
          /\ UNCHANGED <<archRun, archive, removed>>
      BY <1>11 DEF CommitLog
    <2>2. forgiven'.dates = forgiven.dates \cup (LogDates(l) \cap Archived)
      BY <1>11 DEF CommitLog, LogTypes
    <2>3. \A k \in DownloadKeys :
            /\ rows'[k].downloads = rows[k].downloads + InLog(l, k)
            /\ (rows'[k].exists <=> rows[k].exists \/ k \in DOMAIN Counted[l].map)
            /\ k \notin DOMAIN Counted[l].map => rows'[k] = rows[k] /\ InLog(l, k) = 0
            /\ rows[k].downloads \in Nat /\ InLog(l, k) \in Nat
      BY <2>1, SavedRows, InLogType DEF RowTypes
    <2>4. \A k : Expected(k)' = Expected(k) + InLog(l, k) /\ Expected(k) \in Nat
      <3> TAKE k
      <3>1. Expected(k) = E(saved, k) /\ Expected(k)' = E(saved', k)
        BY DEF Expected, E
      <3>2. saved \in [Logs -> Nat]
        BY DEF LogTypes
      <3>3. E([saved EXCEPT ![l] = @ + 1], k) = E(saved, k) + InLog(l, k)
        BY <3>2, ExpectedGrows
      <3>4. E(saved, k) \in Nat
        BY <3>2, ExpectedSum
      <3> QED
        BY <2>1, <3>1, <3>3, <3>4
    <2>5. \A k : InArchive(k)' = InArchive(k)
      BY <2>1 DEF InArchive
    <2>6. ASSUME NEW d \in Days, d \in Archived, d \notin forgiven'.dates
          PROVE  \A v \in Versions :
                   rows'[<<v, d>>] = rows[<<v, d>>] /\ Expected(<<v, d>>)' = Expected(<<v, d>>)
      <3> TAKE v \in Versions
      <3>1. d \notin LogDates(l)
        BY <2>2, <2>6
      <3>2. <<v, d>> \notin DOMAIN Counted[l].map /\ <<v, d>> \in DownloadKeys
        BY <3>1 DEF LogDates, DownloadKeys
      <3>3. rows'[<<v, d>>] = rows[<<v, d>>] /\ InLog(l, <<v, d>>) = 0
        BY <2>3, <3>2
      <3>4. Expected(<<v, d>>)' = Expected(<<v, d>>) + InLog(l, <<v, d>>) /\ Expected(<<v, d>>) \in Nat
        BY <2>4
      <3> QED
        BY <3>3, <3>4
    <2>7. \A d : d \notin forgiven'.dates => d \notin forgiven.dates
      BY <2>2
    <2>8. ArchiveInd'
      <3>1. /\ removed \subseteq Archived /\ removed \subseteq Days
            /\ \A a \in Archivers : archRun[a].dates \subseteq DOMAIN archRun[a].files
            /\ \A a \in Archivers : DOMAIN archRun[a].files \subseteq Archived
        BY DEF Archived, ConservedInd, ArchiveInd, ArchiveTypes
      <3>2. ArchiveTypes'
        BY <2>1 DEF ConservedInd, ArchiveInd, ArchiveTypes
      <3>3. RemovedGone'
        BY <2>1, <2>6, <2>7, <3>1 DEF ConservedInd, ArchiveInd, RemovedGone
      <3>4. FilesFull'
        <4> SUFFICES ASSUME NEW d \in Days, d \notin forgiven'.dates, NEW file \in FilesOf(d)'
                     PROVE  Full(file, d)'
          BY DEF FilesFull
        <4>1. file \in FilesOf(d)
          BY <2>1 DEF FilesOf, Exported, Deleting
        <4>2. Full(file, d)
          BY <2>7, <4>1 DEF ConservedInd, ArchiveInd, FilesFull
        <4>3. d \in Archived
          BY <3>1, <4>1 DEF FilesOf, Exported, Deleting
        <4> QED
          BY <2>6, <4>2, <4>3 DEF Full
      <3> QED
        BY <3>2, <3>3, <3>4 DEF ArchiveInd
    <2>9. ASSUME NEW v \in Versions, NEW d \in Days, d \notin forgiven'.dates
          PROVE  LET k == <<v, d>> IN
                 /\ Expected(k)' = IF rows'[k].exists THEN rows'[k].downloads ELSE InArchive(k)'
                 /\ d \notin removed /\ ~rows'[k].exists => Expected(k)' = 0
      <3> DEFINE k == <<v, d>>
      <3>1. k \in DownloadKeys /\ k[2] = d /\ d \notin forgiven.dates
        BY <2>7, <2>9 DEF DownloadKeys
      <3>2. Expected(k) = IF rows[k].exists THEN rows[k].downloads ELSE InArchive(k)
        BY <3>1 DEF ConservedInd, DownloadsConserved
      <3>3. d \notin removed /\ ~rows[k].exists => Expected(k) = 0
        BY <3>1 DEF ConservedInd, RowsComplete
      <3>4. ~rows[k].exists => rows[k].downloads = 0
        BY <3>1 DEF BatchInd, RowsSound, NoRow
      <3>5. Expected(k)' = Expected(k) + InLog(l, k) /\ InArchive(k)' = InArchive(k)
        BY <2>4, <2>5
      <3>6. /\ rows'[k].downloads = rows[k].downloads + InLog(l, k)
            /\ (rows'[k].exists <=> rows[k].exists \/ k \in DOMAIN Counted[l].map)
            /\ k \notin DOMAIN Counted[l].map => rows'[k] = rows[k] /\ InLog(l, k) = 0
            /\ rows[k].downloads \in Nat /\ InLog(l, k) \in Nat /\ Expected(k) \in Nat
        BY <2>3, <2>4, <3>1
      <3>7. CASE d \in Archived
        <4>1. rows'[k] = rows[k] /\ Expected(k)' = Expected(k)
          BY <2>6, <2>9, <3>7
        <4> QED
          BY <3>2, <3>3, <3>5, <4>1
      <3>8. CASE d \notin Archived
        <4>1. d \notin removed
          BY <3>8 DEF Archived
        <4>2. CASE rows[k].exists
          BY <3>2, <3>5, <3>6, <4>2
        <4>3. CASE ~rows[k].exists /\ rows'[k].exists
          BY <3>3, <3>4, <3>5, <3>6, <4>1, <4>3
        <4>4. CASE ~rows[k].exists /\ ~rows'[k].exists
          BY <3>2, <3>3, <3>5, <3>6, <4>1, <4>4
        <4> QED
          BY <4>2, <4>3, <4>4
      <3> QED
        BY <3>7, <3>8
    <2>10. RowsComplete' /\ DownloadsConserved'
      BY <2>1, <2>9 DEF RowsComplete, DownloadsConserved, DownloadKeys
    <2> QED
      BY <2>8, <2>10 DEF ConservedInd
  <1>12. ASSUME NEW a \in Archivers, NEW before \in Days \cup {MaxDay + 1}, Export(a, before)
         PROVE  ConservedInd'
    <2> DEFINE dates == {d \in Days : d < before /\ \E v \in Versions : rows[<<v, d>>].exists}
               content(d) == [v \in {x \in Versions : rows[<<x, d>>].exists} |-> rows[<<v, d>>].downloads]
               files == [d \in dates |-> content(d)]
    <2>1. /\ archRun' = [archRun EXCEPT ![a] = [pc |-> "upload", files |-> files, dates |-> {}]]
          /\ UNCHANGED <<rows, saved, forgiven, removed, archive>>
      BY <1>12 DEF Export
    <2>2. DOMAIN files = dates
      OBVIOUS
    <2>3. ASSUME NEW d \in dates
          PROVE  d \in Days /\ files[d] # EmptyMap /\ (d \notin forgiven.dates => Full(files[d], d))
      <3>1. /\ d \in Days /\ (\E v \in Versions : rows[<<v, d>>].exists)
            /\ DOMAIN files[d] = {x \in Versions : rows[<<x, d>>].exists}
            /\ \A v \in DOMAIN files[d] : files[d][v] = rows[<<v, d>>].downloads
        OBVIOUS
      <3> HIDE DEF files, dates, content
      <3>2. DOMAIN files[d] # {}
        BY <3>1
      <3>3. d \notin forgiven.dates => Full(files[d], d)
        BY <3>1, FullDates
      <3> QED
        BY <3>1, <3>2, <3>3 DEF EmptyMap
    <2> HIDE DEF files, dates, content
    <2>4. archive' = [d \in Days |-> archive'[d]]
      BY <2>1 DEF ConservedInd, ArchiveInd, ArchiveTypes
    <2>5. /\ archRun'[a].files = files /\ archRun'[a].dates = {}
          /\ \A x \in Archivers \ {a} : archRun'[x] = archRun[x]
          /\ archRun' = [x \in Archivers |->
               [pc |-> archRun'[x].pc, files |-> archRun'[x].files, dates |-> archRun'[x].dates]]
      BY <2>1 DEF ConservedInd, ArchiveInd, ArchiveTypes
    <2>6. \A d \in DOMAIN archRun'[a].files :
            /\ d \in Days /\ archRun'[a].files[d] # EmptyMap
            /\ d \notin forgiven.dates => Full(archRun'[a].files[d], d)
      BY <2>2, <2>3, <2>5
    <2> QED
      BY <2>1, <2>4, <2>5, <2>6, ArchiverSteps
  <1>13. ASSUME NEW a \in Archivers, UploadCsv(a) PROVE ConservedInd'
    <2>1. PICK ok \in SUBSET DOMAIN archRun[a].files :
            /\ archive' = [d \in Days |-> IF d \in ok THEN archRun[a].files[d] ELSE archive[d]]
            /\ archRun' = [archRun EXCEPT ![a].pc = "delete", ![a].dates = ok]
      BY <1>13 DEF UploadCsv
    <2>2. UNCHANGED <<rows, saved, forgiven, removed>>
      BY <1>13 DEF UploadCsv
    <2> DEFINE files == archRun[a].files
    <2>3. /\ archRun'[a].files = files /\ archRun'[a].dates = ok
          /\ \A x \in Archivers \ {a} : archRun'[x] = archRun[x]
          /\ archRun' = [x \in Archivers |->
               [pc |-> archRun'[x].pc, files |-> archRun'[x].files, dates |-> archRun'[x].dates]]
      <3>0. archRun[a] = [pc |-> archRun[a].pc, files |-> archRun[a].files, dates |-> archRun[a].dates]
        BY DEF ConservedInd, ArchiveInd, ArchiveTypes
      <3>1. PICK pc, fs, ds : archRun[a] = [pc |-> pc, files |-> fs, dates |-> ds]
        BY <3>0
      <3>2. archRun'[a] = [[archRun[a] EXCEPT !.pc = "delete"] EXCEPT !.dates = ok]
        BY <2>1 DEF ConservedInd, ArchiveInd, ArchiveTypes
      <3>3. archRun'[a] = [pc |-> "delete", files |-> fs, dates |-> ok]
        <4>1. [[pc |-> pc, files |-> fs, dates |-> ds] EXCEPT !.pc = "delete"]
                = [pc |-> "delete", files |-> fs, dates |-> ds]
          OBVIOUS
        <4>2. [[pc |-> "delete", files |-> fs, dates |-> ds] EXCEPT !.dates = ok]
                = [pc |-> "delete", files |-> fs, dates |-> ok]
          OBVIOUS
        <4> QED
          BY <3>1, <3>2, <4>1, <4>2
      <3>4. \A x \in Archivers \ {a} : archRun'[x] = archRun[x]
        BY <2>1 DEF ConservedInd, ArchiveInd, ArchiveTypes
      <3>5. archRun' = [x \in Archivers |-> archRun'[x]]
        BY <2>1 DEF ConservedInd, ArchiveInd, ArchiveTypes
      <3>6. \A x \in Archivers :
              archRun[x] = [pc |-> archRun[x].pc, files |-> archRun[x].files, dates |-> archRun[x].dates]
        BY DEF ConservedInd, ArchiveInd, ArchiveTypes
      <3>7. \A x \in Archivers :
              archRun'[x] = [pc |-> archRun'[x].pc, files |-> archRun'[x].files, dates |-> archRun'[x].dates]
        BY <3>3, <3>4, <3>6
      <3> QED
        BY <3>1, <3>3, <3>4, <3>5, <3>7
    <2>4. \A d \in DOMAIN files :
            d \in Days /\ files[d] # EmptyMap /\ (d \notin forgiven.dates => Full(files[d], d))
      BY DEF ConservedInd, ArchiveInd, ArchiveTypes, FilesFull, FilesOf, Exported
    <2>5. /\ archive' = [d \in Days |-> archive'[d]] /\ ok \subseteq DOMAIN files
          /\ \A d \in Days : archive'[d] = archive[d] \/ (d \in DOMAIN files /\ archive'[d] = files[d])
          /\ \A d \in ok : archive'[d] = files[d]
      BY <2>1, <2>4
    <2> HIDE DEF files
    <2> QED
      BY <2>2, <2>3, <2>4, <2>5, ArchiverSteps
  <1>14. ASSUME NEW a \in Archivers, ArchiveFail(a) PROVE ConservedInd'
    <2>1. /\ archRun' = [archRun EXCEPT ![a] = [pc |-> "idle", files |-> EmptyMap, dates |-> {}]]
          /\ UNCHANGED <<rows, saved, forgiven, removed, archive>>
      BY <1>14 DEF ArchiveFail, NoArchive
    <2>2. archive' = [d \in Days |-> archive'[d]] /\ DOMAIN EmptyMap = {}
      BY <2>1 DEF ConservedInd, ArchiveInd, ArchiveTypes, EmptyMap
    <2>3. /\ archRun'[a].files = EmptyMap /\ archRun'[a].dates = {}
          /\ \A x \in Archivers \ {a} : archRun'[x] = archRun[x]
          /\ archRun' = [x \in Archivers |->
               [pc |-> archRun'[x].pc, files |-> archRun'[x].files, dates |-> archRun'[x].dates]]
      BY <2>1 DEF ConservedInd, ArchiveInd, ArchiveTypes
    <2> QED
      BY <2>1, <2>2, <2>3, ArchiverSteps
  <1>15. ASSUME NEW a \in Archivers, NEW ok \in BOOLEAN, DeleteArchived(a, ok) PROVE ConservedInd'
    <2> DEFINE dates == IF ok THEN archRun[a].dates ELSE {}
    <2>1. /\ rows' = [k \in DownloadKeys |->
                        IF k \in {x \in DownloadKeys : x[2] \in dates} THEN NoRow ELSE rows[k]]
          /\ archRun' = [archRun EXCEPT ![a] = NoArchive]
          /\ removed' = removed \cup dates
          /\ UNCHANGED <<saved, forgiven, archive>>
      BY <1>15 DEF DeleteArchived
    <2>2. /\ dates \subseteq Days /\ removed \subseteq Days
          /\ \A d \in dates \cup removed : d \notin forgiven.dates => Full(archive[d], d)
      BY DEF ConservedInd, ArchiveInd, ArchiveTypes, FilesFull, FilesOf, Deleting
    <2>3. \A k : Expected(k)' = Expected(k) /\ InArchive(k)' = InArchive(k)
      BY <2>1 DEF Expected, InArchive
    <2>4. ASSUME NEW v \in Versions, NEW d \in Days
          PROVE  IF d \in dates THEN ~rows'[<<v, d>>].exists ELSE rows'[<<v, d>>] = rows[<<v, d>>]
      <3>1. <<v, d>> \in DownloadKeys /\ <<v, d>>[2] = d
        BY DEF DownloadKeys
      <3> QED
        BY <2>1, <3>1 DEF NoRow
    <2> HIDE DEF dates
    <2>5. ArchiveInd'
      <3>1. /\ archRun'[a] = NoArchive
            /\ \A x \in Archivers \ {a} : archRun'[x] = archRun[x]
            /\ archRun' = [x \in Archivers |-> archRun'[x]]
        BY <2>1 DEF ConservedInd, ArchiveInd, ArchiveTypes
      <3>2. /\ NoArchive = [pc |-> NoArchive.pc, files |-> NoArchive.files, dates |-> NoArchive.dates]
            /\ NoArchive.dates = {} /\ DOMAIN NoArchive.files = {}
        BY DEF NoArchive, EmptyMap
      <3>3. ArchiveTypes'
        <4>1. ASSUME NEW x \in Archivers
              PROVE  /\ archRun'[x] = [pc |-> archRun'[x].pc, files |-> archRun'[x].files,
                                       dates |-> archRun'[x].dates]
                     /\ archRun'[x].dates \subseteq DOMAIN archRun'[x].files
                     /\ \A d \in DOMAIN archRun'[x].files : d \in Days /\ archRun'[x].files[d] # EmptyMap
                     /\ \A d \in archRun'[x].dates : archive[d] # EmptyMap
          <5>1. CASE x = a
            BY <3>1, <3>2, <5>1
          <5>2. CASE x # a
            BY <3>1, <5>2 DEF ConservedInd, ArchiveInd, ArchiveTypes
          <5> QED
            BY <5>1, <5>2
        <4>2. archive = [d \in Days |-> archive[d]] /\ removed' \subseteq Days
          BY <2>1, <2>2 DEF ConservedInd, ArchiveInd, ArchiveTypes
        <4>3. archRun' = [x \in Archivers |->
                [pc |-> archRun'[x].pc, files |-> archRun'[x].files, dates |-> archRun'[x].dates]]
          BY <3>1, <4>1
        <4> QED
          BY <2>1, <4>1, <4>2, <4>3 DEF ArchiveTypes
      <3>4. RemovedGone'
        <4> SUFFICES ASSUME NEW d \in removed' \ forgiven.dates, NEW v \in Versions
                     PROVE  ~rows'[<<v, d>>].exists
          BY <2>1 DEF RemovedGone
        <4>1. d \in Days
          BY <2>1, <2>2
        <4>2. d \in dates \/ ~rows[<<v, d>>].exists
          BY <2>1 DEF ConservedInd, ArchiveInd, RemovedGone
        <4> QED
          BY <2>4, <4>1, <4>2
      <3>5. \A d : FilesOf(d)' \subseteq FilesOf(d)
        <4>1. Deleting' \subseteq Deleting
          BY <2>1, <3>1, <3>2 DEF Deleting, dates
        <4>2. \A d : Exported(d)' \subseteq Exported(d)
          BY <3>1, <3>2 DEF Exported
        <4> QED
          BY <2>1, <4>1, <4>2 DEF FilesOf
      <3>6. \A f, d : Full(f, d)' = Full(f, d)
        BY <2>3 DEF Full
      <3>7. FilesFull'
        BY <2>1, <3>5, <3>6 DEF ConservedInd, ArchiveInd, FilesFull
      <3> QED
        BY <3>3, <3>4, <3>7 DEF ArchiveInd
    <2>6. ASSUME NEW v \in Versions, NEW d \in Days, d \notin forgiven.dates
          PROVE  LET k == <<v, d>> IN
                 /\ Expected(k)' = IF rows'[k].exists THEN rows'[k].downloads ELSE InArchive(k)'
                 /\ d \notin removed' /\ ~rows'[k].exists => Expected(k)' = 0
      <3> DEFINE k == <<v, d>>
      <3>1. k \in DownloadKeys /\ k[1] = v /\ k[2] = d
        BY DEF DownloadKeys
      <3>2. Expected(k) = IF rows[k].exists THEN rows[k].downloads ELSE InArchive(k)
        BY <2>6, <3>1 DEF ConservedInd, DownloadsConserved
      <3>3. d \notin removed /\ ~rows[k].exists => Expected(k) = 0
        BY <2>6, <3>1 DEF ConservedInd, RowsComplete
      <3>4. Expected(k)' = Expected(k) /\ InArchive(k)' = InArchive(k)
        BY <2>3
      <3>5. CASE d \in dates
        <4>1. Full(archive[d], d)
          BY <2>2, <2>6, <3>5
        <4>2. InArchive(k) = Expected(k)
          BY <3>1, <4>1 DEF InArchive, Full
        <4>3. ~rows'[k].exists /\ d \in removed'
          BY <2>1, <2>4, <3>5
        <4> QED
          BY <3>4, <4>2, <4>3
      <3>6. CASE d \notin dates
        <4>1. rows'[k] = rows[k]
          BY <2>4, <3>6
        <4> QED
          BY <2>1, <3>2, <3>3, <3>4, <4>1
      <3> QED
        BY <3>5, <3>6
    <2>7. forgiven' = forgiven
      BY <2>1
    <2>8. RowsComplete' /\ DownloadsConserved'
      BY <2>6, <2>7 DEF RowsComplete, DownloadsConserved, DownloadKeys
    <2> QED
      BY <2>5, <2>8 DEF ConservedInd
  <1> QED
    BY <1>2, <1>3, <1>4, <1>5, <1>6, <1>7, <1>8, <1>9, <1>10, <1>11, <1>12, <1>13, <1>14, <1>15
       DEF DownloadsNext, LogNext, UpdateNext, ArchiveNext

-----------------------------------------------------------------------------
(* The totals.                                                             *)

\* A sum of natural numbers is one.
LEMMA SumNat ==
  ASSUME NEW f, NEW S, IsFiniteSet(S), \A x \in S : f[x] \in Int /\ f[x] >= 0
  PROVE  SumOf(f, S) \in Nat
  <1> DEFINE z == [x \in S |-> 0]
  <1>1. \A x \in S : z[x] \in Int /\ z[x] <= f[x] /\ z[x] = 0
    OBVIOUS
  <1> HIDE DEF z
  <1>2. SumOf(f, S) \in Int
    BY SumType
  <1>3. SumOf(z, S) <= SumOf(f, S)
    BY <1>1, SumMono
  <1>4. SumOf(z, S) = SumOf(z, {}) /\ SumOf(z, {}) = 0
    BY <1>1, SumSupport, SumEmpty
  <1> QED
    BY <1>2, <1>3, <1>4

\* A sum of zeros is 0.
LEMMA SumZero ==
  ASSUME NEW f, NEW S, IsFiniteSet(S), \A x \in S : f[x] = 0
  PROVE  SumOf(f, S) = 0
  BY SumSupport, SumEmpty

\* A version has finitely many rows.
LEMMA OwnFinite == \A v : IsFiniteSet(OwnKeys(v)) /\ OwnKeys(v) \subseteq DownloadKeys
  <1> TAKE v
  <1>1. OwnKeys(v) \in SUBSET DownloadKeys
    BY DEF OwnKeys
  <1> QED
    BY <1>1, KeysFinite, FS_Subset

\* What a batch has for the keys of a version
LEMMA BatchSum ==
  ASSUME NEW b, NEW B, DOMAIN b \subseteq DownloadKeys, \A k \in DOMAIN b : b[k] \in Int,
         \A k \in DownloadKeys : B[k] = IF k \in DOMAIN b THEN b[k] ELSE 0,
         NEW v \in Versions
  PROVE  SumOf(B, OwnKeys(v)) = SumOf(b, {k \in DOMAIN b : k[1] = v})
  <1> DEFINE T == {k \in DOMAIN b : k[1] = v}
             S == OwnKeys(v)
  <1>1. IsFiniteSet(S) /\ IsFiniteSet(T) /\ T \in SUBSET S
    <2>1. T \in SUBSET S
      BY DEF OwnKeys
    <2> QED
      BY <2>1, OwnFinite, FS_Subset
  <1>2. /\ \A k \in S : B[k] \in Int
        /\ \A k \in S \ T : B[k] = 0
        /\ \A k \in T : B[k] = b[k] /\ B[k] \in Int
    BY DEF OwnKeys
  <1> HIDE DEF T, S
  <1>3. SumOf(B, S) = SumOf(B, T)
    BY <1>1, <1>2, SumSupport
  <1>4. SumOf(B, T) = SumOf(b, T)
    BY <1>1, <1>2, SumCong
  <1> QED
    BY <1>3, <1>4 DEF S, T

\* What is due is what is open and what a run has read of the row before it was deleted.
DueSound ==
  \A k \in DownloadKeys :
    /\ Open(k) \in Int /\ GoneOf(k) \in Int /\ Due[k] = Open(k) + GoneOf(k) /\ Due[k] \in Int
    /\ k \notin twice => Open(k) >= 0 /\ GoneOf(k) >= 0
    /\ \A u \in Updaters :
         k \notin twice /\ k \in updRun[u].gone => GoneOf(k) = updRun[u].batch[k]
    /\ (\A u \in Updaters : k \notin updRun[u].gone) => GoneOf(k) = 0

\* No row that is gone is in the batches of two runs, but one that two runs have read at once.
LEMMA DueType == RowTypes /\ BatchInd => DueSound
  <1> SUFFICES ASSUME RowTypes, BatchInd, NEW k \in DownloadKeys
               PROVE  /\ Open(k) \in Int /\ GoneOf(k) \in Int
                      /\ Due[k] = Open(k) + GoneOf(k) /\ Due[k] \in Int
                      /\ k \notin twice => Open(k) >= 0 /\ GoneOf(k) >= 0
                      /\ \A u \in Updaters :
                           k \notin twice /\ k \in updRun[u].gone => GoneOf(k) = updRun[u].batch[k]
                      /\ (\A u \in Updaters : k \notin updRun[u].gone) => GoneOf(k) = 0
    BY DEF DueSound
  <1>1. Open(k) \in Int /\ (k \notin twice => Open(k) >= 0)
    BY DEF RowTypes, Open, BatchInd, RowsSound
  <1>2. Due[k] = Open(k) + GoneOf(k)
    BY DEF Due
  <1>3. CASE \A u \in Updaters : k \notin updRun[u].gone
    <2>1. GoneOf(k) = 0
      BY <1>3 DEF GoneOf
    <2> QED
      BY <1>1, <1>2, <1>3, <2>1
  <1>4. CASE \E u \in Updaters : k \in updRun[u].gone
    <2>1. PICK x \in Updaters : k \in updRun[x].gone /\ GoneOf(k) = updRun[x].batch[k]
      BY <1>4 DEF GoneOf
    <2>2. k \in DOMAIN updRun[x].batch /\ updRun[x].batch[k] \in Int
      BY <2>1 DEF RowTypes
    <2>3. k \notin twice => updRun[x].batch[k] \in Nat
      BY <2>2 DEF BatchInd, RunInd
    <2>4. \A u \in Updaters : k \notin twice /\ k \in updRun[u].gone => u = x
      BY <2>2 DEF RowTypes, BatchInd, SoleReader
    <2> QED
      BY <1>1, <1>2, <1>4, <2>1, <2>2, <2>3, <2>4
  <1> QED
    BY <1>3, <1>4

\* What is expected is a natural number.
ExpectedSound == \A k : Expected(k) \in Nat

\* What is expected is a natural number, as the log files have natural numbers.
LEMMA ExpectedType == LogTypes => ExpectedSound
  <1> SUFFICES ASSUME LogTypes, NEW k PROVE Expected(k) \in Nat
    BY DEF ExpectedSound
  <1>1. saved \in [Logs -> Nat]
    BY DEF LogTypes
  <1>2. Expected(k) = E(saved, k)
    BY DEF Expected, E
  <1> QED
    BY <1>1, <1>2, ExpectedSum

\* The part of the invariant about the totals
TotalsInd == TotalTypes /\ TotalsAgree /\ TotalsBounded /\ TotalsExact

\* All totals are 0 in the beginning.
LEMMA InitTotals == DownloadsInit => TotalsInd
  <1> SUFFICES ASSUME DownloadsInit PROVE TotalsInd
    OBVIOUS
  <1>1. /\ totals = [versions |-> [v \in Versions |-> 0], crates |-> [c \in Crates |-> 0], all |-> 0]
        /\ rows = [k \in DownloadKeys |-> NoRow] /\ saved = [l \in Logs |-> 0]
        /\ updRun = [u \in Updaters |-> NoUpdate]
    BY DEF DownloadsInit
  <1>2. \A k : GoneOf(k) = 0
    BY <1>1 DEF GoneOf, NoUpdate
  <1>3. IsFiniteSet(Versions) /\ \A c : IsFiniteSet({v \in Versions : CrateOf[v] = c})
    BY DownloadsAssumption, FS_Subset
  <1>4. TotalTypes
    BY <1>1 DEF TotalTypes
  <1>5. TotalsAgree
    <2>1. \A v \in Versions : totals.versions[v] = 0
      BY <1>1
    <2>2. SumOf(totals.versions, Versions) = 0
      BY <1>3, <2>1, SumZero
    <2>3. ASSUME NEW c \in Crates PROVE SumOf(totals.versions, {v \in Versions : CrateOf[v] = c}) = 0
      <3> DEFINE T == {v \in Versions : CrateOf[v] = c}
      <3>1. IsFiniteSet(T) /\ \A v \in T : totals.versions[v] = 0
        BY <1>3, <2>1
      <3> HIDE DEF T
      <3>2. SumOf(totals.versions, T) = 0
        BY <3>1, SumZero
      <3> QED
        BY <3>2 DEF T
    <2> QED
      BY <1>1, <2>2, <2>3 DEF TotalsAgree
  <1>6. \A k : Expected(k) = 0
    <2> TAKE k
    <2>1. {l \in Logs : saved[l] > 0} = {}
      BY <1>1
    <2> QED
      BY <2>1, SumEmpty DEF Expected
  <1> DEFINE e == [k \in DownloadKeys |-> Expected(k)]
             c == [k \in DownloadKeys |-> rows[k].counted]
             d == Due
  <1>7. \A k \in DownloadKeys : e[k] = 0 /\ c[k] = 0 /\ d[k] = 0
    BY <1>1, <1>2, <1>6 DEF Due, Open, NoRow
  <1> HIDE DEF e, c, d
  <1>8. \A v \in Versions : SumOf(e, OwnKeys(v)) = 0 /\ SumOf(c, OwnKeys(v)) = 0 /\ SumOf(d, OwnKeys(v)) = 0
    BY <1>7, OwnFinite, SumZero
  <1>9. \A v \in Versions : totals.versions[v] = 0
    BY <1>1
  <1>10. TotalsBounded
    BY <1>8, <1>9 DEF TotalsBounded, e, d
  <1>11. TotalsExact
    BY <1>8, <1>9 DEF TotalsExact, c
  <1> QED
    BY <1>4, <1>5, <1>10, <1>11 DEF TotalsInd

\* Every download that is counted was due, or is a download of a log file saved since.
LEMMA TotalsStep ==
  ASSUME LogTypes, LogTypes', RowTypes, RowTypes', BatchInd, BatchInd',
         TotalTypes, TotalsBounded, TotalsExact, twice \subseteq twice',
         NEW a, \A k \in DownloadKeys : a[k] \in Int,
         \A v \in Versions : totals'.versions[v] = totals.versions[v] + SumOf(a, OwnKeys(v)),
         \A k \in DownloadKeys \ twice' : Due'[k] + a[k] + Expected(k) <= Due[k] + Expected(k)',
         (\A d \in Days : archive'[d] = EmptyMap) =>
           /\ \A d \in Days : archive[d] = EmptyMap
           /\ \A k \in DownloadKeys : rows'[k].counted = rows[k].counted + a[k]
  PROVE  TotalsBounded' /\ TotalsExact'
  <1> DEFINE d0 == Due
             d1 == Due'
             e0 == [k \in DownloadKeys |-> Expected(k)]
             e1 == [k \in DownloadKeys |-> Expected(k)']
             c0 == [k \in DownloadKeys |-> rows[k].counted]
             c1 == [k \in DownloadKeys |-> rows'[k].counted]
             x == [k \in DownloadKeys |-> d1[k] + a[k]]
             y == [k \in DownloadKeys |-> x[k] + e0[k]]
             z == [k \in DownloadKeys |-> d0[k] + e1[k]]
  <1>0. DueSound /\ DueSound' /\ ExpectedSound /\ ExpectedSound'
    BY DueType, ExpectedType, PTL
  <1>1. \A k \in DownloadKeys :
          /\ d0[k] \in Int /\ d1[k] \in Int /\ e0[k] \in Int /\ e1[k] \in Int
          /\ c0[k] \in Int /\ c1[k] \in Int /\ e0[k] = Expected(k) /\ e1[k] = Expected(k)'
    <2>1. \A k \in DownloadKeys : d0[k] \in Int /\ e0[k] \in Nat /\ e0[k] = Expected(k)
      BY <1>0 DEF DueSound, ExpectedSound
    <2>2. \A k \in DownloadKeys : d1[k] \in Int /\ e1[k] \in Nat /\ e1[k] = Expected(k)'
      BY <1>0 DEF DueSound, ExpectedSound
    <2> QED
      BY <2>1, <2>2 DEF RowTypes
  <1>2. \A k \in DownloadKeys \ twice' : d1[k] + a[k] + e0[k] <= d0[k] + e1[k]
    BY <1>1
  <1> HIDE DEF d0, d1, e0, e1
  <1>3. \A k \in DownloadKeys :
          /\ x[k] = d1[k] + a[k] /\ y[k] = x[k] + e0[k] /\ z[k] = d0[k] + e1[k]
          /\ x[k] \in Int /\ y[k] \in Int /\ z[k] \in Int /\ (k \notin twice' => y[k] <= z[k])
    BY <1>1, <1>2
  <1> HIDE DEF x, y, z
  <1>4. ASSUME NEW v \in Versions, OwnKeys(v) \cap twice' = {}
        PROVE  totals'.versions[v] + SumOf(d1, OwnKeys(v)) <= SumOf(e1, OwnKeys(v))
    <2> DEFINE S == OwnKeys(v)
    <2>1. IsFiniteSet(S) /\ \A k \in S : k \in DownloadKeys /\ k \notin twice'
      BY <1>4, OwnFinite
    <2>0. S \cap twice = {}
      BY <1>4
    <2> HIDE DEF S
    <2>2. SumOf(x, S) = SumOf(d1, S) + SumOf(a, S)
      BY <1>1, <1>3, <2>1, SumPlus
    <2>3. SumOf(y, S) = SumOf(x, S) + SumOf(e0, S)
      BY <1>1, <1>3, <2>1, SumPlus
    <2>4. SumOf(z, S) = SumOf(d0, S) + SumOf(e1, S)
      BY <1>1, <1>3, <2>1, SumPlus
    <2>5. SumOf(y, S) <= SumOf(z, S)
      BY <1>3, <2>1, SumMono
    <2>6. totals.versions[v] + SumOf(d0, S) <= SumOf(e0, S)
      BY <2>0 DEF TotalsBounded, S, d0, e0
    <2>7. /\ SumOf(d0, S) \in Int /\ SumOf(d1, S) \in Int /\ SumOf(a, S) \in Int
          /\ SumOf(e0, S) \in Int /\ SumOf(e1, S) \in Int
      BY <1>1, <2>1, SumType
    <2>8. totals.versions[v] \in Int /\ totals'.versions[v] = totals.versions[v] + SumOf(a, S)
      BY DEF TotalTypes, S
    <2>9. totals'.versions[v] + SumOf(d1, S) <= SumOf(e1, S)
      BY <2>2, <2>3, <2>4, <2>5, <2>6, <2>7, <2>8
    <2> QED
      BY <2>9 DEF S
  <1>5. TotalsBounded'
    BY <1>4 DEF TotalsBounded, OwnKeys, d1, e1
  <1>6. ASSUME \A d \in Days : archive'[d] = EmptyMap, NEW v \in Versions
        PROVE  totals'.versions[v] = SumOf(c1, OwnKeys(v))
    <2> DEFINE S == OwnKeys(v)
    <2>1. IsFiniteSet(S) /\ \A k \in S : k \in DownloadKeys
      BY OwnFinite
    <2>2. \A k \in DownloadKeys : c1[k] = c0[k] + a[k]
      BY <1>6
    <2> HIDE DEF c0, c1
    <2>3. SumOf(c1, S) = SumOf(c0, S) + SumOf(a, S)
      <3> HIDE DEF S
      <3> QED
        BY <1>1, <2>1, <2>2, SumPlus
    <2>4. totals.versions[v] = SumOf(c0, S)
      BY <1>6 DEF TotalsExact, c0
    <2> QED
      BY <2>3, <2>4
  <1>7. TotalsExact'
    BY <1>6 DEF TotalsExact, OwnKeys
  <1> QED
    BY <1>5, <1>7

\* A batch adds the same downloads to versions, crates and the registry.
LEMMA AppliedAgree ==
  ASSUME RowTypes, BatchInd, TotalTypes, TotalsAgree, NEW u \in Updaters, NEW timeout \in BOOLEAN,
         BatchApply(u, timeout)
  PROVE  TotalTypes' /\ TotalsAgree'
  <1> DEFINE b == updRun[u].batch
             K == DOMAIN b
             Of(v) == {k \in K : k[1] = v}
             F == [v \in Versions |-> SumOf(b, Of(v))]
             old == totals.versions
             new == totals'.versions
  <1>1. /\ K \subseteq DownloadKeys /\ \A k \in K : b[k] \in Int
        /\ twice = {} => \A k \in K : b[k] >= 0
    BY DEF RowTypes, BatchInd, RunInd
  <1>2. IsFiniteSet(K) /\ IsFiniteSet(Versions)
    BY <1>1, KeysFinite, FS_Subset, DownloadsAssumption
  <1>3. /\ totals' =
             [versions |-> [v \in Versions |-> totals.versions[v] + SumOf(b, Of(v))],
              crates |-> [c \in Crates |->
                totals.crates[c] + SumOf(b, {k \in K : CrateOf[k[1]] = c})],
              all |-> NewTotal(SumOf(b, K))]
    BY DEF BatchApply
  <1>4. \A v \in Versions : F[v] \in Int /\ F[v] = SumOf(b, Of(v)) /\ old[v] \in Int
    <2>1. ASSUME NEW v \in Versions PROVE SumOf(b, Of(v)) \in Int
      <3> DEFINE T == Of(v)
      <3>1. IsFiniteSet(T) /\ \A k \in T : b[k] \in Int
        BY <1>1, <1>2, FS_Subset
      <3> HIDE DEF T
      <3>2. SumOf(b, T) \in Int
        BY <3>1, SumType
      <3> QED
        BY <3>2 DEF T
    <2> QED
      BY <2>1 DEF TotalTypes
  <1>5. \A v \in Versions : new[v] = old[v] + F[v] /\ new[v] \in Int
    BY <1>3, <1>4
  <1>6. ASSUME NEW W \in SUBSET Versions
        PROVE  SumOf(new, W) = SumOf(old, W) + SumOf(b, {k \in K : k[1] \in W})
    <2>1. IsFiniteSet(W)
      BY <1>2, FS_Subset
    <2>2. SumOf(F, W) = SumOf(b, KeysIn(K, W))
      <3>1. \A v \in W : F[v] = SumOf(b, KeysOf(K, v))
        BY <1>4 DEF KeysOf
      <3> HIDE DEF F, K, b
      <3>2. \A k \in K : b[k] \in Int
        BY <1>1
      <3> QED
        BY <1>2, <2>1, <3>1, <3>2, SumGroups
    <2>3. \A v \in W : old[v] \in Int /\ F[v] \in Int /\ new[v] = old[v] + F[v]
      BY <1>4, <1>5
    <2> HIDE DEF F, old, new
    <2>4. SumOf(new, W) = SumOf(old, W) + SumOf(F, W)
      BY <2>1, <2>3, SumPlus
    <2> QED
      BY <2>2, <2>4 DEF KeysIn
  <1>7. SumOf(b, K) \in Int /\ (twice = {} => SumOf(b, K) >= 0)
    <2> HIDE DEF b, K
    <2>1. SumOf(b, K) \in Int
      BY <1>1, <1>2, SumType
    <2>2. ASSUME twice = {} PROVE SumOf(b, K) \in Nat
      <3>1. \A k \in K : b[k] \in Int /\ b[k] >= 0
        BY <1>1, <2>2
      <3> QED
        BY <1>2, <3>1, SumNat
    <2> QED
      BY <2>1, <2>2
  <1>8. totals.all \in Int /\ \A c \in Crates : totals.crates[c] \in Int
    BY DEF TotalTypes
  <1>9. /\ NewTotal(SumOf(b, K)) \in Int /\ NewTotal(SumOf(b, K)) >= totals.all + SumOf(b, K)
        /\ twice = {} => NewTotal(SumOf(b, K)) = totals.all + SumOf(b, K)
    <2> HIDE DEF b, K
    <2> QED
      BY <1>7, <1>8 DEF NewTotal
  <1>10. /\ totals'.all >= SumOf(new, Versions)
         /\ twice' = {} => totals'.all = SumOf(new, Versions)
    <2>1. {k \in K : k[1] \in Versions} = K
      BY <1>1 DEF DownloadKeys
    <2>2. SumOf(new, Versions) = SumOf(old, Versions) + SumOf(b, K)
      BY <1>6, <2>1
    <2>3. totals'.all = NewTotal(SumOf(b, K)) /\ twice' = twice
      BY <1>3 DEF BatchApply, downloadHistory
    <2>4. totals.all >= SumOf(old, Versions) /\ (twice = {} => totals.all = SumOf(old, Versions))
      BY DEF TotalsAgree
    <2>5. SumOf(old, Versions) \in Int
      <3>1. \A v \in Versions : old[v] \in Int
        BY <1>4
      <3> HIDE DEF old
      <3> QED
        BY <1>2, <3>1, SumType
    <2> HIDE DEF b, K, old, new
    <2> QED
      BY <1>7, <1>8, <1>9, <2>2, <2>3, <2>4, <2>5
  <1>11. ASSUME NEW c \in Crates
         PROVE  totals'.crates[c] = SumOf(new, {v \in Versions : CrateOf[v] = c}) /\ totals'.crates[c] \in Int
    <2> DEFINE W == {v \in Versions : CrateOf[v] = c}
               T == {k \in K : k[1] \in W}
    <2>1. {k \in K : CrateOf[k[1]] = c} = T
      BY <1>1 DEF DownloadKeys
    <2>2. totals'.crates[c] = totals.crates[c] + SumOf(b, T)
      BY <1>3, <2>1
    <2>3. totals.crates[c] = SumOf(old, W)
      BY DEF TotalsAgree
    <2>4. SumOf(new, W) = SumOf(old, W) + SumOf(b, T)
      BY <1>6
    <2>5. SumOf(b, T) \in Int
      <3>1. IsFiniteSet(T) /\ \A k \in T : b[k] \in Int
        BY <1>1, <1>2, FS_Subset
      <3> HIDE DEF T
      <3> QED
        BY <3>1, SumType
    <2> QED
      BY <1>8, <2>2, <2>3, <2>4, <2>5
  <1>12. TotalTypes'
    <2>1. totals'.all \in Int
      BY <1>3, <1>9
    <2>2. \A v \in Versions : totals'.versions[v] \in Int
      BY <1>5
    <2>3. \A c \in Crates : totals'.crates[c] \in Int
      BY <1>11
    <2>4. /\ totals' = [versions |-> totals'.versions, crates |-> totals'.crates, all |-> totals'.all]
          /\ totals'.versions = [v \in Versions |-> totals'.versions[v]]
          /\ totals'.crates = [c \in Crates |-> totals'.crates[c]]
      BY <1>3
    <2> QED
      BY <2>1, <2>2, <2>3, <2>4 DEF TotalTypes
  <1> QED
    BY <1>10, <1>11, <1>12 DEF TotalsAgree

\* What is due changes as the log files do.
LEMMA TotalsSame ==
  ASSUME LogTypes, LogTypes', RowTypes, RowTypes', BatchInd, BatchInd', TotalsInd,
         UNCHANGED totals, twice \subseteq twice',
         \A k \in DownloadKeys \ twice' : Due'[k] + Expected(k) <= Due[k] + Expected(k)',
         (\A d \in Days : archive'[d] = EmptyMap) =>
           /\ \A d \in Days : archive[d] = EmptyMap
           /\ \A k \in DownloadKeys : rows'[k].counted = rows[k].counted
  PROVE  TotalsInd'
  <1> DEFINE a == [k \in DownloadKeys |-> 0]
  <1>1. \A k \in DownloadKeys : a[k] = 0 /\ a[k] \in Int
    OBVIOUS
  <1> HIDE DEF a
  <1>2. \A v \in Versions : totals'.versions[v] = totals.versions[v] + SumOf(a, OwnKeys(v))
    <2> TAKE v \in Versions
    <2>1. SumOf(a, OwnKeys(v)) = 0
      BY <1>1, OwnFinite, SumZero
    <2>2. totals.versions[v] \in Int
      BY DEF TotalsInd, TotalTypes
    <2> QED
      BY <2>1, <2>2
  <1>3. DueSound /\ DueSound'
    BY DueType, PTL
  <1>4. \A k \in DownloadKeys \ twice' : Due'[k] + a[k] + Expected(k) <= Due[k] + Expected(k)'
    <2> TAKE k \in DownloadKeys \ twice'
    <2>1. Due'[k] \in Int
      BY <1>3 DEF DueSound
    <2> QED
      BY <1>1, <2>1
  <1>5. \A k \in DownloadKeys : rows'[k].counted = rows[k].counted => rows'[k].counted = rows[k].counted + a[k]
    BY <1>1 DEF RowTypes
  <1>6. TotalsBounded' /\ TotalsExact'
    BY <1>1, <1>2, <1>4, <1>5, TotalsStep DEF TotalsInd
  <1>7. TotalTypes' /\ TotalsAgree'
    <2>1. TotalTypes'
      BY DEF TotalsInd, TotalTypes
    <2>2. twice' = {} => twice = {}
      OBVIOUS
    <2> QED
      BY <2>1, <2>2 DEF TotalsInd, TotalsAgree
  <1> QED
    BY <1>6, <1>7 DEF TotalsInd

\* No step makes the totals disagree, or count what was in no log file.
LEMMA StepTotals ==
  LogTypes /\ LogTypes' /\ RowTypes /\ RowTypes' /\ BatchInd /\ BatchInd' /\ ArchiveInd
    /\ TotalsInd /\ [DownloadsNext]_downloadVars => TotalsInd'
  <1> SUFFICES ASSUME LogTypes, LogTypes', RowTypes, RowTypes', BatchInd, BatchInd', ArchiveInd,
                      TotalsInd, [DownloadsNext]_downloadVars
               PROVE  TotalsInd'
    OBVIOUS
  <1> USE DEF front, counts, store, downloadHistory
  <1>0. DueSound /\ DueSound' /\ ExpectedSound /\ ExpectedSound'
    BY DueType, ExpectedType, PTL
  <1>1. ASSUME UNCHANGED <<rows, totals, updRun, archive, saved, twice>> PROVE TotalsInd'
    <2>1. \A k \in DownloadKeys : Open(k)' = Open(k) /\ GoneOf(k)' = GoneOf(k)
      BY <1>1 DEF Open, GoneOf
    <2>2. \A k \in DownloadKeys : Due'[k] + Expected(k) <= Due[k] + Expected(k)'
      <3> TAKE k \in DownloadKeys
      <3>1. Expected(k)' = Expected(k) /\ Expected(k) \in Nat
        BY <1>0, <1>1 DEF Expected, ExpectedSound
      <3>2. Due'[k] = Due[k] /\ Due[k] \in Int
        BY <1>0, <2>1 DEF DueSound
      <3> QED
        BY <3>1, <3>2
    <2> QED
      BY <1>1, <2>2, TotalsSame
  <1>2. CASE UNCHANGED downloadVars
    BY <1>1, <1>2 DEF downloadVars
  <1>3. ASSUME NEW q \in QueueRuns, QueueNext(q) \/ QueueFail(q) PROVE TotalsInd'
    BY <1>1, <1>3 DEF QueueNext, QueueFail, Receive, ProcessBody, DeleteMessage, Trouble
  <1>4. ASSUME \/ NextDay \/ CleanProcessedLogFiles
               \/ \E m \in Messages : Announce(m)
               \/ \E a \in Archivers : ArchiveFail(a) \/ \E before \in Days \cup {MaxDay + 1} : Export(a, before)
        PROVE  TotalsInd'
    BY <1>1, <1>4 DEF NextDay, CleanProcessedLogFiles, Export, ArchiveFail, Announce
  <1>5. ASSUME NEW w \in LogWorkers, NEW l \in Logs,
               SaveAsProcessed(w, l) \/ RejectLog(w, l) \/ LogFail(w, l) \/ StartLog(w, l)
        PROVE  TotalsInd'
    BY <1>1, <1>5 DEF SaveAsProcessed, RejectLog, LogFail, StartLog, EndLog
  <1>6. ASSUME NEW w \in LogWorkers, NEW l \in Logs, CommitLog(w, l) PROVE TotalsInd'
    <2>1. /\ rows' = SaveDownloads(l) /\ saved' = [saved EXCEPT ![l] = @ + 1]
          /\ UNCHANGED <<totals, updRun, archive, twice>>
      BY <1>6 DEF CommitLog
    <2>2. \A k \in DownloadKeys :
            /\ rows'[k].downloads = rows[k].downloads + InLog(l, k)
            /\ rows'[k].counted = rows[k].counted
      BY <2>1, SavedRows
    <2>3. \A k \in DownloadKeys : GoneOf(k)' = GoneOf(k)
      BY <2>1 DEF GoneOf
    <2>4. ASSUME NEW k \in DownloadKeys
          PROVE  Due'[k] + Expected(k) <= Due[k] + Expected(k)'
      <3>1. InLog(l, k) \in Nat /\ rows[k].downloads \in Nat /\ rows[k].counted \in Int
        BY InLogType DEF RowTypes
      <3>2. Open(k)' = Open(k) + InLog(l, k) /\ Open(k) \in Int
        BY <2>2, <3>1 DEF Open
      <3>3. Expected(k)' = Expected(k) + InLog(l, k)
        <4>1. saved \in [Logs -> Nat]
          BY DEF LogTypes
        <4>2. Expected(k) = E(saved, k) /\ Expected(k)' = E(saved', k)
          BY DEF Expected, E
        <4>3. E([saved EXCEPT ![l] = @ + 1], k) = E(saved, k) + InLog(l, k)
          BY <4>1, ExpectedGrows
        <4> QED
          BY <2>1, <4>2, <4>3
      <3>4. Expected(k) \in Nat /\ GoneOf(k) \in Int
        BY <1>0 DEF DueSound, ExpectedSound
      <3>5. Due[k] = Open(k) + GoneOf(k) /\ Due'[k] = Open(k)' + GoneOf(k)'
        BY <1>0 DEF DueSound
      <3>6. GoneOf(k)' = GoneOf(k)
        BY <2>3
      <3> QED
        BY <3>1, <3>2, <3>3, <3>4, <3>5, <3>6
    <2> QED
      BY <2>1, <2>2, <2>4, TotalsSame
  <1>7. ASSUME NEW u \in Updaters, UNCHANGED <<totals, archive, saved>>, twice \subseteq twice',
               updRun'[u].gone = {}, \A x \in Updaters \ {u} : updRun'[x] = updRun[x],
               \A k \in DownloadKeys : Open(k)' = Open(k) /\ rows'[k].counted = rows[k].counted
        PROVE  TotalsInd'
    <2>1. ASSUME NEW k \in DownloadKeys \ twice'
          PROVE  Due'[k] + Expected(k) <= Due[k] + Expected(k)'
      <3>1. k \notin twice
        BY <1>7
      <3>2. GoneOf(k)' <= GoneOf(k)
        <4>1. CASE \A x \in Updaters : k \notin updRun'[x].gone
          BY <1>0, <3>1, <4>1 DEF DueSound
        <4>2. ASSUME NEW x \in Updaters, k \in updRun'[x].gone PROVE GoneOf(k)' <= GoneOf(k)
          <5>1. x # u /\ updRun'[x] = updRun[x]
            BY <1>7, <4>2
          <5>2. GoneOf(k)' = updRun[x].batch[k] /\ GoneOf(k) = updRun[x].batch[k] /\ GoneOf(k) \in Int
            BY <1>0, <3>1, <4>2, <5>1 DEF DueSound
          <5> QED
            BY <5>2
        <4> QED
          BY <4>1, <4>2
      <3>3. /\ Due[k] = Open(k) + GoneOf(k) /\ Due'[k] = Open(k)' + GoneOf(k)'
            /\ Open(k) \in Int /\ GoneOf(k) \in Int /\ GoneOf(k)' \in Int
        BY <1>0 DEF DueSound
      <3>4. Expected(k)' = Expected(k) /\ Expected(k) \in Nat
        BY <1>0, <1>7 DEF Expected, ExpectedSound
      <3>5. Open(k)' = Open(k)
        BY <1>7
      <3> QED
        BY <3>2, <3>3, <3>4, <3>5
    <2> QED
      BY <1>7, <2>1, TotalsSame
  <1>8. ASSUME NEW u \in Updaters, StartUpdate(u) \/ UpdateFail(u) \/ BatchRead(u) \/ Freeze(u)
        PROVE  TotalsInd'
    <2>1. UNCHANGED <<totals, archive, saved>> /\ twice \subseteq twice'
      BY <1>8 DEF StartUpdate, UpdateFail, BatchRead, Freeze
    <2>2. \A k \in DownloadKeys : Open(k)' = Open(k) /\ rows'[k].counted = rows[k].counted
      <3>1. CASE UNCHANGED rows
        BY <3>1 DEF Open
      <3>2. CASE Freeze(u)
        <4> TAKE k \in DownloadKeys
        <4>1. rows[k] \in Row
          BY DEF RowTypes, Row
        <4>2. rows'[k] = rows[k] \/ rows'[k] = [rows[k] EXCEPT !.processed = TRUE]
          BY <3>2 DEF Freeze
        <4> QED
          BY <4>1, <4>2 DEF Row, Open
      <3> QED
        BY <1>8, <3>1, <3>2 DEF StartUpdate, UpdateFail, BatchRead
    <2>3. \A x \in Updaters \ {u} : updRun'[x] = updRun[x]
      BY <1>8 DEF StartUpdate, UpdateFail, BatchRead, Freeze, RowTypes
    <2>4. updRun'[u].gone = {}
      <3>1. CASE StartUpdate(u)
        <4>0. updRun[u].gone = {}
          BY <3>1 DEF StartUpdate, BatchInd, RunInd
        <4>1. updRun[u] = [pc |-> updRun[u].pc, batch |-> updRun[u].batch, gone |-> {}]
          BY <4>0 DEF RowTypes
        <4>2. updRun'[u] = [updRun[u] EXCEPT !.pc = "next"]
          BY <3>1 DEF StartUpdate, RowTypes
        <4>3. [updRun[u] EXCEPT !.pc = "next"].gone = {}
          BY <4>1
        <4> QED
          BY <4>2, <4>3
      <3>2. CASE ~StartUpdate(u)
        BY <1>8, <3>2 DEF UpdateFail, BatchRead, Freeze, RowTypes, NoUpdate
      <3> QED
        BY <3>1, <3>2
    <2> QED
      BY <1>7, <2>1, <2>2, <2>3, <2>4
  <1>9. ASSUME NEW u \in Updaters, NEW timeout \in BOOLEAN, BatchApply(u, timeout)
        PROVE  TotalsInd'
    <2> DEFINE run == updRun[u]
               b == run.batch
               a == [k \in DownloadKeys |-> IF k \in DOMAIN b THEN b[k] ELSE 0]
    <2>1. /\ run.pc = "read"
          /\ rows' = Applied(run.batch, run.gone)
          /\ \A v \in Versions : totals'.versions[v] = totals.versions[v] + SumOf(b, {k \in DOMAIN b : k[1] = v})
          /\ updRun' = [updRun EXCEPT ![u] = [NoUpdate EXCEPT !.pc =
                 IF Cardinality(DOMAIN run.batch) = BatchSize /\ ~timeout THEN "next" ELSE "freeze"]]
          /\ UNCHANGED <<archive, saved, twice>>
      BY <1>9 DEF BatchApply
    <2>2. \A k \in DownloadKeys :
               /\ rows'[k].downloads = rows[k].downloads
               /\ rows'[k].counted = rows[k].counted +
                    (IF k \in DOMAIN run.batch \ run.gone THEN run.batch[k] ELSE 0)
      BY <2>1, AppliedRows
    <2>3. /\ DOMAIN b \subseteq DownloadKeys /\ run.gone \subseteq DOMAIN b
          /\ \A k \in DOMAIN b : b[k] \in Int
      BY DEF RowTypes
    <2>4. \A k \in DownloadKeys : a[k] \in Int /\ a[k] = IF k \in DOMAIN b THEN b[k] ELSE 0
      BY <2>3
    <2>5. \A v \in Versions : totals'.versions[v] = totals.versions[v] + SumOf(a, OwnKeys(v))
      <3> HIDE DEF a, b
      <3>1. \A k \in DOMAIN b : b[k] \in Int
        BY <2>3
      <3>2. \A v \in Versions : SumOf(a, OwnKeys(v)) = SumOf(b, {k \in DOMAIN b : k[1] = v})
        BY <2>3, <2>4, <3>1, BatchSum
      <3> QED
        BY <2>1, <3>2
    <2>6. updRun'[u].gone = {} /\ \A x \in Updaters \ {u} : updRun'[x] = updRun[x]
      BY <2>1 DEF RowTypes, NoUpdate
    <2>7. ASSUME NEW k \in DownloadKeys \ twice, k \in DOMAIN b, NEW x \in Updaters \ {u}
          PROVE  k \notin updRun[x].gone
      BY <2>7 DEF RowTypes, BatchInd, SoleReader
    <2>9. ASSUME NEW k \in DownloadKeys \ twice
          PROVE  Due'[k] + a[k] + Expected(k) <= Due[k] + Expected(k)'
      <3>1. /\ Due[k] = Open(k) + GoneOf(k) /\ Due'[k] = Open(k)' + GoneOf(k)'
            /\ Open(k) \in Int /\ GoneOf(k) \in Int /\ GoneOf(k)' \in Int
        BY <1>0 DEF DueSound
      <3>2. Expected(k)' = Expected(k) /\ Expected(k) \in Nat
        BY <1>0, <2>1 DEF Expected, ExpectedSound
      <3>3. Open(k)' = Open(k) - (IF k \in DOMAIN b \ run.gone THEN b[k] ELSE 0)
        <4>1. rows[k].downloads \in Nat /\ rows[k].counted \in Int
          BY DEF RowTypes
        <4> HIDE DEF run, a
        <4> QED
          BY <2>2, <2>3, <4>1 DEF Open
      <3>4. CASE k \in DOMAIN b
        <4>1. GoneOf(k)' = 0
          <5>1. \A x \in Updaters : k \notin updRun'[x].gone
            BY <2>6, <2>7, <3>4
          <5> QED
            BY <1>0, <5>1 DEF DueSound
        <4>2. k \in run.gone => GoneOf(k) = b[k]
          BY <1>0 DEF DueSound
        <4>3. k \notin run.gone => GoneOf(k) = 0
          <5>1. k \notin run.gone => \A x \in Updaters : k \notin updRun[x].gone
            BY <2>7, <3>4
          <5> QED
            BY <1>0, <5>1 DEF DueSound
        <4> HIDE DEF a, b, run
        <4> QED
          BY <2>3, <2>4, <3>1, <3>2, <3>3, <3>4, <4>1, <4>2, <4>3
      <3>5. CASE k \notin DOMAIN b
        <4>1. \A x \in Updaters : k \in updRun'[x].gone <=> k \in updRun[x].gone
          BY <2>3, <2>6, <3>5
        <4>2. GoneOf(k)' = GoneOf(k)
          <5>1. CASE \A x \in Updaters : k \notin updRun[x].gone
            BY <1>0, <4>1, <5>1 DEF DueSound
          <5>2. ASSUME NEW x \in Updaters, k \in updRun[x].gone PROVE GoneOf(k)' = GoneOf(k)
            <6>1. x # u /\ updRun'[x] = updRun[x]
              BY <2>3, <2>6, <3>5, <5>2
            <6>2. k \notin twice' /\ k \in updRun'[x].gone
              BY <2>1, <5>2, <6>1
            <6> QED
              BY <1>0, <5>2, <6>1, <6>2 DEF DueSound
          <5> QED
            BY <5>1, <5>2
        <4> HIDE DEF a, b, run
        <4> QED
          BY <2>4, <3>1, <3>2, <3>3, <3>5, <4>2
      <3> QED
        BY <3>4, <3>5
    <2>10. ASSUME \A d \in Days : archive'[d] = EmptyMap
           PROVE  /\ \A d \in Days : archive[d] = EmptyMap
                  /\ \A k \in DownloadKeys : rows'[k].counted = rows[k].counted + a[k]
      <3>1. run.gone = {}
        BY <2>1, <2>10 DEF BatchInd, RunInd
      <3> QED
        BY <2>1, <2>2, <2>10, <3>1
    <2>11. TotalTypes /\ TotalsAgree /\ TotalsBounded /\ TotalsExact
      BY DEF TotalsInd
    <2>12. TotalsBounded' /\ TotalsExact'
      <3> HIDE DEF a, b, run
      <3> QED
        BY <2>1, <2>4, <2>5, <2>9, <2>10, <2>11, TotalsStep
    <2>13. TotalTypes' /\ TotalsAgree'
      BY <1>9, <2>11, AppliedAgree
    <2> QED
      BY <2>12, <2>13 DEF TotalsInd
  <1>10. ASSUME NEW a \in Archivers, UploadCsv(a) PROVE TotalsInd'
    <2>1. PICK ok \in SUBSET DOMAIN archRun[a].files :
            archive' = [d \in Days |-> IF d \in ok THEN archRun[a].files[d] ELSE archive[d]]
      BY <1>10 DEF UploadCsv
    <2>2. UNCHANGED <<rows, totals, updRun, saved, twice>>
      BY <1>10 DEF UploadCsv
    <2>3. ASSUME \A d \in Days : archive'[d] = EmptyMap PROVE \A d \in Days : archive[d] = EmptyMap
      <3>1. \A d \in ok : d \in Days /\ archRun[a].files[d] # EmptyMap
        BY DEF ArchiveInd, ArchiveTypes
      <3> QED
        BY <2>1, <2>3, <3>1
    <2>5. \A k \in DownloadKeys : Due'[k] + Expected(k) <= Due[k] + Expected(k)'
      <3> TAKE k \in DownloadKeys
      <3>1. Expected(k)' = Expected(k) /\ Expected(k) \in Nat
        BY <1>0, <2>2 DEF Expected, ExpectedSound
      <3>2. Open(k)' = Open(k) /\ GoneOf(k)' = GoneOf(k)
        BY <2>2 DEF Open, GoneOf
      <3>3. Due'[k] = Due[k] /\ Due[k] \in Int
        BY <1>0, <3>2 DEF DueSound
      <3> QED
        BY <3>1, <3>3
    <2> QED
      BY <2>2, <2>3, <2>5, TotalsSame
  <1>11. ASSUME NEW a \in Archivers, NEW ok \in BOOLEAN, DeleteArchived(a, ok) PROVE TotalsInd'
    <2> DEFINE dates == IF ok THEN archRun[a].dates ELSE {}
               deleted == {k \in DownloadKeys : k[2] \in dates}
    <2>1. /\ rows' = [k \in DownloadKeys |-> IF k \in deleted THEN NoRow ELSE rows[k]]
          /\ updRun' = [u \in Updaters |->
               [updRun[u] EXCEPT !.gone = @ \cup (deleted \cap DOMAIN updRun[u].batch)]]
          /\ UNCHANGED <<totals, archive, saved, twice>>
      BY <1>11 DEF DeleteArchived
    <2>2. ASSUME NEW u \in Updaters
          PROVE  /\ updRun'[u].pc = updRun[u].pc /\ updRun'[u].batch = updRun[u].batch
                 /\ updRun'[u].gone = updRun[u].gone \cup (deleted \cap DOMAIN updRun[u].batch)
      <3> DEFINE add == deleted \cap DOMAIN updRun[u].batch
      <3>1. updRun[u] = [pc |-> updRun[u].pc, batch |-> updRun[u].batch, gone |-> updRun[u].gone]
        BY DEF RowTypes
      <3>2. updRun'[u] = [updRun[u] EXCEPT !.gone = @ \cup add]
        BY <2>1
      <3> HIDE DEF add, deleted
      <3>3. [updRun[u] EXCEPT !.gone = @ \cup add]
              = [pc |-> updRun[u].pc, batch |-> updRun[u].batch, gone |-> updRun[u].gone \cup add]
        <4>1. \A p, b, g : [[pc |-> p, batch |-> b, gone |-> g] EXCEPT !.gone = @ \cup add]
                             = [pc |-> p, batch |-> b, gone |-> g \cup add]
          OBVIOUS
        <4> QED
          BY <3>1, <4>1
      <3> QED
        BY <3>2, <3>3 DEF add
    <2>3. ASSUME \A d \in Days : archive'[d] = EmptyMap
          PROVE  /\ \A d \in Days : archive[d] = EmptyMap
                 /\ \A k \in DownloadKeys : rows'[k].counted = rows[k].counted
      <3>1. archRun[a].dates = {}
        BY <2>1, <2>3 DEF ArchiveInd, ArchiveTypes
      <3>2. deleted = {}
        BY <3>1
      <3> QED
        BY <2>1, <2>3, <3>2
    <2> HIDE DEF deleted
    <2>4. ASSUME NEW k \in DownloadKeys \ twice
          PROVE  Open(k)' + GoneOf(k)' <= Open(k) + GoneOf(k)
      <3>1. /\ k \in deleted => Open(k)' = 0
            /\ k \notin deleted => Open(k)' = Open(k)
        BY <2>1 DEF Open, NoRow
      <3>2. /\ Open(k) \in Int /\ Open(k) >= 0 /\ GoneOf(k) \in Int /\ GoneOf(k) >= 0
            /\ GoneOf(k)' \in Int
        BY <1>0 DEF DueSound
      <3>3. CASE \A u \in Updaters : k \notin updRun'[u].gone
        <4>1. GoneOf(k)' = 0
          BY <1>0, <3>3 DEF DueSound
        <4> QED
          BY <3>1, <3>2, <4>1
      <3>4. ASSUME NEW u \in Updaters, k \in updRun'[u].gone
            PROVE  Open(k)' + GoneOf(k)' <= Open(k) + GoneOf(k)
        <4>1. GoneOf(k)' = updRun[u].batch[k]
          <5>1. k \notin twice'
            BY <2>1
          <5> QED
            BY <1>0, <2>2, <3>4, <5>1 DEF DueSound
        <4>2. CASE k \in updRun[u].gone
          <5>1. GoneOf(k) = updRun[u].batch[k]
            BY <1>0, <4>2 DEF DueSound
          <5> QED
            BY <3>1, <3>2, <4>1, <5>1
        <4>3. CASE k \notin updRun[u].gone
          <5>1. k \in deleted /\ k \in DOMAIN updRun[u].batch
            BY <2>2, <3>4, <4>3
          <5>2. updRun[u].batch[k] <= Open(k)
            BY <4>3, <5>1 DEF BatchInd, RunInd
          <5> QED
            BY <3>1, <3>2, <4>1, <5>1, <5>2
        <4> QED
          BY <4>2, <4>3
      <3> QED
        BY <3>3, <3>4
    <2>5. \A k \in DownloadKeys \ twice : Due'[k] + Expected(k) <= Due[k] + Expected(k)'
      <3> TAKE k \in DownloadKeys \ twice
      <3>1. Expected(k)' = Expected(k) /\ Expected(k) \in Nat
        BY <1>0, <2>1 DEF Expected, ExpectedSound
      <3>2. Due[k] = Open(k) + GoneOf(k) /\ Due'[k] = Open(k)' + GoneOf(k)' /\ Due[k] \in Int /\ Due'[k] \in Int
        BY <1>0 DEF DueSound
      <3>3. Open(k)' + GoneOf(k)' <= Open(k) + GoneOf(k)
        BY <2>4
      <3> QED
        BY <3>1, <3>2, <3>3
    <2> QED
      BY <2>1, <2>3, <2>5, TotalsSame
  <1> QED
    BY <1>2, <1>3, <1>4, <1>5, <1>6, <1>8, <1>9, <1>10, <1>11 DEF DownloadsNext, LogNext, UpdateNext, ArchiveNext

-----------------------------------------------------------------------------
(* The theorem.                                                            *)

\* What the inductive invariant says, in the words of DownloadsInv
LEMMA DownloadsIndImplies == DownloadsInd => DownloadsInv
  <1> SUFFICES ASSUME DownloadsInd PROVE DownloadsInv
    OBVIOUS
  <1> USE DEF DownloadsInd
  <1>1. DownloadsTypeOK
    <2>1. \A l \in Logs : waiting[l] \in Nat /\ marks[l] \in 0..day
      BY DEF LogTypes, Days
    <2>2. \A k \in DownloadKeys : rows[k].downloads \in Nat /\ rows[k].counted \in Int
      BY DEF RowTypes
    <2> QED
      BY <2>1, <2>2 DEF DownloadsTypeOK, LogTypes, BatchInd, RunInd
  <1>2. SavedOnce
    <2> SUFFICES ASSUME NEW l \in Logs PROVE saved[l] <= 1 + forgiven.forgotten[l]
      BY DEF SavedOnce
    <2>1. saved[l] \in Nat /\ forgiven.forgotten[l] \in Nat
      BY DEF LogTypes
    <2>2. saved[l] <= forgiven.forgotten[l] + (IF marks[l] # 0 THEN 1 ELSE 0)
      BY DEF MarksInd
    <2> QED
      BY <2>1, <2>2
  <1>3. CountedIsTotal
    <2>1. DueSound /\ ExpectedSound
      BY DueType, ExpectedType
    <2>2. ASSUME NEW v \in Versions, OwnKeys(v) \cap twice = {}
          PROVE  totals.versions[v] <= SumOf([k \in DownloadKeys |-> Expected(k)], OwnKeys(v))
      <3> DEFINE S == OwnKeys(v)
                 e == [k \in DownloadKeys |-> Expected(k)]
                 d == Due
      <3>1. IsFiniteSet(S) /\ \A k \in S : k \in DownloadKeys /\ k \notin twice
        BY <2>2, OwnFinite
      <3>2. \A k \in S : d[k] \in Int /\ d[k] >= 0 /\ e[k] \in Int
        BY <2>1, <3>1 DEF DueSound, ExpectedSound
      <3>3. totals.versions[v] \in Int /\ totals.versions[v] + SumOf(d, S) <= SumOf(e, S)
        BY <2>2 DEF TotalTypes, TotalsBounded
      <3> HIDE DEF S, e, d
      <3>4. SumOf(d, S) \in Nat /\ SumOf(e, S) \in Int
        BY <3>1, <3>2, SumNat, SumType
      <3>5. totals.versions[v] <= SumOf(e, S)
        BY <3>3, <3>4
      <3> QED
        BY <3>5 DEF S, e
    <2> QED
      BY <2>2 DEF CountedIsTotal, TotalsExact, OwnKeys
  <1> QED
    BY <1>1, <1>2, <1>3 DEF DownloadsInv

\* Counting downloads (DownloadsInv): while it is remembered, each log file is saved once;
\* whatever runs overlap, no download is lost or doubled on the way from the log files
\* through the rows to the archive, but on dates whose log files came late; and the totals
\* of versions and crates agree with the rows and with each other - so does the total of
\* the registry, until two runs of the update have read a row at once.
THEOREM DownloadsAreCounted == DownloadsSpec => []DownloadsInv
  <1>1. DownloadsInit => DownloadsInd
    BY InitLogs, InitRows, InitConserved, InitTotals DEF DownloadsInd, ConservedInd, TotalsInd
  <1>2. DownloadsInd /\ [DownloadsNext]_downloadVars => DownloadsInd'
    <2> SUFFICES ASSUME DownloadsInd, [DownloadsNext]_downloadVars PROVE DownloadsInd'
      OBVIOUS
    <2>1. /\ LogTypes /\ MarksInd /\ RowTypes /\ BatchInd /\ ConservedInd /\ TotalsInd /\ ArchiveInd
      BY DEF DownloadsInd, ConservedInd, TotalsInd
    <2>2. LogTypes' /\ MarksInd'
      BY <2>1, StepLogs
    <2>3. RowTypes' /\ BatchInd'
      BY <2>1, StepRows
    <2>4. ConservedInd'
      BY <2>1, <2>2, StepConserved
    <2>5. TotalsInd'
      BY <2>1, <2>2, <2>3, StepTotals
    <2> QED
      BY <2>2, <2>3, <2>4, <2>5 DEF DownloadsInd, ConservedInd, TotalsInd
  <1> QED
    BY <1>1, <1>2, DownloadsIndImplies, PTL DEF DownloadsSpec

-----------------------------------------------------------------------------
(* The versions of a crate in order (CrateView).                           *)

\* A finite set with a measure has a member that none exceeds.
LEMMA HighestOf ==
  ASSUME NEW S, IsFiniteSet(S), S # {}, NEW f, \A x \in S : f[x] \in Int
  PROVE  \E m \in S : \A x \in S : f[x] <= f[m]
  <1> DEFINE Above(x) == {y \in S : f[y] > f[x]}
             C == {Above(x) : x \in S}
  <1>1. PICK T \in C : \A U \in C : U \subseteq T => U = T
    <2>1. C \in SUBSET SUBSET S /\ C # {}
      OBVIOUS
    <2> HIDE DEF C
    <2> QED
      BY <2>1, SmallestSubset
  <1>2. PICK m \in S : T = Above(m)
    BY <1>1
  <1>3. ASSUME NEW y \in S, f[y] > f[m] PROVE FALSE
    <2>1. \A z \in S : f[z] > f[y] => f[z] > f[m]
      BY <1>3
    <2>2. Above(y) \subseteq Above(m) /\ y \in Above(m) /\ y \notin Above(y)
      BY <1>3, <2>1
    <2>3. Above(y) \in C
      OBVIOUS
    <2> HIDE DEF Above
    <2> QED
      BY <1>1, <1>2, <2>2, <2>3
  <1> QED
    BY <1>3

\* A sequence of the elements of a finite set has each of them once.
LEMMA ElementsOfSeqs ==
  ASSUME NEW S, IsFiniteSet(S), NEW s \in SetToSeqs(S)
  PROVE  /\ Cardinality(S) \in Nat
         /\ s \in Seq(S) /\ Len(s) = Cardinality(S) /\ DOMAIN s = 1..Cardinality(S)
         /\ \A i \in 1..Cardinality(S) : s[i] \in S
         /\ \A i, j \in 1..Cardinality(S) : s[i] = s[j] => i = j
         /\ \A x \in S : \E i \in 1..Cardinality(S) : s[i] = x
  <1> DEFINE n == Cardinality(S)
  <1>1. n \in Nat
    BY FS_CardinalityType
  <1>2. s \in [1..n -> S] /\ \A i, j \in 1..n : i # j => s[i] # s[j]
    BY DEF SetToSeqs
  <1>3. s \in Injection(1..n, S)
    BY <1>2 DEF Injection, IsInjective
  <1>4. Cardinality(1..n) = n
    BY <1>1, FS_Interval
  <1>5. s \in Surjection(1..n, S)
    BY <1>3, <1>4, FS_Injection
  <1>6. \A x \in S : \E i \in 1..n : s[i] = x
    BY <1>5 DEF Surjection
  <1>7. s \in Seq(S) /\ Len(s) = n
    BY <1>1, <1>2
  <1> QED
    BY <1>1, <1>2, <1>6, <1>7

\* Numbers tell versions apart.
NumsOK == num \in [VersionIds -> VersionIds] /\ \A v, w \in VersionIds : num[v] = num[w] => v = w

\* Ids and the places of numbers are natural numbers above zero.
LEMMA IdsAreNumbers ==
  ASSUME NumsOK
  PROVE  /\ IsFiniteSet(VersionIds)
         /\ \A v \in VersionIds : v \in Nat /\ v >= 1 /\ num[v] \in VersionIds
         /\ \A v \in VersionIds : num[v] \in Nat /\ num[v] >= 1
  <1>1. PICK n : n = Cardinality(VersionIds)
    OBVIOUS
  <1>2. n \in Nat /\ VersionIds = 1..n
    BY <1>1, CrateViewAssumption, FS_CardinalityType
  <1>3. \A v \in VersionIds : v \in Nat /\ v >= 1
    BY <1>2
  <1> QED
    BY <1>3, CrateViewAssumption DEF NumsOK

\* s is in semver order, the highest version first.
Descending(s) == \A i, j \in DOMAIN s : i < j => num[s[i]] > num[s[j]]

\* Any versions can be put in order: the lowest of them comes last.
LEMMA Sortable ==
  ASSUME NumsOK, NEW S \in SUBSET VersionIds
  PROVE  \E s \in SetToSeqs(S) : Descending(s)
  <1>0. IsFiniteSet(S) /\ \A v \in VersionIds : num[v] \in Nat
    BY IdsAreNumbers, FS_Subset
  <1> DEFINE C == {T \in SUBSET S : ~ \E s \in SetToSeqs(T) : Descending(s)}
  <1>1. SUFFICES ASSUME C # {} PROVE FALSE
    OBVIOUS
  <1>2. PICK T \in C : \A U \in C : U \subseteq T => U = T
    <2>1. C \in SUBSET SUBSET S
      OBVIOUS
    <2> HIDE DEF C
    <2> QED
      BY <1>0, <1>1, <2>1, SmallestSubset
  <1>3. IsFiniteSet(T) /\ T \in SUBSET S
    BY <1>0, <1>2, FS_Subset
  <1>4. CASE T = {}
    <2> DEFINE s == [i \in 1..0 |-> 0]
    <2>1. Cardinality(T) = 0
      BY <1>4, FS_EmptySet
    <2>2. s \in SetToSeqs(T)
      BY <1>4, <2>1 DEF SetToSeqs
    <2>3. Descending(s)
      BY DEF Descending
    <2> HIDE DEF s
    <2> QED
      BY <1>2, <2>2, <2>3
  <1>5. CASE T # {}
    <2> DEFINE f == [v \in T |-> 0 - num[v]]
    <2>1. PICK m \in T : \A v \in T : f[v] <= f[m]
      <3>1. \A v \in T : f[v] \in Int
        BY <1>0, <1>3
      <3> HIDE DEF f
      <3> QED
        BY <1>3, <1>5, <3>1, HighestOf
    <2>2. \A v \in T \ {m} : num[v] > num[m]
      <3> TAKE v \in T \ {m}
      <3>1. f[v] <= f[m] /\ f[v] = 0 - num[v] /\ f[m] = 0 - num[m]
        BY <2>1
      <3>2. num[v] \in Nat /\ num[m] \in Nat /\ num[v] # num[m]
        BY <1>0, <1>3 DEF NumsOK
      <3> QED
        BY <3>1, <3>2
    <2> DEFINE U == T \ {m}
               n == Cardinality(T)
    <2>3. PICK t \in SetToSeqs(U) : Descending(t)
      BY <1>2
    <2>4. IsFiniteSet(U) /\ n \in Nat /\ Cardinality(U) = n - 1 /\ m \notin U
      BY <1>3, FS_CardinalityType, FS_RemoveElement, FS_Subset
    <2>5. /\ Cardinality(U) \in Nat /\ DOMAIN t = 1..(n - 1)
          /\ \A i \in 1..(n - 1) : t[i] \in U
          /\ \A i, j \in 1..(n - 1) : t[i] = t[j] => i = j
      <3> HIDE DEF U
      <3> QED
        BY <2>4, ElementsOfSeqs
    <2> DEFINE s == [i \in 1..n |-> IF i = n THEN m ELSE t[i]]
    <2>6. \A i \in 1..n : i # n => i \in 1..(n - 1)
      BY <2>4
    <2>7. s \in [1..n -> T] /\ \A i, j \in 1..n : i # j => s[i] # s[j]
      BY <2>4, <2>5, <2>6
    <2>8. s \in SetToSeqs(T)
      BY <2>7 DEF SetToSeqs
    <2>9. ASSUME NEW i \in 1..n, NEW j \in 1..n, i < j PROVE num[s[i]] > num[s[j]]
      <3>1. i \in 1..(n - 1) /\ s[i] = t[i] /\ t[i] \in U
        BY <2>4, <2>5, <2>9
      <3>2. CASE j = n
        BY <2>2, <3>1, <3>2
      <3>3. CASE j # n
        BY <2>3, <2>5, <2>6, <2>9, <3>1, <3>3 DEF Descending
      <3> QED
        BY <3>2, <3>3
    <2>10. Descending(s)
      BY <2>9 DEF Descending
    <2> HIDE DEF s
    <2> QED
      BY <1>2, <2>8, <2>10
  <1> QED
    BY <1>4, <1>5

\* ByNum has each version once, in descending order.
LEMMA ByNumSorts ==
  ASSUME NumsOK, NEW S \in SUBSET VersionIds
  PROVE  /\ IsFiniteSet(S) /\ Cardinality(S) \in Nat
         /\ ByNum(S) \in Seq(S) /\ Len(ByNum(S)) = Cardinality(S)
         /\ DOMAIN ByNum(S) = 1..Cardinality(S)
         /\ \A i \in 1..Cardinality(S) : ByNum(S)[i] \in S
         /\ \A x \in S : \E i \in 1..Cardinality(S) : ByNum(S)[i] = x
         /\ \A i, j \in 1..Cardinality(S) : i < j => num[ByNum(S)[i]] > num[ByNum(S)[j]]
  <1>1. IsFiniteSet(S)
    BY IdsAreNumbers, FS_Subset
  <1>2. ByNum(S) \in SetToSeqs(S) /\ Descending(ByNum(S))
    BY Sortable DEF ByNum, Descending
  <1> QED
    BY <1>1, <1>2, ElementsOfSeqs DEF Descending

-----------------------------------------------------------------------------
(* The default version of a crate.                                         *)

\* How high a version is: not yanked before yanked, no pre-release before pre-release.
Higher(v, w, live) ==
  \/ v \in live /\ w \notin live
  \/ (v \in live <=> w \in live) /\ ~pre[v] /\ pre[w]
  \/ (v \in live <=> w \in live) /\ pre[v] = pre[w] /\ num[v] > num[w]

\* Best is the highest version there is.
LEMMA BestIsHighest ==
  ASSUME NumsOK, pre \in [VersionIds -> BOOLEAN],
         NEW live \in SUBSET VersionIds, NEW yanked \in SUBSET VersionIds, live \cup yanked # {}
  PROVE  /\ Best(live, yanked) \in live \cup yanked
         /\ \A w \in (live \cup yanked) \ {Best(live, yanked)} : Higher(Best(live, yanked), w, live)
  <1> DEFINE S == live \cup yanked
             n == Cardinality(VersionIds)
             Score(v) == <<IF v \in live THEN 1 ELSE 0, IF pre[v] THEN 0 ELSE 1, num[v]>>
             Worse(a, b) == \E i \in 1..3 : a[i] < b[i] /\ \A j \in 1..(i - 1) : a[j] = b[j]
             Top(v) == \A w \in S \ {v} : Worse(Score(w), Score(v))
  <1>1. /\ IsFiniteSet(S) /\ \A v \in VersionIds : num[v] \in Nat /\ num[v] \in VersionIds
        /\ n \in Nat /\ VersionIds = 1..n
    BY IdsAreNumbers, CrateViewAssumption, FS_Subset, FS_CardinalityType
  <1>2. ASSUME NEW v \in S, NEW w \in S PROVE Worse(Score(w), Score(v)) <=> Higher(v, w, live)
    <2>1. num[v] \in Nat /\ num[w] \in Nat /\ pre[v] \in BOOLEAN /\ pre[w] \in BOOLEAN
      BY <1>1
    <2> DEFINE a == Score(w)
               b == Score(v)
    <2>2. /\ a[1] = (IF w \in live THEN 1 ELSE 0) /\ b[1] = (IF v \in live THEN 1 ELSE 0)
          /\ a[2] = (IF pre[w] THEN 0 ELSE 1) /\ b[2] = (IF pre[v] THEN 0 ELSE 1)
          /\ a[3] = num[w] /\ b[3] = num[v]
      OBVIOUS
    <2> HIDE DEF a, b, Score
    <2>3. Worse(a, b) <=> \/ a[1] < b[1]
                          \/ a[1] = b[1] /\ a[2] < b[2]
                          \/ a[1] = b[1] /\ a[2] = b[2] /\ a[3] < b[3]
      <3>1. 1..3 = {1, 2, 3} /\ 1..(1 - 1) = {} /\ 1..(2 - 1) = {1} /\ 1..(3 - 1) = {1, 2}
        OBVIOUS
      <3> QED
        BY <3>1
    <2>4. Worse(a, b) <=> Higher(v, w, live)
      <3> HIDE DEF Worse
      <3> QED
        BY <2>1, <2>2, <2>3 DEF Higher
    <2> QED
      BY <2>4 DEF a, b
  <1>3. \E v \in S : Top(v)
    <2> DEFINE f == [v \in S |-> num[v] + (IF pre[v] THEN 0 ELSE n + 1)
                                        + (IF v \in live THEN 2 * (n + 1) ELSE 0)]
    <2>1. \A v \in S : f[v] \in Int
      BY <1>1
    <2>2. PICK v \in S : \A w \in S : f[w] <= f[v]
      <3> HIDE DEF f
      <3> QED
        BY <1>1, <2>1, HighestOf
    <2>3. ASSUME NEW w \in S \ {v} PROVE Higher(v, w, live)
      <3>1. /\ num[v] \in 1..n /\ num[w] \in 1..n /\ num[v] # num[w] /\ num[v] \in Int /\ num[w] \in Int
            /\ pre[v] \in BOOLEAN /\ pre[w] \in BOOLEAN
        BY <1>1 DEF NumsOK
      <3>2. f[w] <= f[v]
        BY <2>2
      <3>3. /\ f[v] = num[v] + (IF pre[v] THEN 0 ELSE n + 1)
                             + (IF v \in live THEN 2 * (n + 1) ELSE 0)
            /\ f[w] = num[w] + (IF pre[w] THEN 0 ELSE n + 1)
                             + (IF w \in live THEN 2 * (n + 1) ELSE 0)
        OBVIOUS
      <3> HIDE DEF f, S
      <3> QED
        BY <1>1, <3>1, <3>2, <3>3 DEF Higher
    <2> HIDE DEF Worse, Score, f
    <2> QED
      BY <1>2, <2>3
  <1>4. Best(live, yanked) = CHOOSE v \in S : Top(v)
    BY DEF Best
  <1> DEFINE b == CHOOSE v \in S : Top(v)
  <1>5. b \in S /\ Top(b)
    <2> HIDE DEF Top
    <2> QED
      BY <1>3
  <1> HIDE DEF b
  <1>6. \A w \in S \ {b} : Higher(b, w, live)
    <2> HIDE DEF Worse, Score
    <2> QED
      BY <1>2, <1>5
  <1>7. Best(live, yanked) = b
    BY <1>4 DEF b
  <1> QED
    BY <1>5, <1>6, <1>7

-----------------------------------------------------------------------------
(* Release tracks: the fold of sorted versions.                            *)

\* Higher numbers are on the same track or a later one.
LEMMA TrackOrder ==
  ASSUME NumsOK, NEW v \in VersionIds, NEW w \in VersionIds
  PROVE  /\ TrackOf(v) \in Int /\ TrackOf(v) >= 1
         /\ num[v] <= num[w] => TrackOf(v) <= TrackOf(w)
  <1>1. num[v] \in Nat /\ num[v] >= 1 /\ num[w] \in Nat
    BY IdsAreNumbers
  <1> QED
    BY <1>1 DEF TrackOf

\* What the fold carries along, and its step
TrackMaps == SUBSET [track : Int, highest : VersionIds]
TrackAccs == [last : Int, map : TrackMaps]
NoTracks == [last |-> None, map |-> {}]
AddTrack(acc, v) ==
  IF pre[v] \/ acc.last = TrackOf(v) THEN acc
  ELSE [last |-> TrackOf(v),
        map |-> {e \in acc.map : e.track # TrackOf(v)}
                  \cup {[track |-> TrackOf(v), highest |-> v]}]

\* The versions that are highest on their track, among R
TopOnTrack(R) ==
  {w \in R : ~pre[w] /\ \A u \in R : ~pre[u] /\ TrackOf(u) = TrackOf(w) => num[u] <= num[w]}
TracksOf(R) == {[track |-> TrackOf(v), highest |-> v] : v \in TopOnTrack(R)}

\* acc is the fold of R: its tracks, and the track of its lowest release.
TracksUpTo(acc, R) ==
  /\ acc \in TrackAccs
  /\ acc.map = TracksOf(R)
  /\ \/ acc.last = None /\ \A w \in R : pre[w]
     \/ \E x \in R : ~pre[x] /\ acc.last = TrackOf(x) /\ \A u \in R : ~pre[u] => num[x] <= num[u]

\* Another version, below all others, opens a track unless the last one is its own.
LEMMA AddTrackStep ==
  ASSUME NumsOK, NEW R \in SUBSET VersionIds, NEW v \in VersionIds,
         \A u \in R : num[u] > num[v], NEW acc, TracksUpTo(acc, R)
  PROVE  TracksUpTo(AddTrack(acc, v), R \cup {v})
  <1> DEFINE Q == R \cup {v}
  <1>1. \A u \in VersionIds : num[u] \in Nat /\ TrackOf(u) \in Int /\ TrackOf(u) >= 1
    BY IdsAreNumbers, TrackOrder
  <1>2. v \notin R
    BY <1>1
  <1>3. CASE pre[v]
    <2>1. TopOnTrack(Q) = TopOnTrack(R)
      BY <1>3 DEF TopOnTrack
    <2> QED
      BY <1>3, <2>1 DEF TracksUpTo, TracksOf, AddTrack
  <1>4. CASE ~pre[v] /\ acc.last = TrackOf(v)
    <2>1. PICK x \in R : /\ ~pre[x] /\ TrackOf(x) = TrackOf(v)
                         /\ \A u \in R : ~pre[u] => num[x] <= num[u]
      BY <1>1, <1>4 DEF TracksUpTo, None
    <2>2. TopOnTrack(Q) = TopOnTrack(R)
      <3>1. v \notin TopOnTrack(Q)
        BY <1>1, <2>1 DEF TopOnTrack
      <3>2. \A w \in R : num[v] <= num[w]
        BY <1>1
      <3> QED
        BY <3>1, <3>2 DEF TopOnTrack
    <2>3. \A u \in Q : ~pre[u] => num[v] <= num[u]
      BY <1>1
    <2> QED
      BY <1>4, <2>2, <2>3 DEF TracksUpTo, TracksOf, AddTrack
  <1>5. CASE ~pre[v] /\ acc.last # TrackOf(v)
    <2>1. ASSUME NEW u \in R, ~pre[u], TrackOf(u) = TrackOf(v) PROVE FALSE
      <3>1. PICK x \in R : /\ ~pre[x] /\ acc.last = TrackOf(x)
                           /\ \A w \in R : ~pre[w] => num[x] <= num[w]
        BY <2>1 DEF TracksUpTo
      <3>2. num[v] <= num[x] /\ num[x] <= num[u]
        BY <1>1, <2>1, <3>1
      <3>3. TrackOf(v) <= TrackOf(x) /\ TrackOf(x) <= TrackOf(u)
        BY <3>2, TrackOrder
      <3> QED
        BY <1>1, <1>5, <2>1, <3>1, <3>3
    <2>2. TopOnTrack(Q) = TopOnTrack(R) \cup {v}
      <3>1. v \in TopOnTrack(Q)
        BY <1>1, <1>5, <2>1 DEF TopOnTrack
      <3>2. \A w \in R : w \in TopOnTrack(Q) <=> w \in TopOnTrack(R)
        BY <1>1, <2>1 DEF TopOnTrack
      <3>3. TopOnTrack(Q) \subseteq Q /\ TopOnTrack(R) \subseteq R
        BY DEF TopOnTrack
      <3> QED
        BY <3>1, <3>2, <3>3
    <2>3. {e \in acc.map : e.track # TrackOf(v)} = acc.map
      <3>1. ASSUME NEW e \in acc.map PROVE e.track # TrackOf(v)
        <4>1. PICK u \in TopOnTrack(R) : e = [track |-> TrackOf(u), highest |-> u]
          BY <3>1 DEF TracksUpTo, TracksOf
        <4> QED
          BY <2>1, <4>1 DEF TopOnTrack
      <3> QED
        BY <3>1
    <2>4. AddTrack(acc, v) = [last |-> TrackOf(v),
                              map |-> acc.map \cup {[track |-> TrackOf(v), highest |-> v]}]
      BY <1>5, <2>3 DEF AddTrack
    <2>5. AddTrack(acc, v).map = TracksOf(Q)
      <3>1. TracksOf(Q) = TracksOf(R) \cup {[track |-> TrackOf(v), highest |-> v]}
        BY <2>2 DEF TracksOf
      <3>2. acc.map = TracksOf(R)
        BY DEF TracksUpTo
      <3> HIDE DEF Q
      <3> QED
        BY <2>4, <3>1, <3>2
    <2>6. AddTrack(acc, v) \in TrackAccs
      BY <1>1, <2>4 DEF TracksUpTo, TrackAccs, TrackMaps
    <2>7. \A u \in Q : ~pre[u] => num[v] <= num[u]
      BY <1>1
    <2> QED
      BY <1>5, <2>4, <2>5, <2>6, <2>7 DEF TracksUpTo
  <1> QED
    BY <1>3, <1>4, <1>5

\* ReleaseTracks of sorted versions has each track once, with its highest version.
LEMMA ReleaseTracksAre ==
  ASSUME NumsOK, NEW S \in SUBSET VersionIds
  PROVE  ReleaseTracks(ByNum(S)) = TracksOf(S)
  <1> DEFINE q == ByNum(S)
             N == DOMAIN q
             F == [p \in N \X TrackAccs |-> AddTrack(p[2], q[p[1]])]
             iter == CHOOSE g : g = [s \in SUBSET N |->
                       IF s = {} THEN NoTracks ELSE AddTrack(g[s \ {Max(s)}], q[Max(s)])]
             Seen(s) == {q[i] : i \in s}
  <1>1. /\ N = 1..Len(q) /\ \A i \in N : q[i] \in VersionIds /\ q[i] \in S
        /\ \A x \in S : \E i \in N : q[i] = x
        /\ \A i, j \in N : i < j => num[q[i]] > num[q[j]]
        /\ q \in Seq(VersionIds)
    <2> DEFINE n == Cardinality(S)
    <2> HIDE DEF q, n
    <2>1. /\ q \in Seq(S) /\ Len(q) = n /\ N = 1..n
          /\ \A i \in 1..n : q[i] \in S
          /\ \A x \in S : \E i \in 1..n : q[i] = x
          /\ \A i, j \in 1..n : i < j => num[q[i]] > num[q[j]]
      BY ByNumSorts DEF q, n
    <2>2. q \in Seq(VersionIds)
      BY <2>1
    <2> QED
      BY <2>1, <2>2
  <1>2. Indices(N)
    <2> HIDE DEF q
    <2> QED
      BY <1>1, SequenceIndices
  <1>3. ReleaseTracks(q) = iter[N].map
    BY DEF ReleaseTracks, FoldLeft, MapThenFoldSet, AddTrack, NoTracks
  <1>4. \A a \in TrackAccs, v \in VersionIds : AddTrack(a, v) \in TrackAccs
    BY TrackOrder DEF AddTrack, TrackAccs, TrackMaps
  <1>5. NoTracks \in TrackAccs
    BY DEF NoTracks, TrackAccs, TrackMaps, None
  <1> HIDE DEF q, N
  <1>6. PICK h : Runs(h, F, NoTracks, N)
    <2> HIDE DEF F
    <2> QED
      BY <1>2, RunsExists
  <1>7. ASSUME NEW s \in SUBSET N, s # {}, h[s \ {Max(s)}] \in TrackAccs
        PROVE  h[s] = AddTrack(h[s \ {Max(s)}], q[Max(s)]) /\ h[s] \in TrackAccs
    <2>1. Max(s) \in N
      BY <1>2, <1>7 DEF Indices
    <2>2. h[s] = F[<<Max(s), h[s \ {Max(s)}]>>]
      BY <1>6, <1>7 DEF Runs
    <2> QED
      BY <1>1, <1>4, <1>7, <2>1, <2>2
  <1>8. \A s \in SUBSET N : h[s] \in TrackAccs
    <2>1. h[{}] \in TrackAccs
      BY <1>5, <1>6 DEF Runs
    <2> QED
      BY <1>2, <1>7, <2>1, FoldTyped
  <1>9. h = [s \in SUBSET N |-> IF s = {} THEN NoTracks ELSE AddTrack(h[s \ {Max(s)}], q[Max(s)])]
    <2>1. ASSUME NEW s \in SUBSET N
          PROVE  h[s] = IF s = {} THEN NoTracks ELSE AddTrack(h[s \ {Max(s)}], q[Max(s)])
      BY <1>6, <1>7, <1>8 DEF Runs
    <2>2. DOMAIN h = SUBSET N /\ h = [s \in DOMAIN h |-> h[s]]
      BY <1>6 DEF Runs
    <2> QED
      BY <2>1, <2>2
  <1>10. iter = [s \in SUBSET N |->
                   IF s = {} THEN NoTracks ELSE AddTrack(iter[s \ {Max(s)}], q[Max(s)])]
    BY <1>9
  <1> HIDE DEF iter, F
  <1> DEFINE C == {s \in SUBSET N : ~TracksUpTo(iter[s], Seen(s))}
  <1>11. C = {}
    <2>1. SUFFICES ASSUME C # {} PROVE FALSE
      OBVIOUS
    <2>2. PICK s \in C : \A t \in C : t \subseteq s => t = s
      <3>1. C \in SUBSET SUBSET N
        OBVIOUS
      <3>2. IsFiniteSet(N)
        BY <1>2 DEF Indices
      <3> HIDE DEF C
      <3> QED
        BY <2>1, <3>1, <3>2, SmallestSubset
    <2>3. s \in SUBSET N /\ ~TracksUpTo(iter[s], Seen(s))
      BY <2>2
    <2>4. CASE s = {}
      <3>1. iter[s] = NoTracks /\ Seen(s) = {}
        BY <1>10, <2>4
      <3>2. TracksUpTo(NoTracks, {})
        BY <1>5 DEF TracksUpTo, TracksOf, TopOnTrack, NoTracks
      <3> QED
        BY <2>3, <3>1, <3>2
    <2>5. CASE s # {}
      <3> DEFINE m == Max(s)
                 r == s \ {m}
      <3>1. m \in s /\ m \in N /\ r \in SUBSET N /\ r # s
        BY <1>2, <2>3, <2>5 DEF Indices
      <3>2. \A i \in r : i < m
        <4>1. PICK k : k = Len(q)
          OBVIOUS
        <4>2. k \in Nat /\ N = 1..k
          BY <1>1, <4>1
        <4>3. \A i \in s : i <= m
          BY <2>3, <2>5, <4>2, MaxIn
        <4>4. \A i \in s : i \in Int
          BY <2>3, <4>2
        <4> HIDE DEF m
        <4> QED
          BY <3>1, <4>3, <4>4
      <3>3. iter[s] = AddTrack(iter[r], q[m])
        BY <1>10, <2>3, <2>5
      <3> HIDE DEF m
      <3>4. TracksUpTo(iter[r], Seen(r))
        BY <2>2, <3>1
      <3>5. Seen(s) = Seen(r) \cup {q[m]}
        BY <3>1
      <3>6. \A u \in Seen(r) : num[u] > num[q[m]]
        BY <1>1, <3>1, <3>2
      <3>7. Seen(r) \in SUBSET VersionIds /\ q[m] \in VersionIds
        BY <1>1, <3>1
      <3> HIDE DEF Seen, r
      <3>8. TracksUpTo(AddTrack(iter[r], q[m]), Seen(r) \cup {q[m]})
        BY <3>4, <3>6, <3>7, AddTrackStep
      <3> QED
        BY <2>3, <3>3, <3>5, <3>8
    <2> QED
      BY <2>4, <2>5
  <1>12. Seen(N) = S
    BY <1>1
  <1>13. TracksUpTo(iter[N], Seen(N))
    BY <1>11
  <1> QED
    BY <1>3, <1>12, <1>13 DEF TracksUpTo, q

-----------------------------------------------------------------------------
(* What a request has read (CrateView).                                    *)

\* The types of the state
Includes == {"versions", "default_version", "downloads", "pages"}
Views ==
  [pc : {"idle", "start", "crate", "versions", "loaded", "split", "latest", "tracks", "done"},
   kind : {"none", "find", "versions", "summary", "downloads"}, include : SUBSET Includes,
   writes : Nat, settled : BOOLEAN, default : VersionIds \cup {None}, yanked : BOOLEAN,
   count : Nat, total : Nat, recent : Nat, listed : SUBSET VersionIds,
   live : SUBSET VersionIds, shown : SUBSET VersionIds, latest : SUBSET VersionIds,
   extra : Int, tracks : SUBSET [track : Int, highest : VersionIds],
   top : Seq([highest : SUBSET VersionIds, newest : SUBSET VersionIds,
              stable : SUBSET VersionIds])]

\* The database: a version is live or yanked, and one that there is is the default.
Databases ==
  {t \in [live : SUBSET VersionIds, yanked : SUBSET VersionIds, default : VersionIds,
          total : Nat, recent : Nat, downloads : [VersionIds -> Nat]] :
     t.live \cap t.yanked = {} /\ t.default \in t.live \cup t.yanked}

ViewTypes ==
  /\ num \in [VersionIds -> VersionIds]
  /\ \A v, w \in VersionIds : num[v] = num[w] => v = w
  /\ pre \in [VersionIds -> BOOLEAN]
  /\ current \in Databases
  /\ writes \in Nat
  /\ view \in Views

\* Nothing was written since the request began; the default version is up to date.
Same == view.writes = writes
Settled == current.default = Best(current.live, current.yanked)
OfCrate == view.kind \in {"find", "summary"}

\* A request takes its steps in the order of its kind, and the writes it has seen are past.
\* What was true of the default version when it began still is if nothing was written.
AskInd ==
  /\ view.pc # "idle" => view.writes <= writes
  /\ view.pc \in {"crate", "loaded"} => OfCrate
  /\ view.pc = "versions" => view.kind = "find"
  /\ view.pc \in {"split", "latest"} => view.kind = "downloads"
  /\ view.pc = "tracks" => view.kind = "versions"
  /\ view.kind = "summary" => view.include = {}
  /\ view.pc # "idle" /\ Same => (view.settled <=> Settled)

\* What a request has read of the crate and its versions is what they are, if nothing was
\* written meanwhile.
FoundInd ==
  Same =>
    /\ OfCrate /\ view.pc \in {"crate", "versions", "loaded", "done"} =>
         /\ view.default = current.default /\ (view.yanked <=> current.default \in current.yanked)
         /\ view.count = Cardinality(Present)
    /\ view.kind = "find" /\ view.pc \in {"versions", "loaded", "done"} =>
         /\ "versions" \in view.include => view.listed = Present /\ view.live = current.live
         /\ view.include \cap {"versions", "default_version"} = {"default_version"} =>
              view.listed = {view.default} \cap Present
    /\ view.kind = "summary" /\ view.pc \in {"loaded", "done"} => view.live = current.live

\* The response
DoneInd ==
  /\ view.pc = "done" /\ OfCrate => view.total >= view.recent
  /\ view.top # <<>> =>
       /\ view.pc = "done" /\ OfCrate
       /\ view.top[1] = TopVersions(view.live)
       /\ view.kind = "find" => "versions" \in view.include
  /\ TracksSound

\* Two parts of the versions that were read, the shown ones above the others; the sum is of
\* some of the others, and of all if nothing was written.
SplitInd ==
  /\ view.shown \subseteq view.latest
  /\ view.pc \notin {"latest", "done"} => view.shown = {}
  /\ view.kind = "downloads" /\ view.pc \in {"split", "latest", "done"} =>
       /\ view.latest \subseteq view.listed
       /\ \A v \in view.latest, w \in view.listed \ view.latest : num[v] > num[w]
       /\ Same => view.listed = Present
       /\ view.pc \in {"latest", "done"} /\ Same => view.shown = view.latest
       /\ view.pc = "done" =>
            \E D \in SUBSET (view.listed \ view.latest) :
              view.extra = SumDownloads(D) /\ (Same => D = view.listed \ view.latest)

ViewInd == ViewTypes /\ AskInd /\ FoundInd /\ DoneInd /\ SplitInd

\* The crate begins with one version, and no request.
LEMMA InitView == ViewInit => ViewInd
  <1> SUFFICES ASSUME ViewInit PROVE ViewInd
    OBVIOUS
  <1>1. NumsOK
    BY DEF ViewInit, NumsOK, IsInjective
  <1>2. 1 \in VersionIds /\ \A v \in VersionIds : v \in Nat
    <2>1. PICK n : n = Cardinality(VersionIds)
      OBVIOUS
    <2>2. n \in Nat /\ VersionIds = 1..n /\ VersionIds # {}
      BY <2>1, CrateViewAssumption, FS_CardinalityType
    <2> QED
      BY <2>2
  <1>3. view \in Views
    <2>1. NoView \in Views
      BY DEF NoView, Views, Includes, None
    <2> QED
      BY <2>1 DEF ViewInit
  <1>4. current \in Databases
    <2>1. PICK recent \in {None, 3} :
            current = [live |-> {1}, yanked |-> {}, default |-> 1, total |-> 2,
                       recent |-> recent, downloads |-> [v \in VersionIds |-> v]]
      BY DEF ViewInit
    <2>2. [v \in VersionIds |-> v] \in [VersionIds -> Nat]
      BY <1>2
    <2> QED
      BY <1>2, <2>1, <2>2 DEF Databases, None
  <1>5. ViewTypes
    BY <1>1, <1>3, <1>4 DEF ViewInit, ViewTypes, NumsOK
  <1>6. /\ view.pc = "idle" /\ view.kind = "none" /\ view.top = <<>>
        /\ view.shown = {} /\ view.latest = {}
    BY DEF ViewInit, NoView
  <1>7. AskInd /\ FoundInd /\ DoneInd /\ SplitInd
    BY <1>6 DEF AskInd, FoundInd, DoneInd, SplitInd, OfCrate, TracksSound
  <1> QED
    BY <1>5, <1>7 DEF ViewInd

\* What depends on the database alone stays while a request takes a step.
LEMMA StepKeeps ==
  ASSUME UNCHANGED <<num, pre, current, writes>>
  PROVE  /\ Settled' <=> Settled
         /\ Present' = Present
         /\ \A S : SumDownloads(S)' = SumDownloads(S)
  BY DEF Settled, Best, Present, SumDownloads, MapThenSumSet, MapThenFoldSet

\* The downloads of versions are summed up like those of rows.
LEMMA SumOfDownloads ==
  \A D : /\ SumDownloads(D) = SumOf(current.downloads, D)
         /\ SumDownloads(D)' = SumOf(current'.downloads, D)
  <1> TAKE D
  <1>1. SumDownloads(D) = SumOf(current.downloads, D)
    BY DEF SumDownloads, SumOf, MapThenSumSet, MapThenFoldSet
  <1>2. SumDownloads(D)' = SumOf(current'.downloads, D)
    BY DEF SumDownloads, SumOf, MapThenSumSet, MapThenFoldSet
  <1> QED
    BY <1>1, <1>2

\* A change of the database makes all requests under way unequal to it, and changes nothing
\* that they have read.
LEMMA WritePreserves ==
  ASSUME ViewInd, NEW t \in Databases, Write(t), t.downloads = current.downloads
  PROVE  ViewInd'
  <1>1. /\ current' = t /\ writes' = writes + 1 /\ UNCHANGED <<num, pre, view>>
        /\ writes \in Nat /\ view.writes \in Nat
    BY DEF Write, ViewInd, ViewTypes, Views
  <1>2. ViewTypes'
    BY <1>1 DEF ViewInd, ViewTypes
  <1>3. view.pc # "idle" => ~Same'
    BY <1>1 DEF ViewInd, AskInd, Same
  <1>4. AskInd'
    BY <1>1, <1>3 DEF ViewInd, AskInd, OfCrate
  <1>5. FoundInd'
    BY <1>1, <1>3 DEF FoundInd
  <1>6. DoneInd'
    BY <1>1 DEF ViewInd, DoneInd, OfCrate, TopVersions, TracksSound, TrackOf
  <1>7. SplitInd'
    <2>1. \A D : SumDownloads(D)' = SumDownloads(D)
      <3>1. current'.downloads = current.downloads
        BY <1>1
      <3> QED
        BY <3>1, SumOfDownloads
    <2> QED
      BY <1>1, <1>3, <2>1 DEF ViewInd, SplitInd
  <1> QED
    BY <1>2, <1>4, <1>5, <1>6, <1>7 DEF ViewInd

\* Each change of the database leaves a version as the default.
LEMMA WritesPreserve ==
  ASSUME ViewInd,
         \/ \E v \in VersionIds : PublishVersion(v) \/ YankVersion(v) \/ RemoveVersion(v)
         \/ UpdateDefaultVersion
  PROVE  ViewInd'
  <1>1. /\ current \in Databases /\ NumsOK /\ pre \in [VersionIds -> BOOLEAN]
        /\ \A v \in VersionIds : v \in Nat
    BY IdsAreNumbers DEF ViewInd, ViewTypes, NumsOK
  <1>2. ASSUME NEW v \in VersionIds, PublishVersion(v) PROVE ViewInd'
    <2> DEFINE t == [current EXCEPT !.live = @ \cup {v}]
    <2>1. v \notin current.yanked
      BY <1>1, <1>2 DEF PublishVersion, Present
    <2>2. t \in Databases /\ t.downloads = current.downloads
      BY <1>1, <2>1 DEF Databases
    <2>3. Write(t)
      BY <1>2 DEF PublishVersion
    <2> HIDE DEF t
    <2> QED
      BY <2>2, <2>3, WritePreserves
  <1>3. ASSUME NEW v \in VersionIds, YankVersion(v) PROVE ViewInd'
    <2> DEFINE t == [current EXCEPT !.live = @ \ {v}, !.yanked = @ \cup {v}]
    <2>1. t \in Databases /\ t.downloads = current.downloads
      BY <1>1, <1>3 DEF Databases, YankVersion
    <2>2. Write(t)
      BY <1>3 DEF YankVersion
    <2> HIDE DEF t
    <2> QED
      BY <2>1, <2>2, WritePreserves
  <1>4. ASSUME NEW v \in VersionIds, RemoveVersion(v) PROVE ViewInd'
    <2> DEFINE live == current.live \ {v}
               yanked == current.yanked \ {v}
               b == Best(live, yanked)
               t == [current EXCEPT !.live = @ \ {v}, !.yanked = @ \ {v},
                                    !.default = Best(current.live \ {v}, current.yanked \ {v})]
    <2>1. /\ live \in SUBSET VersionIds /\ yanked \in SUBSET VersionIds /\ live \cup yanked # {}
          /\ live \cap yanked = {}
      BY <1>1, <1>4 DEF RemoveVersion, Present, Databases
    <2>2. b \in live \cup yanked
      BY <1>1, <2>1, BestIsHighest
    <2>3. t \in Databases /\ t.downloads = current.downloads
      <3> HIDE DEF b
      <3>1. t = [current EXCEPT !.live = live, !.yanked = yanked, !.default = b]
        BY <1>1 DEF b, Databases
      <3> HIDE DEF live, yanked, t
      <3> QED
        BY <1>1, <2>1, <2>2, <3>1 DEF Databases
    <2>4. Write(t)
      BY <1>4 DEF RemoveVersion
    <2> HIDE DEF t
    <2> QED
      BY <2>3, <2>4, WritePreserves
  <1>5. ASSUME UpdateDefaultVersion PROVE ViewInd'
    <2> DEFINE b == Best(current.live, current.yanked)
               t == [current EXCEPT !.default = Best(current.live, current.yanked)]
    <2>1. b \in current.live \cup current.yanked
      BY <1>1, BestIsHighest DEF Databases
    <2>2. t \in Databases /\ t.downloads = current.downloads
      <3> HIDE DEF b
      <3>1. t = [current EXCEPT !.default = b]
        BY DEF b
      <3> HIDE DEF t
      <3> QED
        BY <1>1, <2>1, <3>1 DEF Databases
    <2>3. Write(t)
      BY <1>5 DEF UpdateDefaultVersion
    <2> HIDE DEF t
    <2> QED
      BY <2>2, <2>3, WritePreserves
  <1> QED
    BY <1>2, <1>3, <1>4, <1>5

\* A step of a request changes what it has read, and nothing else.
ReadStep == UNCHANGED <<num, pre, current, writes>> /\ view' \in Views
Fields == {"pc", "kind", "include", "writes", "settled", "default", "yanked", "count", "total",
           "recent", "listed", "live", "shown", "latest", "extra", "tracks", "top"}
Keeps(changing) == \A f \in Fields \ changing : view'[f] = view[f]

\* Such a step leaves the database and its types as they are.
LEMMA ReadTypes ==
  ASSUME ViewInd, ReadStep
  PROVE  ViewTypes' /\ (Same' <=> view'.writes = writes)
  BY DEF ViewInd, ViewTypes, ReadStep, Same

\* A request begins.
LEMMA AskPreserves ==
  ASSUME ViewInd, NEW kind \in {"find", "versions", "summary", "downloads"},
         NEW include \in SUBSET Includes, kind = "summary" => include = {}, Ask(kind, include)
  PROVE  ViewInd'
  <1>1. /\ view' = [NoView EXCEPT !.pc = "start", !.kind = kind, !.include = include,
                                  !.writes = writes, !.settled = Settled]
        /\ UNCHANGED <<num, pre, current, writes>> /\ writes \in Nat
    BY DEF Ask, Settled, ViewInd, ViewTypes
  <1>2. Settled \in BOOLEAN
    BY DEF Settled
  <1>3. view' \in Views
    <2>1. NoView \in Views
      BY DEF NoView, Views, None
    <2> DEFINE v == NoView
               b == Settled
    <2>2. v \in Views /\ b \in BOOLEAN
      BY <1>2, <2>1
    <2> HIDE DEF v, b
    <2>3. [v EXCEPT !.pc = "start", !.kind = kind, !.include = include, !.writes = writes,
                    !.settled = b] \in Views
      BY <1>1, <2>2 DEF Views
    <2> QED
      BY <1>1, <2>3 DEF v, b
  <1>4. /\ view'.pc = "start" /\ view'.kind = kind /\ view'.writes = writes
        /\ view'.include = include
        /\ view'.settled = Settled /\ view'.top = <<>> /\ view'.shown = {} /\ view'.latest = {}
    BY <1>1 DEF NoView
  <1>5. Settled' <=> Settled
    BY <1>1, StepKeeps
  <1>6. ViewTypes'
    BY <1>1, <1>3, ReadTypes DEF ReadStep
  <1>7. AskInd' /\ FoundInd' /\ DoneInd' /\ SplitInd'
    BY <1>1, <1>4, <1>5 DEF AskInd, FoundInd, DoneInd, SplitInd, TracksSound
  <1> QED
    BY <1>6, <1>7 DEF ViewInd

\* find_crate
LEMMA FindCratePreserves ==
  ASSUME ViewInd, FindCrate
  PROVE  ViewInd'
  <1>1. view \in Views /\ current \in Databases /\ UNCHANGED <<num, pre, current, writes>>
    BY DEF ViewInd, ViewTypes, FindCrate, Step
  <1>2. Cardinality(Present) \in Nat
    BY <1>1, CrateViewAssumption, FS_Subset, FS_CardinalityType DEF Present, Databases
  <1>3. /\ view' \in Views
        /\ view.pc = "start" /\ OfCrate /\ view'.pc = "crate"
        /\ view'.default = current.default /\ view'.yanked = (current.default \in current.yanked)
        /\ view'.count = Cardinality(Present)
        /\ Keeps({"pc", "default", "yanked", "count", "total", "recent"})
    <2> DEFINE d == current.default
               y == current.default \in current.yanked
               n == Cardinality(Present)
               t == current.total
               r == IF view.kind = "summary" THEN current.recent ELSE None
    <2>1. d \in VersionIds /\ y \in BOOLEAN /\ n \in Nat /\ t \in Nat /\ r \in Nat
      BY <1>1, <1>2 DEF Databases, None
    <2>2. /\ view' = [view EXCEPT !.pc = "crate", !.default = d, !.yanked = y, !.count = n,
                                  !.total = t, !.recent = r]
          /\ view.pc = "start" /\ OfCrate
      BY DEF FindCrate, Step, OfCrate
    <2> HIDE DEF d, y, n, t, r
    <2>3. view' \in Views /\ Keeps({"pc", "default", "yanked", "count", "total", "recent"})
      BY <1>1, <2>1, <2>2 DEF Views, Keeps, Fields
    <2>4. view'.pc = "crate" /\ view'.default = d /\ view'.yanked = y /\ view'.count = n
      BY <1>1, <2>2 DEF Views
    <2> QED
      BY <2>2, <2>3, <2>4 DEF d, y, n
  <1>4. /\ view'.kind = view.kind /\ view'.writes = view.writes /\ view'.settled = view.settled
        /\ view'.top = view.top /\ view'.shown = view.shown /\ view'.latest = view.latest
        /\ view'.include = view.include
    BY <1>3 DEF Keeps, Fields
  <1>5. ViewTypes' /\ (Settled' <=> Settled) /\ Present' = Present
    BY <1>1, <1>3, ReadTypes, StepKeeps DEF ReadStep
  <1>6. AskInd'
    BY <1>1, <1>3, <1>4, <1>5 DEF ViewInd, AskInd, OfCrate, Same
  <1>7. FoundInd'
    BY <1>1, <1>3, <1>4, <1>5 DEF FoundInd, OfCrate
  <1>8. DoneInd' /\ SplitInd'
    BY <1>3, <1>4 DEF ViewInd, DoneInd, SplitInd, TracksSound, OfCrate
  <1> QED
    BY <1>5, <1>6, <1>7, <1>8 DEF ViewInd

\* load_versions_and_publishers, or only the default version
LEMMA LoadVersionsPreserves ==
  ASSUME ViewInd, LoadVersions \/ LoadDefaultVersion
  PROVE  ViewInd'
  <1>1. view \in Views /\ current \in Databases /\ UNCHANGED <<num, pre, current, writes>>
    BY DEF ViewInd, ViewTypes, LoadVersions, LoadDefaultVersion, Step
  <1>2. Present \in SUBSET VersionIds /\ current.live \in SUBSET VersionIds
    BY <1>1 DEF Present, Databases
  <1>3. /\ view' \in Views
        /\ view.pc = "crate" /\ view.kind = "find" /\ view'.pc = "versions"
        /\ "versions" \in view.include => view'.listed = Present /\ view'.live = current.live
        /\ view.include \cap {"versions", "default_version"} = {"default_version"} =>
             view'.listed = {view.default} \cap Present
        /\ Keeps({"pc", "listed", "live"})
    <2>1. CASE LoadVersions
      <3> DEFINE p == Present
                 l == current.live
      <3>1. /\ view' = [view EXCEPT !.pc = "versions", !.listed = p, !.live = l]
            /\ view.pc = "crate" /\ view.kind = "find" /\ "versions" \in view.include
        BY <2>1 DEF LoadVersions, Step
      <3>2. p \in SUBSET VersionIds /\ l \in SUBSET VersionIds
        BY <1>2
      <3> HIDE DEF p, l
      <3>3. view' \in Views /\ Keeps({"pc", "listed", "live"})
        BY <1>1, <3>1, <3>2 DEF Views, Keeps, Fields
      <3>4. view'.pc = "versions" /\ view'.listed = p /\ view'.live = l
        BY <1>1, <3>1 DEF Views
      <3> QED
        BY <3>1, <3>3, <3>4 DEF p, l
    <2>2. CASE LoadDefaultVersion
      <3> DEFINE p == IF "default_version" \in view.include THEN {view.default} \cap Present
                      ELSE {}
      <3>1. /\ view' = [view EXCEPT !.pc = "versions", !.listed = p]
            /\ view.pc = "crate" /\ view.kind = "find" /\ "versions" \notin view.include
        BY <2>2 DEF LoadDefaultVersion, Step
      <3>2. p \in SUBSET VersionIds
        BY <1>2
      <3>3. "default_version" \in view.include => p = {view.default} \cap Present
        OBVIOUS
      <3> HIDE DEF p
      <3>4. view' \in Views /\ Keeps({"pc", "listed", "live"})
        BY <1>1, <3>1, <3>2 DEF Views, Keeps, Fields
      <3>5. view'.pc = "versions" /\ view'.listed = p
        BY <1>1, <3>1 DEF Views
      <3> QED
        BY <3>1, <3>3, <3>4, <3>5
    <2> QED
      BY <2>1, <2>2
  <1>4. /\ view'.kind = view.kind /\ view'.writes = view.writes /\ view'.settled = view.settled
        /\ view'.include = view.include /\ view'.default = view.default
        /\ view'.yanked = view.yanked /\ view'.count = view.count
        /\ view'.top = view.top /\ view'.shown = view.shown /\ view'.latest = view.latest
    BY <1>3 DEF Keeps, Fields
  <1>5. ViewTypes' /\ (Settled' <=> Settled) /\ Present' = Present
    BY <1>1, <1>3, ReadTypes, StepKeeps DEF ReadStep
  <1>6. AskInd'
    BY <1>1, <1>3, <1>4, <1>5 DEF ViewInd, AskInd, OfCrate, Same
  <1>7. FoundInd'
    BY <1>1, <1>3, <1>4, <1>5 DEF ViewInd, FoundInd, OfCrate, Same
  <1>8. DoneInd' /\ SplitInd'
    BY <1>3, <1>4 DEF ViewInd, DoneInd, SplitInd, TracksSound, OfCrate
  <1> QED
    BY <1>5, <1>6, <1>7, <1>8 DEF ViewInd

\* The recent downloads, or the versions of encode_crates
LEMMA LoadedPreserves ==
  ASSUME ViewInd, LoadRecentDownloads \/ EncodeCrates
  PROVE  ViewInd'
  <1>1. view \in Views /\ current \in Databases /\ UNCHANGED <<num, pre, current, writes>>
    BY DEF ViewInd, ViewTypes, LoadRecentDownloads, EncodeCrates, Step
  <1>2. current.live \in SUBSET VersionIds /\ current.recent \in Nat
    BY <1>1 DEF Databases
  <1>3. /\ view' \in Views
        /\ view'.pc = "loaded"
        /\ \/ view.kind = "find" /\ view.pc = "versions" /\ view'.live = view.live
           \/ view.kind = "summary" /\ view.pc = "crate" /\ view'.live = current.live
        /\ Keeps({"pc", "recent", "live"})
    <2>1. CASE LoadRecentDownloads
      <3> DEFINE r == IF "downloads" \in view.include THEN current.recent ELSE None
      <3>1. /\ view' = [view EXCEPT !.pc = "loaded", !.recent = r]
            /\ view.pc = "versions" /\ view.kind = "find"
        BY <2>1 DEF LoadRecentDownloads, Step
      <3>2. r \in Nat
        BY <1>2 DEF None
      <3> HIDE DEF r
      <3>3. view' \in Views /\ Keeps({"pc", "recent", "live"})
        BY <1>1, <3>1, <3>2 DEF Views, Keeps, Fields
      <3>4. view'.pc = "loaded" /\ view'.live = view.live
        BY <1>1, <3>1 DEF Views
      <3> QED
        BY <3>1, <3>3, <3>4
    <2>2. CASE EncodeCrates
      <3> DEFINE l == current.live
      <3>1. /\ view' = [view EXCEPT !.pc = "loaded", !.live = l]
            /\ view.pc = "crate" /\ view.kind = "summary"
        BY <2>2 DEF EncodeCrates, Step
      <3>2. l \in SUBSET VersionIds
        BY <1>2
      <3> HIDE DEF l
      <3>3. view' \in Views /\ Keeps({"pc", "recent", "live"})
        BY <1>1, <3>1, <3>2 DEF Views, Keeps, Fields
      <3>4. view'.pc = "loaded" /\ view'.live = l
        BY <1>1, <3>1 DEF Views
      <3> QED
        BY <3>1, <3>3, <3>4 DEF l
    <2> QED
      BY <2>1, <2>2
  <1>4. /\ view'.kind = view.kind /\ view'.writes = view.writes /\ view'.settled = view.settled
        /\ view'.include = view.include /\ view'.default = view.default
        /\ view'.yanked = view.yanked /\ view'.count = view.count /\ view'.listed = view.listed
        /\ view'.top = view.top /\ view'.shown = view.shown /\ view'.latest = view.latest
    BY <1>3 DEF Keeps, Fields
  <1>5. ViewTypes' /\ (Settled' <=> Settled) /\ Present' = Present
    BY <1>1, <1>3, ReadTypes, StepKeeps DEF ReadStep
  <1>6. AskInd'
    BY <1>1, <1>3, <1>4, <1>5 DEF ViewInd, AskInd, OfCrate, Same
  <1>7. FoundInd'
    BY <1>1, <1>3, <1>4, <1>5 DEF ViewInd, FoundInd, OfCrate, Same
  <1>8. DoneInd' /\ SplitInd'
    BY <1>3, <1>4 DEF ViewInd, DoneInd, SplitInd, TracksSound, OfCrate
  <1> QED
    BY <1>5, <1>6, <1>7, <1>8 DEF ViewInd

\* TopVersions depends on the versions that were read.
LEMMA TopsKept ==
  ASSUME UNCHANGED <<num, pre>>, view'.live = view.live
  PROVE  TopVersions(view.live)' = TopVersions(view.live)
  <1>1. TopVersions(view.live)' = TopVersions(view'.live)
    BY DEF TopVersions
  <1> QED
    BY <1>1

\* EncodableCrate::from
LEMMA EncodableCratePreserves ==
  ASSUME ViewInd, EncodableCrate
  PROVE  ViewInd'
  <1>1. view \in Views /\ current \in Databases /\ UNCHANGED <<num, pre, current, writes>>
    BY DEF ViewInd, ViewTypes, EncodableCrate, Step
  <1>2. TopVersions(view.live) \in [highest : SUBSET VersionIds, newest : SUBSET VersionIds,
                                    stable : SUBSET VersionIds]
    <2>1. view.live \in SUBSET VersionIds
      BY <1>1 DEF Views
    <2> QED
      BY <2>1 DEF TopVersions
  <1> DEFINE T == TopVersions(view.live)
             top == IF view.kind = "summary" \/ "versions" \in view.include THEN <<T>> ELSE <<>>
             total == ShownDownloads(view.total, view.recent)
  <1>3. total \in Nat /\ total >= view.recent
    <2>1. view.total \in Nat /\ view.recent \in Nat
      BY <1>1 DEF Views
    <2> QED
      BY <2>1 DEF ShownDownloads, None
  <1>4. /\ view' = [view EXCEPT !.pc = "done", !.total = total, !.top = top]
        /\ view.pc = "loaded" /\ OfCrate
    BY DEF EncodableCrate, Step, ViewInd, AskInd
  <1>5. /\ top \in Seq([highest : SUBSET VersionIds, newest : SUBSET VersionIds,
                        stable : SUBSET VersionIds])
        /\ top # <<>> => top[1] = T
        /\ top # <<>> => (view.kind = "summary" \/ "versions" \in view.include)
    <2> DEFINE R == [highest : SUBSET VersionIds, newest : SUBSET VersionIds,
                     stable : SUBSET VersionIds]
    <2>1. T \in R
      BY <1>2
    <2> HIDE DEF T, R
    <2>2. top \in Seq(R)
      BY <2>1
    <2>3. top # <<>> => top[1] = T
      OBVIOUS
    <2>4. top # <<>> => (view.kind = "summary" \/ "versions" \in view.include)
      OBVIOUS
    <2> QED
      BY <2>2, <2>3, <2>4 DEF R
  <1> HIDE DEF T, top, total
  <1>6. view' \in Views /\ Keeps({"pc", "total", "top"})
    BY <1>1, <1>3, <1>4, <1>5 DEF Views, Keeps, Fields
  <1>7. view'.pc = "done" /\ view'.total = total /\ view'.top = top
    BY <1>1, <1>4 DEF Views
  <1>8. /\ view'.kind = view.kind /\ view'.writes = view.writes /\ view'.settled = view.settled
        /\ view'.include = view.include /\ view'.default = view.default
        /\ view'.yanked = view.yanked /\ view'.count = view.count /\ view'.listed = view.listed
        /\ view'.live = view.live /\ view'.recent = view.recent
        /\ view'.shown = view.shown /\ view'.latest = view.latest
    BY <1>6 DEF Keeps, Fields
  <1>9. ViewTypes' /\ (Settled' <=> Settled) /\ Present' = Present
    BY <1>1, <1>6, ReadTypes, StepKeeps DEF ReadStep
  <1>10. AskInd'
    BY <1>1, <1>4, <1>7, <1>8, <1>9 DEF ViewInd, AskInd, OfCrate, Same
  <1>11. FoundInd'
    BY <1>1, <1>4, <1>7, <1>8, <1>9 DEF ViewInd, FoundInd, OfCrate, Same
  <1>12. DoneInd'
    <2>1. TopVersions(view.live)' = T
      BY <1>1, <1>8, TopsKept DEF T
    <2>2. view'.top # <<>> => view'.top[1] = TopVersions(view.live)'
      BY <1>5, <1>7, <2>1
    <2> QED
      BY <1>3, <1>4, <1>5, <1>7, <1>8, <2>2 DEF DoneInd, TracksSound, OfCrate
  <1>13. SplitInd'
    BY <1>4, <1>8 DEF ViewInd, SplitInd, OfCrate
  <1> QED
    BY <1>9, <1>10, <1>11, <1>12, <1>13 DEF ViewInd

\* The first n of the sorted versions are above the others.
LEMMA FirstAreHighest ==
  ASSUME NumsOK, NEW S \in SUBSET VersionIds, NEW n \in 0..Len(ByNum(S))
  PROVE  /\ Range(SubSeq(ByNum(S), 1, n)) \subseteq S
         /\ \A v \in Range(SubSeq(ByNum(S), 1, n)), w \in S \ Range(SubSeq(ByNum(S), 1, n)) :
              num[v] > num[w]
  <1> DEFINE q == ByNum(S)
             c == Cardinality(S)
             t == SubSeq(q, 1, n)
  <1> HIDE DEF q, c
  <1>1. /\ c \in Nat /\ q \in Seq(S) /\ Len(q) = c /\ DOMAIN q = 1..c
        /\ \A i \in 1..c : q[i] \in S
        /\ \A x \in S : \E i \in 1..c : q[i] = x
        /\ \A i, j \in 1..c : i < j => num[q[i]] > num[q[j]]
    BY ByNumSorts DEF q, c
  <1>2. n \in Nat /\ n <= c
    BY <1>1 DEF q
  <1>3. DOMAIN t = 1..n /\ \A i \in 1..n : t[i] = q[i]
    BY <1>1, <1>2
  <1> HIDE DEF t
  <1>4. Range(t) = {q[i] : i \in 1..n}
    BY <1>3 DEF Range
  <1>5. \A i \in 1..n : i \in 1..c
    BY <1>1, <1>2
  <1>6. ASSUME NEW i \in 1..n, NEW w \in S \ Range(t) PROVE num[q[i]] > num[w]
    <2>1. PICK j \in 1..c : q[j] = w
      BY <1>1
    <2>2. j \notin 1..n
      BY <1>4, <2>1
    <2>3. i < j
      BY <1>1, <1>2, <2>2
    <2> QED
      BY <1>1, <1>5, <2>1, <2>3
  <1>7. Range(t) \subseteq S
    BY <1>1, <1>4, <1>5
  <1>8. \A v \in Range(t), w \in S \ Range(t) : num[v] > num[w]
    BY <1>4, <1>6
  <1> QED
    BY <1>7, <1>8 DEF q, t

\* get_crate_downloads splits the versions by their numbers.
LEMMA LoadDownloadVersionsPreserves ==
  ASSUME ViewInd, LoadDownloadVersions
  PROVE  ViewInd'
  <1>1. /\ view \in Views /\ current \in Databases /\ UNCHANGED <<num, pre, current, writes>>
        /\ NumsOK
    BY DEF ViewInd, ViewTypes, LoadDownloadVersions, Step, NumsOK
  <1> DEFINE p == Present
             q == ByNum(p)
             n == IF Len(q) < Latest THEN Len(q) ELSE Latest
             l == Range(SubSeq(q, 1, n))
  <1>2. /\ view' = [view EXCEPT !.pc = "split", !.listed = p, !.latest = l]
        /\ view.pc = "start" /\ view.kind = "downloads"
    BY DEF LoadDownloadVersions, Step
  <1>3. p \in SUBSET VersionIds
    BY <1>1 DEF Present, Databases
  <1>4. l \subseteq p /\ \A v \in l, w \in p \ l : num[v] > num[w]
    <2>1. n \in 0..Len(q)
      <3>1. Len(q) \in Nat
        BY <1>1, <1>3, ByNumSorts
      <3> HIDE DEF q
      <3> QED
        BY <3>1, CrateViewAssumption
    <2> HIDE DEF n, p
    <2> QED
      BY <1>1, <1>3, <2>1, FirstAreHighest
  <1> HIDE DEF p, l
  <1>5. view' \in Views /\ Keeps({"pc", "listed", "latest"})
    BY <1>1, <1>2, <1>3, <1>4 DEF Views, Keeps, Fields
  <1>6. view'.pc = "split" /\ view'.listed = p /\ view'.latest = l
    BY <1>1, <1>2 DEF Views
  <1>7. /\ view'.kind = view.kind /\ view'.writes = view.writes /\ view'.settled = view.settled
        /\ view'.top = view.top /\ view'.shown = view.shown
    BY <1>5 DEF Keeps, Fields
  <1>8. /\ ViewTypes' /\ (Settled' <=> Settled) /\ Present' = p
    BY <1>1, <1>5, ReadTypes, StepKeeps DEF ReadStep, p
  <1>9. AskInd'
    BY <1>1, <1>2, <1>6, <1>7, <1>8 DEF ViewInd, AskInd, OfCrate, Same
  <1>10. FoundInd'
    BY <1>2, <1>6, <1>7 DEF FoundInd, OfCrate
  <1>11. DoneInd'
    BY <1>2, <1>6, <1>7 DEF ViewInd, DoneInd, OfCrate, TracksSound
  <1>12. SplitInd'
    <2>1. view'.shown = {}
      BY <1>2, <1>7 DEF ViewInd, SplitInd
    <2> QED
      BY <1>1, <1>4, <1>6, <1>7, <1>8, <2>1 DEF SplitInd
  <1> QED
    BY <1>8, <1>9, <1>10, <1>11, <1>12 DEF ViewInd

\* belonging_to(latest_five): all of them, if nothing was written.
LEMMA LoadLatestDownloadsPreserves ==
  ASSUME ViewInd, LoadLatestDownloads
  PROVE  ViewInd'
  <1>1. /\ view \in Views /\ current \in Databases /\ UNCHANGED <<num, pre, current, writes>>
        /\ view.pc = "split" /\ view.kind = "downloads"
    BY DEF ViewInd, ViewTypes, LoadLatestDownloads, Step, AskInd
  <1> DEFINE s == view.latest \cap Present
  <1>2. view' = [view EXCEPT !.pc = "latest", !.shown = s]
    BY DEF LoadLatestDownloads, Step
  <1>3. s \in SUBSET VersionIds /\ s \subseteq view.latest
    BY <1>1 DEF Views
  <1>4. Same => s = view.latest
    BY <1>1 DEF ViewInd, SplitInd
  <1> HIDE DEF s
  <1>5. view' \in Views /\ Keeps({"pc", "shown"})
    BY <1>1, <1>2, <1>3 DEF Views, Keeps, Fields
  <1>6. view'.pc = "latest" /\ view'.shown = s
    BY <1>1, <1>2 DEF Views
  <1>7. /\ view'.kind = view.kind /\ view'.writes = view.writes /\ view'.settled = view.settled
        /\ view'.top = view.top /\ view'.latest = view.latest /\ view'.listed = view.listed
    BY <1>5 DEF Keeps, Fields
  <1>8. ViewTypes' /\ (Settled' <=> Settled) /\ Present' = Present
    BY <1>1, <1>5, ReadTypes, StepKeeps DEF ReadStep
  <1>9. AskInd'
    BY <1>1, <1>6, <1>7, <1>8 DEF ViewInd, AskInd, OfCrate, Same
  <1>10. FoundInd'
    BY <1>1, <1>6, <1>7 DEF FoundInd, OfCrate
  <1>11. DoneInd'
    BY <1>1, <1>6, <1>7 DEF ViewInd, DoneInd, OfCrate, TracksSound
  <1>12. SplitInd'
    BY <1>1, <1>3, <1>4, <1>6, <1>7, <1>8 DEF ViewInd, SplitInd, Same
  <1> QED
    BY <1>8, <1>9, <1>10, <1>11, <1>12 DEF ViewInd

\* belonging_to(rest): the sum of those that are still there
LEMMA LoadExtraDownloadsPreserves ==
  ASSUME ViewInd, LoadExtraDownloads
  PROVE  ViewInd'
  <1>1. /\ view \in Views /\ current \in Databases /\ UNCHANGED <<num, pre, current, writes>>
        /\ view.pc = "latest" /\ view.kind = "downloads"
    BY DEF ViewInd, ViewTypes, LoadExtraDownloads, Step, AskInd
  <1>0. PICK D : D = (view.listed \ view.latest) \cap Present
    OBVIOUS
  <1> DEFINE x == SumDownloads(D)
  <1>2. view' = [view EXCEPT !.pc = "done", !.extra = x]
    BY <1>0 DEF LoadExtraDownloads, Step
  <1>3. x \in Int
    <2>1. D \in SUBSET VersionIds /\ \A v \in D : current.downloads[v] \in Int
      BY <1>0, <1>1 DEF Views, Databases
    <2>2. IsFiniteSet(D)
      BY <2>1, CrateViewAssumption, FS_Subset
    <2> QED
      BY <2>1, <2>2, SumType, SumOfDownloads
  <1>4. D \subseteq view.listed \ view.latest /\ (Same => D = view.listed \ view.latest)
    BY <1>0, <1>1 DEF ViewInd, SplitInd
  <1> HIDE DEF x
  <1>5. view' \in Views /\ Keeps({"pc", "extra"})
    BY <1>1, <1>2, <1>3 DEF Views, Keeps, Fields
  <1>6. view'.pc = "done" /\ view'.extra = x
    BY <1>1, <1>2 DEF Views
  <1>7. /\ view'.kind = view.kind /\ view'.writes = view.writes /\ view'.settled = view.settled
        /\ view'.top = view.top /\ view'.latest = view.latest /\ view'.listed = view.listed
        /\ view'.shown = view.shown
    BY <1>5 DEF Keeps, Fields
  <1>8. /\ ViewTypes' /\ (Settled' <=> Settled) /\ Present' = Present
        /\ SumDownloads(D)' = x
    <2>1. SumDownloads(D)' = SumDownloads(D)
      BY <1>1, SumOfDownloads
    <2> QED
      BY <1>1, <1>5, <2>1, ReadTypes, StepKeeps DEF ReadStep, x
  <1>9. AskInd'
    BY <1>1, <1>6, <1>7, <1>8 DEF ViewInd, AskInd, OfCrate, Same
  <1>10. FoundInd'
    BY <1>1, <1>6, <1>7 DEF FoundInd, OfCrate
  <1>11. DoneInd'
    BY <1>1, <1>6, <1>7 DEF ViewInd, DoneInd, OfCrate, TracksSound
  <1>12. SplitInd'
    <2>1. Same' <=> Same
      BY <1>1, <1>7 DEF Same
    <2>2. /\ view.shown \subseteq view.latest /\ view.latest \subseteq view.listed
          /\ \A v \in view.latest, w \in view.listed \ view.latest : num[v] > num[w]
          /\ Same => view.listed = Present /\ view.shown = view.latest
      BY <1>1 DEF ViewInd, SplitInd
    <2>3. \E X \in SUBSET (view'.listed \ view'.latest) :
            view'.extra = SumDownloads(X)' /\ (Same' => X = view'.listed \ view'.latest)
      BY <1>4, <1>6, <1>7, <1>8, <2>1
    <2> QED
      BY <1>1, <1>6, <1>7, <1>8, <2>1, <2>2, <2>3 DEF SplitInd
  <1> QED
    BY <1>8, <1>9, <1>10, <1>11, <1>12 DEF ViewInd

\* The list of versions: the tracks are those of what was read, or read again.
LEMMA ListVersionsPreserves ==
  ASSUME ViewInd, ListVersions
  PROVE  ViewInd'
  <1>1. /\ view \in Views /\ current \in Databases /\ UNCHANGED <<num, pre, current, writes>>
        /\ view.pc = "start" /\ view.kind = "versions"
    BY DEF ViewInd, ViewTypes, ListVersions, Step
  <1> DEFINE p == Present
             l == current.live
  <1>2. view' = [view EXCEPT !.pc = "tracks", !.listed = p, !.live = l]
    BY DEF ListVersions, Step
  <1>3. p \in SUBSET VersionIds /\ l \in SUBSET VersionIds
    BY <1>1 DEF Present, Databases
  <1> HIDE DEF p, l
  <1>4. view' \in Views /\ Keeps({"pc", "listed", "live"})
    BY <1>1, <1>2, <1>3 DEF Views, Keeps, Fields
  <1>5. view'.pc = "tracks"
    BY <1>1, <1>2 DEF Views
  <1>6. /\ view'.kind = view.kind /\ view'.writes = view.writes /\ view'.settled = view.settled
        /\ view'.top = view.top /\ view'.latest = view.latest /\ view'.shown = view.shown
    BY <1>4 DEF Keeps, Fields
  <1>7. ViewTypes' /\ (Settled' <=> Settled)
    BY <1>1, <1>4, ReadTypes, StepKeeps DEF ReadStep
  <1>8. AskInd'
    BY <1>1, <1>5, <1>6, <1>7 DEF ViewInd, AskInd, OfCrate, Same
  <1>9. FoundInd' /\ DoneInd' /\ SplitInd'
    BY <1>1, <1>5, <1>6 DEF ViewInd, FoundInd, DoneInd, SplitInd, OfCrate, TracksSound
  <1> QED
    BY <1>7, <1>8, <1>9 DEF ViewInd

\* ReleaseTracks of the live versions
LEMMA ListReleaseTracksPreserves ==
  ASSUME ViewInd, ListReleaseTracks
  PROVE  ViewInd'
  <1>1. /\ view \in Views /\ current \in Databases /\ UNCHANGED <<num, pre, current, writes>>
        /\ view.pc = "tracks" /\ view.kind = "versions" /\ NumsOK
    BY DEF ViewInd, ViewTypes, ListReleaseTracks, Step, AskInd, NumsOK
  <1>0. PICK l : l = IF "pages" \in view.include THEN current.live ELSE view.live
    OBVIOUS
  <1> DEFINE t == ReleaseTracks(ByNum(l))
  <1>2. view' = [view EXCEPT !.pc = "done", !.live = l, !.tracks = t]
    BY <1>0 DEF ListReleaseTracks, Step
  <1>3. l \in SUBSET VersionIds
    BY <1>0, <1>1 DEF Views, Databases
  <1>4. t = TracksOf(l)
    BY <1>1, <1>3, ReleaseTracksAre
  <1> HIDE DEF t
  <1>5. t \in SUBSET [track : Int, highest : VersionIds]
    BY <1>1, <1>3, <1>4, TrackOrder DEF TracksOf, TopOnTrack
  <1>6. view' \in Views /\ Keeps({"pc", "live", "tracks"})
    BY <1>1, <1>2, <1>3, <1>5 DEF Views, Keeps, Fields
  <1>7. view'.pc = "done" /\ view'.live = l /\ view'.tracks = t
    BY <1>1, <1>2 DEF Views
  <1>8. /\ view'.kind = view.kind /\ view'.writes = view.writes /\ view'.settled = view.settled
        /\ view'.top = view.top /\ view'.latest = view.latest /\ view'.shown = view.shown
    BY <1>6 DEF Keeps, Fields
  <1>9. ViewTypes' /\ (Settled' <=> Settled)
    BY <1>1, <1>6, ReadTypes, StepKeeps DEF ReadStep
  <1>10. AskInd'
    BY <1>1, <1>7, <1>8, <1>9 DEF ViewInd, AskInd, OfCrate, Same
  <1>11. FoundInd'
    BY <1>1, <1>8 DEF FoundInd, OfCrate
  <1>12. DoneInd'
    <2>1. TracksOf(l)' = TracksOf(l)
      BY <1>1 DEF TracksOf, TopOnTrack, TrackOf
    <2>2. TracksSound'
      BY <1>4, <1>7, <2>1 DEF TracksSound, TracksOf, TopOnTrack
    <2>3. view.top = <<>>
      BY <1>1 DEF ViewInd, DoneInd
    <2> QED
      BY <1>1, <1>8, <2>2, <2>3 DEF DoneInd, OfCrate
  <1>13. SplitInd'
    BY <1>1, <1>7, <1>8 DEF ViewInd, SplitInd
  <1> QED
    BY <1>9, <1>10, <1>11, <1>12, <1>13 DEF ViewInd

\* Every step preserves what is known of the requests.
LEMMA StepView == ViewInd /\ [ViewNext]_viewVars => ViewInd'
  <1> SUFFICES ASSUME ViewInd, [ViewNext]_viewVars PROVE ViewInd'
    OBVIOUS
  <1>1. ASSUME \/ \E v \in VersionIds : PublishVersion(v) \/ YankVersion(v) \/ RemoveVersion(v)
               \/ UpdateDefaultVersion
        PROVE  ViewInd'
    BY <1>1, WritesPreserve
  <1>2. ASSUME NEW include \in SUBSET {"versions", "default_version", "downloads"},
               Ask("find", include)
        PROVE  ViewInd'
    BY <1>2, AskPreserves DEF Includes
  <1>3. ASSUME NEW include \in SUBSET {"pages"}, Ask("versions", include) PROVE ViewInd'
    BY <1>3, AskPreserves DEF Includes
  <1>4. ASSUME Ask("summary", {}) \/ Ask("downloads", {}) PROVE ViewInd'
    BY <1>4, AskPreserves
  <1>5. CASE FindCrate
    BY <1>5, FindCratePreserves
  <1>6. CASE LoadVersions \/ LoadDefaultVersion
    BY <1>6, LoadVersionsPreserves
  <1>7. CASE LoadRecentDownloads \/ EncodeCrates
    BY <1>7, LoadedPreserves
  <1>8. CASE EncodableCrate
    BY <1>8, EncodableCratePreserves
  <1>9. CASE LoadDownloadVersions
    BY <1>9, LoadDownloadVersionsPreserves
  <1>10. CASE LoadLatestDownloads
    BY <1>10, LoadLatestDownloadsPreserves
  <1>11. CASE LoadExtraDownloads
    BY <1>11, LoadExtraDownloadsPreserves
  <1>12. CASE ListVersions
    BY <1>12, ListVersionsPreserves
  <1>13. CASE ListReleaseTracks
    BY <1>13, ListReleaseTracksPreserves
  <1>14. CASE UNCHANGED viewVars
    <2>1. UNCHANGED <<num, pre, current, writes, view>>
      BY <1>14 DEF viewVars
    <2>2. ViewTypes' /\ (Settled' <=> Settled) /\ Present' = Present
          /\ \A S : SumDownloads(S)' = SumDownloads(S)
      BY <2>1, StepKeeps DEF ViewInd, ViewTypes
    <2>3. TopVersions(view.live)' = TopVersions(view.live) /\ (TracksSound' <=> TracksSound)
      BY <2>1 DEF TopVersions, TracksSound, TrackOf
    <2> QED
      BY <2>1, <2>2, <2>3 DEF ViewInd, AskInd, FoundInd, DoneInd, SplitInd, OfCrate, Same
  <1> QED
    BY <1>1, <1>2, <1>3, <1>4, <1>5, <1>6, <1>7, <1>8, <1>9, <1>10, <1>11, <1>12, <1>13, <1>14
       DEF ViewNext

\* The downloads that are shown and those that are summed up are two parts of all.
LEMMA TwoParts ==
  ASSUME ViewTypes, NEW L \in SUBSET VersionIds, NEW A \in SUBSET L, NEW D \in SUBSET (L \ A)
  PROVE  /\ SumDownloads(A) + SumDownloads(D) <= SumDownloads(L)
         /\ D = L \ A => SumDownloads(A) + SumDownloads(D) = SumDownloads(L)
  <1> DEFINE f == current.downloads
             R == (L \ A) \ D
  <1>1. \A v \in VersionIds : f[v] \in Nat /\ f[v] \in Int
    BY DEF ViewTypes, Databases
  <1> HIDE DEF f
  <1>2. IsFiniteSet(L) /\ IsFiniteSet(L \ A) /\ IsFiniteSet(A) /\ IsFiniteSet(D) /\ IsFiniteSet(R)
    BY CrateViewAssumption, FS_Subset
  <1>3. SumOf(f, L) = SumOf(f, A) + SumOf(f, L \ A)
    BY <1>1, <1>2, SumSplit
  <1>4. SumOf(f, L \ A) = SumOf(f, D) + SumOf(f, R)
    BY <1>1, <1>2, SumSplit
  <1>5. /\ SumOf(f, A) \in Int /\ SumOf(f, D) \in Int /\ SumOf(f, R) \in Int
        /\ SumOf(f, L) \in Int
    BY <1>1, <1>2, SumType
  <1>6. SumOf(f, R) >= 0
    <2>1. \A v \in R : f[v] \in Nat
      BY <1>1
    <2> HIDE DEF R
    <2> QED
      BY <1>2, <2>1, SumNat
  <1>7. /\ SumOf(f, A) + SumOf(f, D) <= SumOf(f, L)
        /\ D = L \ A => SumOf(f, A) + SumOf(f, D) = SumOf(f, L)
    <2> HIDE DEF R
    <2> QED
      BY <1>3, <1>4, <1>5, <1>6
  <1> QED
    BY <1>7, SumOfDownloads DEF f

\* The parts of a response agree.
LEMMA ViewIndCoherent == ViewInd => CoherentView
  <1> SUFFICES ASSUME ViewInd, Quiet, view.settled, OfCrate PROVE
        /\ view.yanked <=> current.live = {}
        /\ "versions" \in view.include =>
             view.count = Cardinality(view.listed) /\ view.default \in view.listed
        /\ view.include \cap {"versions", "default_version"} = {"default_version"} =>
             view.listed = {view.default}
        /\ view.top # <<>> /\ ~view.yanked =>
             /\ Cardinality(view.top[1].newest) = 1 /\ view.top[1].newest \subseteq current.live
             /\ ~pre[view.default] => view.top[1].stable = {view.default}
    BY DEF CoherentView, OfCrate
  <1>1. /\ view.pc = "done" /\ Same /\ current \in Databases /\ NumsOK
        /\ pre \in [VersionIds -> BOOLEAN]
    BY DEF Quiet, Same, ViewInd, ViewTypes, NumsOK
  <1> DEFINE live == current.live
             yanked == current.yanked
             d == current.default
  <1>2. /\ live \in SUBSET VersionIds /\ yanked \in SUBSET VersionIds /\ live \cap yanked = {}
        /\ d \in live \cup yanked /\ Present = live \cup yanked
    BY <1>1 DEF Databases, Present
  <1>3. \A w \in (live \cup yanked) \ {d} : Higher(d, w, live)
    <2>1. d = Best(live, yanked)
      BY <1>1 DEF ViewInd, AskInd, Settled
    <2>2. live \cup yanked # {}
      BY <1>2
    <2> HIDE DEF live, yanked, d
    <2> QED
      BY <1>1, <1>2, <2>1, <2>2, BestIsHighest
  <1>4. /\ view.default = d /\ (view.yanked <=> d \in yanked)
        /\ view.count = Cardinality(Present)
    BY <1>1 DEF ViewInd, FoundInd
  <1>5. d \in yanked <=> live = {}
    BY <1>2, <1>3 DEF Higher
  <1>6. "versions" \in view.include =>
          view.count = Cardinality(view.listed) /\ view.default \in view.listed
    <2> SUFFICES ASSUME "versions" \in view.include, view.kind = "find"
                 PROVE  view.count = Cardinality(view.listed) /\ view.default \in view.listed
      BY DEF ViewInd, AskInd, OfCrate
    <2> QED
      BY <1>1, <1>2, <1>4 DEF ViewInd, FoundInd
  <1>7. view.include \cap {"versions", "default_version"} = {"default_version"} =>
          view.listed = {view.default}
    <2> SUFFICES ASSUME view.include \cap {"versions", "default_version"} = {"default_version"},
                        view.kind = "find"
                 PROVE  view.listed = {view.default}
      BY DEF ViewInd, AskInd, OfCrate
    <2> QED
      BY <1>1, <1>2, <1>4 DEF ViewInd, FoundInd
  <1>8. ASSUME view.top # <<>>, ~view.yanked
        PROVE  /\ Cardinality(view.top[1].newest) = 1 /\ view.top[1].newest \subseteq live
               /\ ~pre[view.default] => view.top[1].stable = {view.default}
    <2>1. view.live = live /\ view.top[1] = TopVersions(live)
      BY <1>1, <1>8 DEF ViewInd, DoneInd, FoundInd, OfCrate
    <2>2. d \in live /\ live # {}
      BY <1>2, <1>4, <1>5, <1>8
    <2>3. \A v \in live : v \in Nat /\ num[v] \in Nat /\ pre[v] \in BOOLEAN
      BY <1>1, <1>2, IdsAreNumbers
    <2> DEFINE N == {v \in live : \A w \in live : w <= v}
               T == {v \in live : ~pre[v] /\ \A w \in live : ~pre[w] => num[w] <= num[v]}
    <2>4. view.top[1].newest = N /\ view.top[1].stable = T
      BY <2>1 DEF TopVersions
    <2>5. \E m \in live : N = {m}
      <3> DEFINE f == [v \in live |-> v]
      <3>1. IsFiniteSet(live) /\ \A v \in live : f[v] \in Int
        BY <1>2, <2>3, CrateViewAssumption, FS_Subset
      <3>2. PICK m \in live : \A v \in live : f[v] <= f[m]
        <4> HIDE DEF f, live
        <4> QED
          BY <2>2, <3>1, HighestOf
      <3>3. \A v \in live : v <= m
        BY <3>2
      <3> HIDE DEF live
      <3> QED
        BY <2>3, <3>3
    <2>6. Cardinality(N) = 1 /\ N \subseteq live
      <3> HIDE DEF N, live
      <3> QED
        BY <2>5, FS_Singleton
    <2>7. ~pre[d] => T = {d}
      BY <1>2, <1>3, <2>2, <2>3 DEF Higher
    <2> QED
      BY <1>4, <2>4, <2>6, <2>7
  <1> QED
    BY <1>4, <1>5, <1>6, <1>7, <1>8

\* The invariant implies what a response promises.
LEMMA ViewIndImplies == ViewInd => ViewInv
  <1> SUFFICES ASSUME ViewInd PROVE ViewInv
    OBVIOUS
  <1>1. view \in Views /\ current \in Databases /\ ViewTypes /\ NumsOK
    BY DEF ViewInd, ViewTypes, NumsOK
  <1>2. ViewTypeOK
    BY <1>1 DEF ViewTypeOK, Present, Databases, Views, ViewInd, SplitInd
  <1>3. CoherentView
    BY ViewIndCoherent
  <1>4. ShownDownloadsSound
    <2> SUFFICES ASSUME view.pc = "done", OfCrate, view.top # <<>>,
                        NEW h \in view.top[1].highest,
                        NEW n \in view.top[1].newest \cup view.top[1].stable
                 PROVE  num[h] >= num[n] /\ {h, n} \subseteq view.live
      BY DEF ShownDownloadsSound, OfCrate, ViewInd, DoneInd
    <2>1. view.top[1] = TopVersions(view.live) /\ view.live \in SUBSET VersionIds
      BY <1>1 DEF ViewInd, DoneInd, Views
    <2>2. h \in view.live /\ n \in view.live /\ \A w \in view.live : num[w] <= num[h]
      BY <2>1 DEF TopVersions
    <2>3. num[h] \in Nat /\ num[n] \in Nat
      BY <1>1, <2>1, <2>2, IdsAreNumbers
    <2> QED
      BY <2>2, <2>3
  <1>5. TracksSound
    BY DEF ViewInd, DoneInd
  <1>6. DownloadsOnce
    <2> SUFFICES ASSUME view.pc = "done", view.kind = "downloads"
                 PROVE  /\ view.writes = writes =>
                             SumDownloads(view.shown) + view.extra = SumDownloads(Present)
                        /\ SumDownloads(view.shown) + view.extra <= SumDownloads(view.listed)
                        /\ view.writes = writes =>
                             \A v \in view.shown, w \in view.listed \ view.latest : num[v] > num[w]
      BY DEF DownloadsOnce
    <2>1. /\ view.shown \subseteq view.latest /\ view.latest \subseteq view.listed
          /\ view.listed \in SUBSET VersionIds
          /\ \A v \in view.latest, w \in view.listed \ view.latest : num[v] > num[w]
          /\ Same => view.listed = Present /\ view.shown = view.latest
      BY <1>1 DEF ViewInd, SplitInd, Views
    <2>2. PICK D \in SUBSET (view.listed \ view.latest) :
            view.extra = SumDownloads(D) /\ (Same => D = view.listed \ view.latest)
      BY DEF ViewInd, SplitInd
    <2>3. view.shown \in SUBSET view.listed /\ D \in SUBSET (view.listed \ view.shown)
      BY <2>1
    <2>4. /\ SumDownloads(view.shown) + SumDownloads(D) <= SumDownloads(view.listed)
          /\ D = view.listed \ view.shown =>
               SumDownloads(view.shown) + SumDownloads(D) = SumDownloads(view.listed)
      BY <1>1, <2>1, <2>3, TwoParts
    <2> QED
      BY <2>1, <2>2, <2>4 DEF Same
  <1> QED
    BY <1>2, <1>3, <1>4, <1>5, <1>6 DEF ViewInv

\* Responses: what a response shows of versions, tracks and downloads fits together, for any
\* number of versions and changes, though it is put together from several statements
\* (find_crate, encode_crates, get_crate_downloads, list_versions).
THEOREM ResponsesAgree == ViewSpec => []ViewInv
  <1>1. ViewSpec => []ViewInd
    BY InitView, StepView, PTL DEF ViewSpec
  <1> QED
    BY <1>1, ViewIndImplies, PTL
=============================================================================
