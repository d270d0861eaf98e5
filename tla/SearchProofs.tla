---------------------------- MODULE SearchProofs ----------------------------
(***************************************************************************)
(* The search path, for any number of shards, documents, texts and limits: *)
(* the coordinator's progressive merge, federation and the hybrid ranking  *)
(* over it (Fanout, Queries), and below them the indexes of one shard and  *)
(* the searches over them (ShardStore, ShardSearch).                       *)
(***************************************************************************)
EXTENDS Queries, ShardSearch, FiniteSetTheorems, SequenceTheorems, WellFoundedInduction, TLAPS

-----------------------------------------------------------------------------
(* Numbers and finite sets                                                 *)

\* A non-empty set of numbers has a least element.
LEMMA LeastNumber ==
  ASSUME NEW D, D \subseteq Nat, D # {}
  PROVE  \E d \in D : \A e \in D : d <= e
<1>. DEFINE R == OpToRel(<, Nat)
<1>1. PICK d \in D : \A e \in D : <<e, d>> \notin R
  <2>1. IsWellFoundedOn(R, Nat)
    BY NatLessThanWellFounded
  <2>. HIDE DEF R
  <2>. QED BY <2>1, WFMin
<1>2. \A e \in D : ~(e < d)
  BY <1>1 DEF OpToRel
<1>. QED BY <1>2

\* A set of numbers that has 0 and with every number the next has all.
LEMMA AllNumbers ==
  ASSUME NEW D, 0 \in D, \A n \in Nat : n \in D => n + 1 \in D
  PROVE  Nat \subseteq D
<1>. DEFINE E == Nat \ D
<1>. SUFFICES ASSUME E # {} PROVE FALSE
  OBVIOUS
<1>1. PICK d \in E : \A e \in E : d <= e
  <2>1. E \subseteq Nat
    OBVIOUS
  <2>. HIDE DEF E
  <2>. QED BY <2>1, LeastNumber
<1>2. d \in Nat /\ d # 0 /\ d - 1 \in Nat /\ d - 1 \notin E
  BY <1>1
<1>3. (d - 1) + 1 \in D
  BY <1>2
<1>. QED BY <1>1, <1>2, <1>3

\* Of a non-empty family of finite sets, one has no smaller one beside it.
LEMMA SmallestSet ==
  ASSUME NEW F, F # {}, \A S \in F : IsFiniteSet(S)
  PROVE  \E S \in F : \A T \in F : ~(T \subseteq S /\ T # S)
<1>. DEFINE D == {Cardinality(S) : S \in F}
<1>1. PICK d \in D : \A e \in D : d <= e
  <2>1. D \subseteq Nat /\ D # {}
    BY FS_CardinalityType
  <2>. HIDE DEF D
  <2>. QED BY <2>1, LeastNumber
<1>2. PICK S \in F : d = Cardinality(S)
  OBVIOUS
<1>3. ASSUME NEW T \in F, T \subseteq S, T # S
      PROVE  FALSE
  <2>1. Cardinality(T) <= Cardinality(S) /\ Cardinality(T) # Cardinality(S)
    BY <1>3, FS_Subset
  <2>2. Cardinality(S) <= Cardinality(T)
    BY <1>1, <1>2
  <2>. QED BY <2>1, <2>2, FS_CardinalityType
<1>. QED BY <1>3

-----------------------------------------------------------------------------
(* Folds and sums                                                          *)

\* c names an element of every subset of S.
Chooses(c, S) == \A s \in SUBSET S : s # {} => c[s] \in s

\* h folds g over the subsets of S, taking the element c[s] of s first.
Folds(h, g, base, c, S) ==
  \A s \in SUBSET S : h[s] = IF s = {} THEN base ELSE g[<<c[s], h[s \ {c[s]}]>>]

\* Such a function exists.
LEMMA FoldExists ==
  ASSUME NEW S, IsFiniteSet(S), NEW W, NEW base \in W, NEW g \in [S \X W -> W],
         NEW c, Chooses(c, S)
  PROVE  \E h \in [SUBSET S -> W] : Folds(h, g, base, c, S)
<1>. DEFINE Upto(n) == {s \in SUBSET S : Cardinality(s) <= n}
            Right(h, s) == h[s] = IF s = {} THEN base ELSE g[<<c[s], h[s \ {c[s]}]>>]
            Partly(h, n) == h \in [Upto(n) -> W] /\ \A s \in Upto(n) : Right(h, s)
            D == {n \in Nat : \E h : Partly(h, n)}
<1>0. \A s \in SUBSET S : IsFiniteSet(s) /\ Cardinality(s) \in Nat
  BY FS_Subset, FS_CardinalityType
<1>1. 0 \in D
  <2>. DEFINE h == [s \in Upto(0) |-> base]
  <2>1. \A s \in Upto(0) : s = {}
    BY <1>0, FS_EmptySet
  <2>2. Partly(h, 0)
    BY <2>1
  <2>. QED BY <2>2
<1>2. ASSUME NEW n \in Nat, n \in D
      PROVE  n + 1 \in D
  <2>1. PICK h : Partly(h, n)
    BY <1>2
  <2>. DEFINE k == [s \in Upto(n + 1) |-> IF s = {} THEN base ELSE g[<<c[s], h[s \ {c[s]}]>>]]
  <2>2. \A s \in Upto(n) : s \in Upto(n + 1) /\ k[s] = h[s] /\ h[s] \in W
    <3>1. \A s \in Upto(n) : s \in Upto(n + 1)
      BY <1>0
    <3>2. \A s \in Upto(n) : Right(h, s) /\ h[s] \in W
      <4>. HIDE DEF Upto, Right
      <4>. QED BY <2>1
    <3>. HIDE DEF Upto
    <3>. QED BY <3>1, <3>2
  <2>3. ASSUME NEW s \in Upto(n + 1), s # {}
        PROVE  s \ {c[s]} \in Upto(n) /\ c[s] \in S
    <3>1. s \in SUBSET S /\ c[s] \in s /\ Cardinality(s) <= n + 1
      BY <2>3 DEF Chooses
    <3>2. Cardinality(s \ {c[s]}) = Cardinality(s) - 1
      BY <1>0, <3>1, FS_RemoveElement
    <3>. QED BY <1>0, <3>1, <3>2
  <2>. HIDE DEF Upto
  <2>4. \A s \in Upto(n + 1) : Right(k, s)
    BY <2>2, <2>3
  <2>5. \A s \in Upto(n + 1) : k[s] \in W
    BY <2>2, <2>3
  <2>6. Partly(k, n + 1)
    BY <2>4, <2>5
  <2>. HIDE DEF k, Partly
  <2>. QED BY <2>6
<1>3. Cardinality(S) \in D
  <2>. HIDE DEF D
  <2>. QED BY <1>0, <1>1, <1>2, AllNumbers
<1>4. Upto(Cardinality(S)) = SUBSET S
  BY <1>0, FS_Subset
<1>5. PICK h : Partly(h, Cardinality(S))
  BY <1>3
<1>. QED BY <1>4, <1>5 DEF Folds

\* h sums f over the subsets of S.
Sums(h, f, c, S) ==
  h = [s \in SUBSET S |-> IF s = {} THEN 0 ELSE f[c[s]] + h[s \ {c[s]}]]

Integers(f, S) == IsFiniteSet(S) /\ \A x \in S : f[x] \in Int

LEMMA SumsExist ==
  ASSUME NEW S, NEW f, Integers(f, S), NEW c, Chooses(c, S)
  PROVE  \E h : Sums(h, f, c, S)
<1>. DEFINE g == [p \in S \X Int |-> f[p[1]] + p[2]]
<1>1. g \in [S \X Int -> Int] /\ 0 \in Int /\ IsFiniteSet(S)
  BY DEF Integers
<1>2. PICK h \in [SUBSET S -> Int] : Folds(h, g, 0, c, S)
  <2>. HIDE DEF g
  <2>. QED BY <1>1, FoldExists
<1>3. \A s \in SUBSET S : h[s] = IF s = {} THEN 0 ELSE f[c[s]] + h[s \ {c[s]}]
  <2>. SUFFICES ASSUME NEW s \in SUBSET S PROVE h[s] = IF s = {} THEN 0 ELSE f[c[s]] + h[s \ {c[s]}]
    OBVIOUS
  <2>1. CASE s = {}
    BY <1>2, <2>1 DEF Folds
  <2>2. CASE s # {}
    <3>1. c[s] \in S /\ s \ {c[s]} \in SUBSET S /\ h[s] = g[<<c[s], h[s \ {c[s]}]>>]
      BY <1>2, <2>2 DEF Folds, Chooses
    <3>2. <<c[s], h[s \ {c[s]}]>> \in S \X Int
      BY <3>1
    <3>. QED BY <2>2, <3>1, <3>2
  <2>. QED BY <2>1, <2>2
<1>. QED BY <1>3 DEF Sums

\* It adds up naturals, whichever element is taken first.
LEMMA SumsTake ==
  ASSUME NEW S, IsFiniteSet(S), NEW f, \A x \in S : f[x] \in Int, NEW c, Chooses(c, S),
         NEW h, Sums(h, f, c, S)
  PROVE  \A s \in SUBSET S : /\ h[s] \in Int
                             /\ s = {} => h[s] = 0
                             /\ \A x \in s : h[s] = f[x] + h[s \ {x}]
<1>. DEFINE Right(s) == /\ h[s] \in Int
                        /\ s = {} => h[s] = 0
                        /\ \A x \in s : h[s] = f[x] + h[s \ {x}]
            F == {s \in SUBSET S : ~Right(s)}
<1>. SUFFICES ASSUME F # {} PROVE FALSE
  OBVIOUS
<1>1. PICK s \in F : \A t \in F : ~(t \subseteq s /\ t # s)
  <2>1. \A t \in F : IsFiniteSet(t)
    BY FS_Subset
  <2>. HIDE DEF F
  <2>. QED BY <2>1, SmallestSet
<1>2. s \subseteq S /\ ~Right(s)
  OBVIOUS
<1>3. \A t \in SUBSET s : t # s => Right(t)
  BY <1>1, <1>2
<1>. HIDE DEF F
<1>4. h[s] = IF s = {} THEN 0 ELSE f[c[s]] + h[s \ {c[s]}]
  BY <1>2 DEF Sums
<1>5. CASE s = {}
  BY <1>2, <1>4, <1>5
<1>6. CASE s # {}
  <2>. DEFINE y == c[s]
  <2>1. y \in s /\ h[s] = f[y] + h[s \ {y}] /\ f[y] \in Int
    BY <1>2, <1>4, <1>6 DEF Chooses
  <2>. HIDE DEF y
  <2>2. Right(s \ {y})
    BY <1>3, <2>1
  <2>3. ASSUME NEW x \in s
        PROVE  h[s] = f[x] + h[s \ {x}]
    <3>1. CASE x = y
      BY <2>1, <3>1
    <3>2. CASE x # y
      <4>. DEFINE r == s \ {x, y}
      <4>1. Right(s \ {x}) /\ Right(r)
        BY <1>3, <2>1, <2>3
      <4>2. (s \ {x}) \ {y} = r /\ (s \ {y}) \ {x} = r
        OBVIOUS
      <4>3. h[s \ {y}] = f[x] + h[r]
        BY <2>2, <2>3, <3>2, <4>2
      <4>4. h[s \ {x}] = f[y] + h[r]
        BY <2>1, <3>2, <4>1, <4>2
      <4>5. f[x] \in Int /\ h[r] \in Int
        BY <1>2, <2>3, <4>1
      <4>. HIDE DEF r
      <4>. QED BY <2>1, <4>3, <4>4, <4>5
    <3>. QED BY <3>1, <3>2
  <2>4. h[s] \in Int
    BY <2>1, <2>2
  <2>. QED BY <1>2, <1>6, <2>3, <2>4
<1>. QED BY <1>5, <1>6

\* What SumFunctionOnSet computes.
LEMMA SumIsSums ==
  ASSUME NEW S, NEW f, Integers(f, S)
  PROVE  \E h, c : /\ Chooses(c, S) /\ Sums(h, f, c, S)
                   /\ SumFunctionOnSet(f, S) = h[S]
<1>. DEFINE c == [s \in SUBSET S |-> CHOOSE x \in s : TRUE]
            H == CHOOSE h : h = [s \in SUBSET S |->
                   IF s = {} THEN 0 ELSE f[CHOOSE x \in s : TRUE] + h[s \ {CHOOSE x \in s : TRUE}]]
<1>1. Chooses(c, S)
  BY DEF Chooses
<1>2. \A h : Sums(h, f, c, S) <=>
        h = [s \in SUBSET S |->
               IF s = {} THEN 0 ELSE f[CHOOSE x \in s : TRUE] + h[s \ {CHOOSE x \in s : TRUE}]]
  BY DEF Sums
<1>3. \E h : Sums(h, f, c, S)
  BY <1>1, SumsExist
<1>4. Sums(H, f, c, S)
  BY <1>2, <1>3
<1>5. SumFunctionOnSet(f, S) = H[S]
  BY DEF SumFunctionOnSet, FoldFunctionOnSet, MapThenFoldSet
<1>. QED BY <1>1, <1>4, <1>5

\* Functions that agree on a set have one sum over it.
LEMMA SumsAgree ==
  ASSUME NEW S1, NEW f1, NEW c1, NEW h1, Integers(f1, S1), Chooses(c1, S1), Sums(h1, f1, c1, S1),
         NEW S2, NEW f2, NEW c2, NEW h2, Integers(f2, S2), Chooses(c2, S2), Sums(h2, f2, c2, S2),
         NEW S, S \subseteq S1, S \subseteq S2, \A x \in S : f1[x] = f2[x]
  PROVE  h1[S] = h2[S]
<1>. DEFINE F == {s \in SUBSET S : h1[s] # h2[s]}
<1>. SUFFICES ASSUME F # {} PROVE FALSE
  OBVIOUS
<1>1. PICK s \in F : \A t \in F : ~(t \subseteq s /\ t # s)
  <2>1. \A t \in F : IsFiniteSet(t)
    BY FS_Subset DEF Integers
  <2>. HIDE DEF F
  <2>. QED BY <2>1, SmallestSet
<1>2. s \subseteq S /\ h1[s] # h2[s]
  OBVIOUS
<1>3. /\ \A x \in s : h1[s] = f1[x] + h1[s \ {x}] /\ h2[s] = f2[x] + h2[s \ {x}]
      /\ s = {} => h1[s] = 0 /\ h2[s] = 0
  <2>1. s \in SUBSET S1 /\ s \in SUBSET S2
    BY <1>2
  <2>. HIDE DEF F
  <2>. QED BY <2>1, SumsTake DEF Integers
<1>4. PICK x \in s : TRUE
  BY <1>2, <1>3
<1>5. h1[s \ {x}] = h2[s \ {x}]
  BY <1>1, <1>2, <1>4
<1>. QED BY <1>2, <1>3, <1>4, <1>5

\* The sum of no value, and of one value more.
LEMMA SumNone ==
  ASSUME NEW f, DOMAIN f = {}
  PROVE  SumFunction(f) = 0
<1>1. Integers(f, {})
  BY FS_EmptySet DEF Integers
<1>2. PICK h, c : Chooses(c, {}) /\ Sums(h, f, c, {}) /\ SumFunctionOnSet(f, {}) = h[{}]
  BY <1>1, SumIsSums
<1>3. h[{}] = 0
  BY <1>2 DEF Sums
<1>. QED BY <1>2, <1>3 DEF SumFunction

LEMMA SumType ==
  ASSUME NEW f, Integers(f, DOMAIN f)
  PROVE  SumFunction(f) \in Int
<1>. DEFINE S == DOMAIN f
<1>1. PICK h, c : Chooses(c, S) /\ Sums(h, f, c, S) /\ SumFunctionOnSet(f, S) = h[S]
  BY SumIsSums
<1>2. h[S] \in Int
  BY <1>1, SumsTake DEF Integers
<1>. QED BY <1>1, <1>2 DEF SumFunction

LEMMA SumMore ==
  ASSUME NEW f, NEW g, NEW x, x \notin DOMAIN f, DOMAIN g = DOMAIN f \cup {x},
         Integers(g, DOMAIN g), \A i \in DOMAIN f : g[i] = f[i]
  PROVE  SumFunction(g) = g[x] + SumFunction(f)
<1>. DEFINE S == DOMAIN f
            T == DOMAIN g
<1>0. Integers(f, S) /\ T \ {x} = S /\ S \subseteq T
  BY FS_Subset DEF Integers
<1>1. PICK h, c : Chooses(c, S) /\ Sums(h, f, c, S) /\ SumFunctionOnSet(f, S) = h[S]
  BY <1>0, SumIsSums
<1>2. PICK k, d : Chooses(d, T) /\ Sums(k, g, d, T) /\ SumFunctionOnSet(g, T) = k[T]
  BY SumIsSums
<1>3. k[T] = g[x] + k[T \ {x}]
  BY <1>2, SumsTake DEF Integers
<1>4. k[S] = h[S]
  BY <1>0, <1>1, <1>2, SumsAgree
<1>. QED BY <1>0, <1>1, <1>2, <1>3, <1>4 DEF SumFunction

\* The sum over a set is that over its parts.
LEMMA SumParts ==
  ASSUME NEW S, NEW T \in SUBSET S, NEW f, Integers(f, S), DOMAIN f = S,
         NEW p, DOMAIN p = T, \A x \in T : p[x] = f[x],
         NEW q, DOMAIN q = S \ T, \A x \in S \ T : q[x] = f[x]
  PROVE  SumFunction(f) = SumFunction(p) + SumFunction(q)
<1>. DEFINE U == S \ T
<1>0. Integers(p, T) /\ Integers(q, U)
  BY FS_Subset DEF Integers
<1>1. PICK h, c : Chooses(c, S) /\ Sums(h, f, c, S) /\ SumFunctionOnSet(f, S) = h[S]
  BY SumIsSums
<1>2. PICK k, d : Chooses(d, T) /\ Sums(k, p, d, T) /\ SumFunctionOnSet(p, T) = k[T]
  BY <1>0, SumIsSums
<1>3. PICK m, e : Chooses(e, U) /\ Sums(m, q, e, U) /\ SumFunctionOnSet(q, U) = m[U]
  BY <1>0, SumIsSums
<1>4. h[T] = k[T] /\ h[U] = m[U]
  BY <1>0, <1>1, <1>2, <1>3, SumsAgree
<1>7. \A r \in SUBSET S : /\ h[r] \in Int
                          /\ r = {} => h[r] = 0
                          /\ \A x \in r : h[r] = f[x] + h[r \ {x}]
  <2>1. IsFiniteSet(S) /\ \A x \in S : f[x] \in Int
    BY DEF Integers
  <2>2. Chooses(c, S) /\ Sums(h, f, c, S)
    BY <1>1
  <2>. HIDE DEF U
  <2>. QED BY ONLY <2>1, <2>2, SumsTake
<1>5. \A s \in SUBSET T : h[s \cup U] = h[s] + h[U]
  <2>. DEFINE F == {s \in SUBSET T : h[s \cup U] # h[s] + h[U]}
  <2>. SUFFICES ASSUME F # {} PROVE FALSE
    OBVIOUS
  <2>1. PICK s \in F : \A t \in F : ~(t \subseteq s /\ t # s)
    <3>1. \A t \in F : IsFiniteSet(t)
      BY <1>0, FS_Subset DEF Integers
    <3>. HIDE DEF F
    <3>. QED BY <3>1, SmallestSet
  <2>2. s \subseteq T /\ h[s \cup U] # h[s] + h[U]
    OBVIOUS
  <2>4. s # {}
    <3>1. {} \cup U = U
      OBVIOUS
    <3>2. {} \in SUBSET S /\ U \in SUBSET S
      OBVIOUS
    <3>3. h[{}] = 0 /\ h[U] \in Int
      BY <1>7, <3>2
    <3>. HIDE DEF F, U
    <3>4. ASSUME s = {} PROVE FALSE
      <4>1. h[s \cup U] = h[U] /\ h[s] = 0
        BY <3>1, <3>3, <3>4
      <4>. QED BY <2>2, <3>3, <4>1
    <3>. QED BY <3>4
  <2>5. PICK x \in s : TRUE
    BY <2>4
  <2>6. s \ {x} \in SUBSET T /\ s \ {x} \notin F
    BY <2>1, <2>2, <2>5
  <2>7. h[(s \ {x}) \cup U] = h[s \ {x}] + h[U]
    BY <2>6
  <2>. HIDE DEF F
  <2>8. (s \cup U) \ {x} = (s \ {x}) \cup U
    BY <2>2, <2>5
  <2>9. /\ h[s \cup U] = f[x] + h[(s \cup U) \ {x}] /\ h[s] = f[x] + h[s \ {x}]
        /\ h[s \ {x}] \in Int /\ h[U] \in Int /\ f[x] \in Int
    <3>1. s \cup U \in SUBSET S /\ s \in SUBSET S /\ U \in SUBSET S /\ s \ {x} \in SUBSET S /\ x \in s \cup U
      BY <2>2, <2>5
    <3>2. f[x] \in Int
      BY <3>1 DEF Integers
    <3>. HIDE DEF U
    <3>. QED BY <1>7, <2>5, <3>1, <3>2
  <2>10. h[s \cup U] = f[x] + (h[s \ {x}] + h[U])
    BY <2>7, <2>8, <2>9
  <2>. HIDE DEF U
  <2>. QED BY <2>2, <2>9, <2>10
<1>6. T \cup U = S /\ T \in SUBSET T /\ DOMAIN q = U
  OBVIOUS
<1>. HIDE DEF U
<1>8. h[S] = h[T] + h[U]
  BY <1>5, <1>6
<1>9. SumFunction(f) = h[S] /\ SumFunction(p) = k[T] /\ SumFunction(q) = m[U]
  BY <1>1, <1>2, <1>3, <1>6 DEF SumFunction
<1>. QED BY <1>4, <1>8, <1>9

-----------------------------------------------------------------------------
(* Ranked lists                                                            *)

Record == [icao24 : Nat, score : Nat, observed_at : Nat]

\* A finite set of hits
Ranked(S) == S \subseteq Record /\ IsFiniteSet(S)

Better(S, h) == {g \in S : cmp_hits(g, h)}

\* cmp_hits is a strict order, in which hits of different aircraft compare.
LEMMA CmpOrder ==
  /\ \A a \in Record : ~cmp_hits(a, a)
  /\ \A a, b, c \in Record : cmp_hits(a, b) /\ cmp_hits(b, c) => cmp_hits(a, c)
  /\ \A a, b \in Record : a.icao24 # b.icao24 => cmp_hits(a, b) \/ cmp_hits(b, a)
BY DEF cmp_hits, Record

LEMMA RankedSubset ==
  ASSUME NEW S, Ranked(S), NEW T, T \subseteq S
  PROVE  Ranked(T) /\ Cardinality(T) \in Nat /\ Cardinality(T) <= Cardinality(S)
BY FS_Subset, FS_CardinalityType DEF Ranked

\* What is better than a better hit is better.
LEMMA BetterSubset ==
  ASSUME NEW S, Ranked(S), NEW g \in Record, NEW h \in Record, cmp_hits(g, h)
  PROVE  /\ Better(S, g) \subseteq Better(S, h)
         /\ Cardinality(Better(S, g)) <= Cardinality(Better(S, h))
<1>1. Better(S, g) \subseteq Better(S, h)
  BY CmpOrder DEF Better, Ranked
<1>2. Better(S, h) \subseteq S
  BY DEF Better
<1>3. Ranked(Better(S, h))
  BY <1>2, RankedSubset
<1>. QED BY <1>1, <1>3, RankedSubset

\* A hit of S is cut only if limit better ones stay.
LEMMA TopStays ==
  ASSUME limit \in Nat \ {0}, NEW S, Ranked(S), NEW h \in S, h \notin Truncate(S)
  PROVE  Cardinality(Better(Truncate(S), h)) >= limit
<1>. DEFINE K == Truncate(S)
            Lost == {x \in S : x \notin K /\ ~(Cardinality(Better(K, x)) >= limit)}
<1>. SUFFICES ASSUME Lost # {} PROVE FALSE
  OBVIOUS
<1>0. K = {x \in S : Cardinality(Better(S, x)) < limit}
  BY DEF Truncate, Better
<1>1. \A x \in S : Better(S, x) \subseteq S /\ Better(K, x) \subseteq Better(S, x)
  BY <1>0 DEF Better
<1>2. \A x \in S : /\ Ranked(Better(S, x)) /\ Cardinality(Better(S, x)) \in Nat
                   /\ Ranked(Better(K, x)) /\ Cardinality(Better(K, x)) \in Nat
  BY <1>1, RankedSubset
<1>. HIDE DEF K
<1>3. PICK x \in Lost : \A y \in Lost : ~(Better(S, y) \subseteq Better(S, x) /\ Better(S, y) # Better(S, x))
  <2>. DEFINE F == {Better(S, y) : y \in Lost}
  <2>1. F # {} /\ \A B \in F : IsFiniteSet(B)
    BY <1>2 DEF Ranked
  <2>2. PICK B \in F : \A C \in F : ~(C \subseteq B /\ C # B)
    <3>. HIDE DEF F
    <3>. QED BY <2>1, SmallestSet
  <2>3. PICK x \in Lost : B = Better(S, x)
    OBVIOUS
  <2>. QED BY <2>2, <2>3
<1>4. /\ x \in S /\ x \in Record /\ ~(Cardinality(Better(S, x)) < limit)
      /\ ~(Cardinality(Better(K, x)) >= limit)
  BY <1>0, <1>3 DEF Ranked
<1>5. Better(S, x) # Better(K, x)
  BY <1>2, <1>4
<1>6. PICK g \in S : cmp_hits(g, x) /\ g \notin K
  BY <1>1, <1>4, <1>5 DEF Better
<1>7. g \in Record /\ ~cmp_hits(g, g)
  BY <1>6, CmpOrder DEF Ranked
<1>8. Better(S, g) \subseteq Better(S, x) /\ Better(S, g) # Better(S, x)
  <2>1. g \in Better(S, x) /\ g \notin Better(S, g)
    BY <1>6, <1>7 DEF Better
  <2>. QED BY <1>4, <1>6, <1>7, <2>1, BetterSubset
<1>9. Cardinality(Better(K, g)) >= limit
  BY <1>3, <1>6, <1>8
<1>10. Cardinality(Better(K, g)) <= Cardinality(Better(K, x))
  <2>1. Ranked(K)
    BY <1>0, RankedSubset
  <2>. QED BY <1>4, <1>6, <1>7, <2>1, BetterSubset
<1>. QED BY <1>2, <1>4, <1>6, <1>9, <1>10

\* Cutting a part of a list before the rest comes changes nothing.
LEMMA TruncateMerge ==
  ASSUME limit \in Nat, NEW S, Ranked(S), NEW T, Ranked(T)
  PROVE  Truncate(Truncate(S) \cup T) = Truncate(S \cup T)
<1>1. CASE limit = 0
  BY <1>1 DEF Truncate
<1>2. CASE limit # 0
  <2>. DEFINE U == S \cup T
              W == Truncate(S) \cup T
  <2>1. Ranked(U) /\ W \subseteq U /\ Ranked(W)
    <3>1. Ranked(U)
      BY FS_Union DEF Ranked
    <3>2. W \subseteq U
      BY DEF Truncate
    <3>. HIDE DEF U, W
    <3>. QED BY <3>1, <3>2, RankedSubset
  <2>2. \A X : Truncate(X) = {h \in X : Cardinality(Better(X, h)) < limit}
    BY <1>2 DEF Truncate, Better
  <2>3. \A h \in U : /\ h \in Record /\ Better(W, h) \subseteq Better(U, h)
                     /\ Cardinality(Better(W, h)) \in Nat /\ Cardinality(Better(U, h)) \in Nat
                     /\ Cardinality(Better(W, h)) <= Cardinality(Better(U, h))
    <3>. SUFFICES ASSUME NEW h \in U
                  PROVE  /\ h \in Record /\ Better(W, h) \subseteq Better(U, h)
                         /\ Cardinality(Better(W, h)) \in Nat /\ Cardinality(Better(U, h)) \in Nat
                         /\ Cardinality(Better(W, h)) <= Cardinality(Better(U, h))
      OBVIOUS
    <3>. HIDE DEF U, W
    <3>1. Better(U, h) \subseteq U /\ Better(W, h) \subseteq Better(U, h) /\ h \in Record
      BY <2>1 DEF Better, Ranked
    <3>2. Ranked(Better(U, h)) /\ Cardinality(Better(U, h)) \in Nat
      BY <2>1, <3>1, RankedSubset
    <3>. QED BY <3>1, <3>2, RankedSubset
  <2>4. ASSUME NEW h \in U, h \notin W
        PROVE  Cardinality(Better(W, h)) >= limit
    <3>1. h \in S /\ h \notin Truncate(S)
      BY <2>4
    <3>2. Cardinality(Better(Truncate(S), h)) >= limit
      BY <1>2, <3>1, TopStays
    <3>3. Better(Truncate(S), h) \subseteq Better(W, h) /\ Better(W, h) \subseteq W
      BY DEF Better
    <3>4. Ranked(Better(W, h))
      BY <2>1, <3>3, RankedSubset
    <3>. HIDE DEF U, W
    <3>. QED BY <3>2, <3>3, <3>4, RankedSubset
  <2>5. ASSUME NEW h \in Truncate(U)
        PROVE  h \in Truncate(W)
    <3>. HIDE DEF U, W
    <3>1. h \in U /\ Cardinality(Better(U, h)) < limit
      BY <2>2
    <3>2. Cardinality(Better(W, h)) < limit
      BY <2>3, <3>1
    <3>3. h \in W
      BY <2>3, <2>4, <3>1, <3>2
    <3>. QED BY <2>2, <3>2, <3>3
  <2>6. ASSUME NEW h \in Truncate(W)
        PROVE  h \in Truncate(U)
    <3>. HIDE DEF U, W
    <3>1. h \in W /\ h \in U /\ h \in Record /\ Cardinality(Better(W, h)) < limit
      BY <2>1, <2>2, <2>3
    <3>2. \A g \in U : cmp_hits(g, h) => g \in W
      <4>. SUFFICES ASSUME NEW g \in U, cmp_hits(g, h), g \notin W PROVE FALSE
        OBVIOUS
      <4>1. Cardinality(Better(W, g)) >= limit
        BY <2>4
      <4>2. Cardinality(Better(W, g)) <= Cardinality(Better(W, h))
        BY <2>1, <2>3, <3>1, BetterSubset
      <4>. QED BY <2>3, <3>1, <4>1, <4>2
    <3>3. Better(U, h) = Better(W, h)
      BY <2>1, <3>2 DEF Better
    <3>. QED BY <2>2, <3>1, <3>3
  <2>. HIDE DEF U, W
  <2>7. Truncate(W) = Truncate(U)
    BY <2>5, <2>6
  <2>. QED BY <2>7 DEF U, W
<1>. QED BY <1>1, <1>2

\* What stays is better than what is cut.
LEMMA TruncateBetter ==
  ASSUME limit \in Nat, NEW S, Ranked(S), OnePerAircraft(S),
         NEW g \in Truncate(S), NEW h \in S, h \notin Truncate(S)
  PROVE  cmp_hits(g, h)
<1>1. limit # 0 /\ g \in S /\ g \in Record /\ h \in Record
  BY DEF Truncate, Ranked
<1>2. Cardinality(Better(S, g)) < limit /\ ~(Cardinality(Better(S, h)) < limit)
  BY <1>1 DEF Truncate, Better
<1>3. cmp_hits(g, h) \/ cmp_hits(h, g)
  BY <1>1, CmpOrder DEF OnePerAircraft
<1>4. ASSUME cmp_hits(h, g) PROVE FALSE
  <2>1. Cardinality(Better(S, h)) <= Cardinality(Better(S, g))
    BY <1>1, <1>4, BetterSubset
  <2>2. Better(S, h) \subseteq S /\ Better(S, g) \subseteq S
    BY DEF Better
  <2>3. Cardinality(Better(S, h)) \in Nat /\ Cardinality(Better(S, g)) \in Nat
    BY <2>2, RankedSubset
  <2>. QED BY <1>2, <2>1, <2>3
<1>. QED BY <1>3, <1>4

\* At most limit hits stay.
LEMMA TruncateCount ==
  ASSUME limit \in Nat \ {0}, NEW S, Ranked(S), OnePerAircraft(S)
  PROVE  Cardinality(Truncate(S)) <= limit
<1>. DEFINE K == Truncate(S)
<1>0. K \subseteq S /\ \A x \in K : Cardinality(Better(S, x)) < limit
  BY DEF Truncate, Better
<1>1. Ranked(K) /\ Cardinality(K) \in Nat
  BY <1>0, RankedSubset
<1>. HIDE DEF K
<1>. SUFFICES ASSUME ~(Cardinality(K) <= limit) PROVE FALSE
  BY DEF K
<1>2. PICK w \in K : \A y \in K : ~cmp_hits(w, y)
  <2>. DEFINE Rest(x) == K \ Better(K, x)
              F == {Rest(x) : x \in K}
  <2>1. K # {}
    BY <1>1, FS_EmptySet
  <2>2. F # {} /\ \A B \in F : IsFiniteSet(B)
    <3>1. \A x \in K : Rest(x) \subseteq K
      OBVIOUS
    <3>. HIDE DEF Rest
    <3>2. \A x \in K : IsFiniteSet(Rest(x))
      BY <1>1, <3>1, FS_Subset DEF Ranked
    <3>. QED BY <2>1, <3>2
  <2>3. PICK B \in F : \A C \in F : ~(C \subseteq B /\ C # B)
    <3>. HIDE DEF F
    <3>. QED BY <2>2, SmallestSet
  <2>4. PICK w \in K : B = Rest(w)
    OBVIOUS
  <2>5. ASSUME NEW y \in K, cmp_hits(w, y) PROVE FALSE
    <3>1. w \in Record /\ y \in Record /\ ~cmp_hits(w, w)
      BY <1>1, <2>4, <2>5, CmpOrder DEF Ranked
    <3>2. Better(K, w) \subseteq Better(K, y)
      BY <1>1, <2>5, <3>1, BetterSubset
    <3>3. w \in Rest(w) /\ w \notin Rest(y)
      BY <2>4, <2>5, <3>1 DEF Better
    <3>4. Rest(y) \subseteq Rest(w) /\ Rest(y) \in F
      BY <3>2
    <3>. HIDE DEF F, Rest
    <3>. QED BY <2>3, <2>4, <3>3, <3>4
  <2>. QED BY <2>5
<1>3. K \ {w} \subseteq Better(S, w)
  <2>. SUFFICES ASSUME NEW x \in K, x # w PROVE x \in S /\ cmp_hits(x, w)
    BY DEF Better
  <2>1. x \in S /\ w \in S /\ x \in Record /\ w \in Record
    BY <1>0, <1>2 DEF Ranked
  <2>. QED BY <1>2, <2>1, CmpOrder DEF OnePerAircraft
<1>4. Cardinality(K \ {w}) = Cardinality(K) - 1
  BY <1>1, <1>2, FS_RemoveElement DEF Ranked
<1>5. Better(S, w) \subseteq S
  BY DEF Better
<1>6. Ranked(Better(S, w)) /\ Cardinality(Better(S, w)) \in Nat
  BY <1>5, RankedSubset
<1>7. Cardinality(K \ {w}) <= Cardinality(Better(S, w))
  BY <1>3, <1>6, RankedSubset
<1>. QED BY <1>0, <1>1, <1>2, <1>4, <1>6, <1>7

-----------------------------------------------------------------------------
(* Copies of one aircraft                                                  *)

\* a is a fresher or better copy of the aircraft of b.
Replaces(a, b) == a.icao24 = b.icao24 /\ supersedes(a, b)

\* supersedes is a strict order, in which different copies compare.
LEMMA ReplacesOrder ==
  /\ \A a \in Record : ~Replaces(a, a)
  /\ \A a, b, c \in Record : Replaces(a, b) /\ Replaces(b, c) => Replaces(a, c)
  /\ \A a, b \in Record : a.icao24 = b.icao24 /\ a # b => Replaces(a, b) \/ Replaces(b, a)
<1>1. \A a, b \in Record : /\ a.icao24 = b.icao24 /\ a.score = b.score /\ a.observed_at = b.observed_at
                           => a = b
  BY DEF Record
<1>2. \A a \in Record : a.icao24 \in Nat /\ a.score \in Nat /\ a.observed_at \in Nat
  BY DEF Record
<1>. QED BY <1>1, <1>2 DEF Replaces, supersedes

\* One copy of each aircraft is left.
LEMMA DedupOne ==
  ASSUME NEW S, S \subseteq Record
  PROVE  dedup_by_aircraft(S) \subseteq S /\ OnePerAircraft(dedup_by_aircraft(S))
BY ReplacesOrder DEF dedup_by_aircraft, OnePerAircraft, Replaces

\* A copy is left or replaced by one that is left.
LEMMA DedupKeeps ==
  ASSUME NEW S, Ranked(S), NEW h \in S
  PROVE  \E g \in dedup_by_aircraft(S) : g = h \/ Replaces(g, h)
<1>. DEFINE K == dedup_by_aircraft(S)
            Over(x) == {g \in S : Replaces(g, x)}
            Lost == {x \in S : \A g \in K : g # x /\ ~Replaces(g, x)}
<1>. SUFFICES ASSUME Lost # {} PROVE FALSE
  OBVIOUS
<1>1. PICK x \in Lost : \A y \in Lost : ~(Over(y) \subseteq Over(x) /\ Over(y) # Over(x))
  <2>. DEFINE F == {Over(y) : y \in Lost}
  <2>1. F # {} /\ \A B \in F : IsFiniteSet(B)
    <3>1. \A y \in Lost : Over(y) \subseteq S
      OBVIOUS
    <3>. HIDE DEF Over, Lost
    <3>2. \A y \in Lost : IsFiniteSet(Over(y))
      BY <3>1, FS_Subset DEF Ranked
    <3>. QED BY <3>2
  <2>2. PICK B \in F : \A C \in F : ~(C \subseteq B /\ C # B)
    <3>. HIDE DEF F
    <3>. QED BY <2>1, SmallestSet
  <2>. HIDE DEF Over, Lost
  <2>3. PICK x \in Lost : B = Over(x)
    OBVIOUS
  <2>4. \A y \in Lost : Over(y) \in F
    OBVIOUS
  <2>. HIDE DEF F
  <2>. QED BY <2>2, <2>3, <2>4
<1>2. x \in S /\ x \in Record /\ x \notin K
  BY <1>1 DEF Ranked
<1>3. PICK y \in S : Replaces(y, x)
  BY <1>2 DEF dedup_by_aircraft, Replaces
<1>4. y \in Record
  BY <1>3 DEF Ranked
<1>5. y \in Lost
  <2>. SUFFICES ASSUME NEW g \in K, g = y \/ Replaces(g, y) PROVE FALSE
    BY <1>3
  <2>1. g \in Record
    BY DEF dedup_by_aircraft, Ranked
  <2>2. Replaces(g, x)
    BY <1>2, <1>3, <1>4, <2>1, ReplacesOrder
  <2>. QED BY <1>1, <2>2
<1>6. Over(y) \subseteq Over(x)
  BY <1>2, <1>3, <1>4, ReplacesOrder DEF Ranked
<1>7. y \in Over(x) /\ y \notin Over(y)
  BY <1>3, <1>4, ReplacesOrder
<1>. QED BY <1>1, <1>5, <1>6, <1>7

\* Dropping copies of a part before the rest comes changes nothing.
LEMMA DedupMerge ==
  ASSUME NEW S, Ranked(S), NEW T, Ranked(T)
  PROVE  dedup_by_aircraft(dedup_by_aircraft(S) \cup T) = dedup_by_aircraft(S \cup T)
<1>. DEFINE K == dedup_by_aircraft(S)
            U == S \cup T
            W == K \cup T
<1>1. K \subseteq S /\ U \subseteq Record /\ W \subseteq U
  BY DEF dedup_by_aircraft, Ranked
<1>2. \A X : dedup_by_aircraft(X) = {h \in X : \A g \in X : ~Replaces(g, h)}
  BY DEF dedup_by_aircraft, Replaces
<1>3. ASSUME NEW h \in dedup_by_aircraft(U)
      PROVE  h \in dedup_by_aircraft(W)
  <2>1. h \in U /\ \A g \in U : ~Replaces(g, h)
    BY <1>2
  <2>2. h \in W
    BY <1>2, <2>1
  <2>. QED BY <1>1, <1>2, <2>1, <2>2
<1>4. ASSUME NEW h \in dedup_by_aircraft(W)
      PROVE  h \in dedup_by_aircraft(U)
  <2>1. h \in W /\ \A g \in W : ~Replaces(g, h)
    BY <1>2
  <2>2. ASSUME NEW g \in U, Replaces(g, h) PROVE FALSE
    <3>1. g \in S /\ g \in Record /\ h \in Record
      BY <1>1, <2>1, <2>2
    <3>2. PICK f \in K : f = g \/ Replaces(f, g)
      BY <3>1, DedupKeeps
    <3>3. f \in W /\ f \in Record
      BY <1>1, <3>2
    <3>4. Replaces(f, h)
      BY <2>2, <3>1, <3>2, <3>3, ReplacesOrder
    <3>. QED BY <2>1, <3>3, <3>4
  <2>. QED BY <1>1, <1>2, <2>1, <2>2
<1>. HIDE DEF U, W
<1>5. dedup_by_aircraft(W) = dedup_by_aircraft(U)
  BY <1>3, <1>4
<1>. QED BY <1>5 DEF U, W

\* Without copies nothing is dropped.
LEMMA DedupNothing ==
  ASSUME NEW S, S \subseteq Record, OnePerAircraft(S)
  PROVE  dedup_by_aircraft(S) = S
BY ReplacesOrder DEF dedup_by_aircraft, OnePerAircraft, Replaces

-----------------------------------------------------------------------------
(* The progressive merge                                                   *)

\* The state a query never changes, and the tasks
Asked ==
  /\ limit \in Limits /\ matches \in [Leaders -> Slices]
  /\ task \in [Leaders -> {"asked", "answered", "omitted", "panicked"}]

\* The hits sent by the leaders of L, how many they sent and matched
Answers(L) == Gathered([l \in L |-> Response(l)])
Sent(L)    == SumFunction([l \in L |-> Cardinality(Response(l).hits)])
Found(L)   == SumFunction([l \in L |-> Response(l).total])

\* What the merge has after the answers of L, in whatever order: one copy of
\* each aircraft that came; without a limit all of them, and with one, if no
\* aircraft is held twice, the best of all that came.
MergeOf(L, best, matched, dropped) ==
  /\ best \subseteq Answers(L) /\ OnePerAircraft(best)
  /\ limit # 0 => Cardinality(best) <= limit
  /\ matched = Found(L) /\ matched \in Nat /\ dropped \in Nat
  /\ limit = 0 => best = dedup_by_aircraft(Answers(L)) /\ dropped = Sent(L) - Cardinality(best)
  /\ limit # 0 /\ Disjoint =>
       best = Truncate(Answers(L)) /\ dropped = 0 /\ Sent(L) = Cardinality(Answers(L))

\* The inductive invariant: the merge is that of the answers so far, and the
\* update sent last shows it.
FanoutInv ==
  /\ Asked
  /\ MergeOf(With("answered"), hits, total, deduped)
  /\ update.hits \subseteq Hit /\ update.answered \in 0 .. Cardinality(Leaders)
  /\ finished \in {"open", "complete", "gone"}
  /\ finished = "open" => update.hits = hits /\ update.answered = Cardinality(With("answered"))
  /\ finished = "complete" =>
       /\ update = snapshot(hits, total, deduped, Cardinality(With("answered")), TRUE)
       /\ With("asked") = {}

LEMMA ResponseFacts ==
  ASSUME Asked, NEW l \in Leaders
  PROVE  /\ limit \in Nat
         /\ Response(l).hits = Truncate(matches[l]) /\ Response(l).total = Cardinality(matches[l])
         /\ Response(l).hits \subseteq matches[l] /\ matches[l] \subseteq Hit
         /\ Ranked(Response(l).hits) /\ OnePerAircraft(Response(l).hits)
         /\ OnePerAircraft(matches[l]) /\ Ranked(matches[l])
         /\ Response(l).total \in Nat /\ Cardinality(Response(l).hits) \in Nat
<1>1. limit \in Nat /\ matches[l] \in Slices
  BY LimitsAssumption DEF Asked
<1>2. Ranked(matches[l]) /\ OnePerAircraft(matches[l]) /\ matches[l] \subseteq Hit
  BY <1>1, HitAssumption DEF Slices, Ranked, Record
<1>3. Response(l).hits = Truncate(matches[l]) /\ Response(l).total = Cardinality(matches[l])
  BY DEF Response
<1>4. Response(l).hits \subseteq matches[l]
  BY <1>3 DEF Truncate
<1>5. OnePerAircraft(Response(l).hits)
  BY <1>2, <1>4 DEF OnePerAircraft
<1>6. Ranked(Response(l).hits) /\ Cardinality(Response(l).hits) \in Nat
  BY <1>2, <1>4, RankedSubset
<1>7. Cardinality(matches[l]) \in Nat
  BY <1>2, RankedSubset
<1>. QED BY <1>1, <1>2, <1>3, <1>4, <1>5, <1>6, <1>7

LEMMA AnswersFacts ==
  ASSUME Asked, NEW L \in SUBSET Leaders
  PROVE  /\ IsFiniteSet(L)
         /\ \A h : h \in Answers(L) <=> \E l \in L : h \in Response(l).hits
         /\ Ranked(Answers(L)) /\ Answers(L) \subseteq Hit
         /\ Cardinality(Answers(L)) \in Nat
<1>1. IsFiniteSet(L)
  BY LeadersAssumption, FS_Subset
<1>. DEFINE f == [l \in L |-> Response(l).hits]
<1>2. Answers(L) = UNION {f[l] : l \in L}
  BY DEF Answers, Gathered
<1>3. \A h : h \in Answers(L) <=> \E l \in L : h \in Response(l).hits
  BY <1>2
<1>4. Answers(L) \subseteq Hit /\ Answers(L) \subseteq Record
  BY <1>3, ResponseFacts, HitAssumption DEF Record
<1>5. IsFiniteSet(Answers(L))
  <2>1. f \in Surjection(L, {f[l] : l \in L})
    BY DEF Surjection
  <2>2. \A l \in L : IsFiniteSet(f[l])
    BY ResponseFacts DEF Ranked
  <2>. HIDE DEF f
  <2>3. IsFiniteSet({f[l] : l \in L})
    BY <1>1, <2>1, FS_Surjection
  <2>4. \A T \in {f[l] : l \in L} : IsFiniteSet(T)
    BY <2>2
  <2>. QED BY <1>2, <2>3, <2>4, FS_UNION
<1>6. Ranked(Answers(L))
  BY <1>4, <1>5 DEF Ranked
<1>. QED BY <1>1, <1>3, <1>4, <1>6, RankedSubset

\* With no aircraft held twice, nothing that comes is a copy.
LEMMA DisjointAnswers ==
  ASSUME Asked, Disjoint, NEW L \in SUBSET Leaders
  PROVE  /\ OnePerAircraft(Answers(L))
         /\ \A l \in Leaders \ L : Answers(L) \cap Response(l).hits = {}
<1>1. \A l \in Leaders : /\ Response(l).hits \subseteq matches[l]
                         /\ OnePerAircraft(Response(l).hits)
  BY ResponseFacts
<1>2. \A l, m \in Leaders : l # m => \A a \in matches[l], b \in matches[m] : a.icao24 # b.icao24
  BY DEF Disjoint
<1>3. \A h : h \in Answers(L) <=> \E l \in L : h \in Response(l).hits
  BY AnswersFacts
<1>4. OnePerAircraft(Answers(L))
  <2>. SUFFICES ASSUME NEW a \in Answers(L), NEW b \in Answers(L), a.icao24 = b.icao24
                PROVE  a = b
    BY DEF OnePerAircraft
  <2>1. PICK l \in L : a \in Response(l).hits
    BY <1>3
  <2>2. PICK m \in L : b \in Response(m).hits
    BY <1>3
  <2>3. l = m
    BY <1>1, <1>2, <2>1, <2>2
  <2>. QED BY <1>1, <2>1, <2>2, <2>3 DEF OnePerAircraft
<1>5. \A l \in Leaders \ L : Answers(L) \cap Response(l).hits = {}
  BY <1>1, <1>2, <1>3
<1>. QED BY <1>4, <1>5

LEMMA SumsFacts ==
  ASSUME Asked, NEW L \in SUBSET Leaders
  PROVE  /\ Sent(L) \in Int /\ Found(L) \in Int
         /\ L = {} => Sent(L) = 0 /\ Found(L) = 0
         /\ \A l \in Leaders \ L : /\ Sent(L \cup {l}) = Cardinality(Response(l).hits) + Sent(L)
                                   /\ Found(L \cup {l}) = Response(l).total + Found(L)
<1>. DEFINE s(M) == [l \in M |-> Cardinality(Response(l).hits)]
            t(M) == [l \in M |-> Response(l).total]
<1>1. \A M \in SUBSET Leaders : Integers(s(M), M) /\ Integers(t(M), M)
  BY ResponseFacts, AnswersFacts DEF Integers
<1>2. \A M : /\ DOMAIN s(M) = M /\ DOMAIN t(M) = M
             /\ Sent(M) = SumFunction(s(M)) /\ Found(M) = SumFunction(t(M))
  BY DEF Sent, Found
<1>3. Sent(L) \in Int /\ Found(L) \in Int
  BY <1>1, <1>2, SumType
<1>4. L = {} => Sent(L) = 0 /\ Found(L) = 0
  <2>. HIDE DEF s, t
  <2>. QED BY <1>2, SumNone
<1>5. ASSUME NEW l \in Leaders \ L
      PROVE  /\ Sent(L \cup {l}) = Cardinality(Response(l).hits) + Sent(L)
             /\ Found(L \cup {l}) = Response(l).total + Found(L)
  <2>. DEFINE M == L \cup {l}
  <2>1. /\ M \in SUBSET Leaders /\ l \notin L
        /\ \A i \in L : s(M)[i] = s(L)[i] /\ t(M)[i] = t(L)[i]
        /\ s(M)[l] = Cardinality(Response(l).hits) /\ t(M)[l] = Response(l).total
    OBVIOUS
  <2>2. Integers(s(M), M) /\ Integers(t(M), M)
    BY <1>1, <2>1
  <2>. HIDE DEF s, t
  <2>3. SumFunction(s(M)) = s(M)[l] + SumFunction(s(L))
    BY <1>2, <2>1, <2>2, SumMore
  <2>4. SumFunction(t(M)) = t(M)[l] + SumFunction(t(L))
    BY <1>2, <2>1, <2>2, SumMore
  <2>. QED BY <1>2, <2>1, <2>3, <2>4
<1>. QED BY <1>3, <1>4, <1>5

\* What add does to it, whichever leader answers next
LEMMA AddAnswer ==
  ASSUME Asked, NEW L \in SUBSET Leaders, NEW l \in Leaders \ L,
         NEW best, NEW matched, NEW dropped, MergeOf(L, best, matched, dropped),
         NEW both, both = dedup_by_aircraft(best \cup Response(l).hits)
  PROVE  MergeOf(L \cup {l}, Truncate(both), matched + Response(l).total,
                 dropped + Cardinality(best) + Cardinality(Response(l).hits) - Cardinality(both))
<1>. DEFINE R == Response(l).hits
            M == L \cup {l}
            A == Answers(L)
            d2 == dropped + Cardinality(best) + Cardinality(R) - Cardinality(both)
<1>1. limit \in Nat /\ Ranked(R) /\ OnePerAircraft(R) /\ Cardinality(R) \in Nat /\ Response(l).total \in Nat
  BY ResponseFacts
<1>2. Ranked(A) /\ Answers(M) = A \cup R /\ Ranked(Answers(M)) /\ Cardinality(A) \in Nat
  <2>1. M \in SUBSET Leaders
    OBVIOUS
  <2>2. \A h : h \in Answers(M) <=> h \in A \/ h \in R
    BY <2>1, AnswersFacts
  <2>3. Answers(M) = A \cup R
    <3>. HIDE DEF A, M, R
    <3>. QED BY <2>2
  <2>. QED BY <2>1, <2>3, AnswersFacts
<1>3. best \subseteq A /\ OnePerAircraft(best) /\ dropped \in Nat /\ matched \in Nat /\ matched = Found(L)
  BY DEF MergeOf
<1>4. Ranked(best) /\ Cardinality(best) \in Nat
  BY <1>2, <1>3, RankedSubset
<1>. HIDE DEF R, M, A
<1>5. Ranked(best \cup R) /\ Cardinality(best \cup R) = Cardinality(best) + Cardinality(R) - Cardinality(best \cap R)
  BY <1>1, <1>4, FS_Union DEF Ranked
<1>6. Cardinality(best \cap R) \in Nat /\ best \cap R \subseteq R
  <2>1. best \cap R \subseteq R
    OBVIOUS
  <2>. QED BY <1>1, <2>1, RankedSubset
<1>7. both = dedup_by_aircraft(best \cup R)
  BY DEF R
<1>8. both \subseteq best \cup R /\ OnePerAircraft(both) /\ Ranked(both)
  <2>1. both \subseteq best \cup R /\ OnePerAircraft(both)
    BY <1>5, <1>7, DedupOne DEF Ranked
  <2>. QED BY <1>5, <2>1, RankedSubset
<1>9. Cardinality(both) \in Nat /\ Cardinality(both) <= Cardinality(best \cup R)
  BY <1>5, <1>8, RankedSubset
<1>10. d2 \in Nat
  BY <1>1, <1>3, <1>4, <1>5, <1>6, <1>9
<1>11. Truncate(both) \subseteq both /\ OnePerAircraft(Truncate(both))
  BY <1>8 DEF Truncate, OnePerAircraft
<1>12. Truncate(both) \subseteq Answers(M)
  BY <1>2, <1>3, <1>8, <1>11
<1>13. limit # 0 => Cardinality(Truncate(both)) <= limit
  BY <1>1, <1>8, TruncateCount
<1>14. /\ Sent(M) = Cardinality(R) + Sent(L) /\ Found(M) = Response(l).total + Found(L)
       /\ Sent(L) \in Int /\ Found(L) \in Int
  BY SumsFacts DEF M, R
<1>15. matched + Response(l).total = Found(M) /\ matched + Response(l).total \in Nat
  BY <1>1, <1>3, <1>14
<1>16. ASSUME limit = 0
       PROVE  /\ Truncate(both) = dedup_by_aircraft(Answers(M))
              /\ d2 = Sent(M) - Cardinality(Truncate(both))
  <2>1. best = dedup_by_aircraft(A) /\ dropped = Sent(L) - Cardinality(best)
    BY <1>16 DEF MergeOf, A
  <2>2. both = dedup_by_aircraft(Answers(M))
    BY <1>1, <1>2, <1>7, <2>1, DedupMerge
  <2>3. Truncate(both) = both
    BY <1>16 DEF Truncate
  <2>. QED BY <1>1, <1>4, <1>9, <1>14, <2>1, <2>2, <2>3
<1>17. ASSUME limit # 0, Disjoint
       PROVE  /\ Truncate(both) = Truncate(Answers(M)) /\ d2 = 0
              /\ Sent(M) = Cardinality(Answers(M))
  <2>1. best = Truncate(A) /\ dropped = 0 /\ Sent(L) = Cardinality(A)
    BY <1>17 DEF MergeOf, A
  <2>2. A \cap R = {}
    BY <1>17, DisjointAnswers DEF A, R
  <2>3. OnePerAircraft(A \cup R)
    <3>1. M \in SUBSET Leaders
      BY DEF M
    <3>. QED BY <1>2, <1>17, <3>1, DisjointAnswers
  <2>4. OnePerAircraft(best \cup R)
    BY <1>3, <2>3 DEF OnePerAircraft
  <2>5. both = best \cup R
    BY <1>5, <1>7, <2>4, DedupNothing DEF Ranked
  <2>6. Truncate(both) = Truncate(A \cup R)
    BY <1>1, <1>2, <2>1, <2>5, TruncateMerge
  <2>7. best \cap R = {}
    BY <1>3, <2>2
  <2>8. Cardinality(A \cup R) = Cardinality(A) + Cardinality(R)
    <3>1. Cardinality(A \cup R) = Cardinality(A) + Cardinality(R) - Cardinality(A \cap R)
      BY <1>1, <1>2, FS_Union DEF Ranked
    <3>2. Cardinality(A \cap R) = 0
      BY <2>2, FS_EmptySet
    <3>. QED BY <1>1, <1>2, <3>1, <3>2
  <2>9. d2 = 0
    <3>1. Cardinality(best \cap R) = 0
      BY <2>7, FS_EmptySet
    <3>2. Cardinality(R) \in Nat
      BY <1>1
    <3>3. Cardinality(both) = Cardinality(best) + Cardinality(R)
      <4>1. Cardinality(best \cup R)
              = Cardinality(best) + Cardinality(R) - Cardinality(best \cap R)
        BY ONLY <1>5
      <4>2. Cardinality(best) \in Nat
        BY ONLY <1>4
      <4>3. Cardinality(best \cup R) = Cardinality(best) + Cardinality(R)
        BY ONLY <3>1, <3>2, <4>1, <4>2
      <4>. QED BY ONLY <2>5, <4>3
    <3>. QED BY <1>4, <2>1, <3>2, <3>3
  <2>10. Sent(M) = Cardinality(A \cup R)
    <3>1. Sent(M) = Cardinality(R) + Cardinality(A) /\ Cardinality(R) \in Nat /\ Cardinality(A) \in Nat
      BY <1>1, <1>2, <1>14, <2>1
    <3>. QED BY <2>8, <3>1
  <2>. QED BY <1>2, <2>6, <2>9, <2>10
<1>. HIDE DEF d2
<1>18. MergeOf(M, Truncate(both), matched + Response(l).total, d2)
  BY <1>10, <1>11, <1>12, <1>13, <1>15, <1>16, <1>17 DEF MergeOf
<1>. QED BY <1>18 DEF M, d2, R

LEMMA FanoutInitial == FanoutInit => FanoutInv
<1>. SUFFICES ASSUME FanoutInit PROVE FanoutInv
  OBVIOUS
<1>1. Asked /\ limit \in Nat
  BY LimitsAssumption DEF FanoutInit, Asked
<1>2. With("answered") = {}
  BY DEF FanoutInit, With
<1>3. {} \in SUBSET Leaders /\ IsFiniteSet({}) /\ Cardinality({}) = 0
  BY FS_EmptySet
<1>4. Answers({}) = {}
  BY DEF Answers, Gathered
<1>5. Sent({}) = 0 /\ Found({}) = 0
  BY <1>1, <1>3, SumsFacts
<1>6. dedup_by_aircraft({}) = {} /\ Truncate({}) = {} /\ OnePerAircraft({})
  BY DEF dedup_by_aircraft, Truncate, OnePerAircraft
<1>7. MergeOf({}, {}, 0, 0)
  BY <1>1, <1>3, <1>4, <1>5, <1>6 DEF MergeOf
<1>8. Cardinality(Leaders) \in Nat
  BY LeadersAssumption, FS_CardinalityType
<1>. QED BY <1>1, <1>2, <1>3, <1>7, <1>8 DEF FanoutInv, FanoutInit, NoUpdate

\* The merge depends on the query and on the shards only.
LEMMA AnswersStay ==
  ASSUME UNCHANGED <<limit, matches>>
  PROVE  Answers(With("answered"))' = Answers(With("answered")')
BY DEF Answers, Gathered, Response, Truncate

LEMMA MergeStays ==
  ASSUME UNCHANGED <<limit, matches>>
  PROVE  MergeOf(With("answered"), hits, total, deduped)'
           <=> MergeOf(With("answered")', hits', total', deduped')
BY DEF MergeOf, Answers, Gathered, Sent, Found, Response, Truncate, Disjoint

LEMMA FanoutStep == FanoutInv /\ [FanoutNext]_fanout_vars => FanoutInv'
<1>. SUFFICES ASSUME FanoutInv, [FanoutNext]_fanout_vars PROVE FanoutInv'
  OBVIOUS
<1>. DEFINE L == With("answered")
<1>1. L \in SUBSET Leaders /\ IsFiniteSet(L) /\ Cardinality(L) \in Nat
  <2>1. L \in SUBSET Leaders
    BY DEF With
  <2>. QED BY <2>1, LeadersAssumption, FS_Subset, FS_CardinalityType
<1>2. Asked /\ MergeOf(L, hits, total, deduped) /\ limit \in Nat
  BY LimitsAssumption DEF FanoutInv, Asked
<1>3. ASSUME NEW l \in Leaders, Answered(l) PROVE FanoutInv'
  <2>. DEFINE both == dedup_by_aircraft(hits \cup Response(l).hits)
              h2 == Truncate(both)
              t2 == total + Response(l).total
              d2 == deduped + Cardinality(hits) + Cardinality(Response(l).hits) - Cardinality(both)
  <2>1. /\ finished = "open" /\ task[l] = "asked" /\ task' = [task EXCEPT ![l] = "answered"]
        /\ UNCHANGED <<limit, matches>> /\ hits' = h2 /\ total' = t2 /\ deduped' = d2
    BY <1>3 DEF Answered, add
  <2>2. Asked' /\ With("answered")' = L \cup {l} /\ l \in Leaders \ L
    BY <1>2, <2>1 DEF Asked, With
  <2>3. MergeOf(L \cup {l}, h2, t2, d2)
    <3>. HIDE DEF L
    <3>. QED BY <1>1, <1>2, <2>2, AddAnswer
  <2>. HIDE DEF L, h2, t2, d2
  <2>4. MergeOf(With("answered"), hits, total, deduped)'
    BY <2>1, <2>2, <2>3, MergeStays
  <2>5. Cardinality(L \cup {l}) = Cardinality(L) + 1 /\ Cardinality(L \cup {l}) \in 0 .. Cardinality(Leaders)
    <3>1. Cardinality(L \cup {l}) = Cardinality(L) + 1
      BY <1>1, <2>2, FS_AddElement
    <3>2. L \cup {l} \in SUBSET Leaders /\ Cardinality(Leaders) \in Nat
      BY <1>1, LeadersAssumption, FS_CardinalityType
    <3>3. Cardinality(L \cup {l}) <= Cardinality(Leaders)
      BY <3>2, LeadersAssumption, FS_Subset
    <3>. QED BY <1>1, <3>1, <3>2, <3>3
  <2>6. hits' \subseteq Hit
    <3>1. h2 \subseteq Answers(L \cup {l})
      BY <2>3 DEF MergeOf
    <3>2. L \cup {l} \in SUBSET Leaders
      BY <1>1
    <3>. QED BY <1>2, <2>1, <3>1, <3>2, AnswersFacts
  <2>7. CASE /\ update' = snapshot(hits', total', deduped', Cardinality(With("answered")) + 1, FALSE)
             /\ finished' = finished
    <3>1. update'.hits = hits' /\ update'.answered = Cardinality(L \cup {l}) /\ finished' = "open"
      BY <2>1, <2>5, <2>7 DEF snapshot, L
    <3>. QED BY <2>2, <2>4, <2>5, <2>6, <3>1 DEF FanoutInv
  <2>8. CASE finished' = "gone" /\ UNCHANGED update
    BY <2>2, <2>4, <2>8 DEF FanoutInv
  <2>. QED BY <1>3, <2>7, <2>8 DEF Answered
<1>4. ASSUME NEW l \in Leaders, NEW how \in {"omitted", "panicked"}, NotAnswered(l, how)
      PROVE  FanoutInv'
  <2>1. /\ finished = "open" /\ task[l] = "asked" /\ task' = [task EXCEPT ![l] = how]
        /\ UNCHANGED <<limit, matches, hits, total, deduped, update, finished>>
    BY <1>4 DEF NotAnswered
  <2>2. Asked' /\ With("answered")' = L
    BY <1>2, <2>1 DEF Asked, With
  <2>. HIDE DEF L
  <2>3. MergeOf(With("answered"), hits, total, deduped)'
    BY <1>2, <2>1, <2>2, MergeStays
  <2>. QED BY <2>1, <2>2, <2>3 DEF FanoutInv, L
<1>5. CASE Complete
  <2>1. /\ UNCHANGED <<limit, matches, task, hits, total, deduped>> /\ finished' = "complete"
        /\ finished = "open" /\ update' = snapshot(hits, total, deduped, Cardinality(L), TRUE)
    BY <1>5 DEF Complete
  <2>2. Asked' /\ With("answered")' = L /\ With("asked")' = {}
    BY <1>2, <1>5, <2>1 DEF Asked, With, Complete
  <2>. HIDE DEF L
  <2>3. MergeOf(With("answered"), hits, total, deduped)'
    BY <1>2, <2>1, <2>2, MergeStays
  <2>4. snapshot(hits, total, deduped, Cardinality(With("answered")), TRUE)' = update'
    BY <2>1, <2>2 DEF snapshot, build_manifest
  <2>5. update'.hits = hits /\ update'.answered = Cardinality(L)
    BY <2>1 DEF snapshot
  <2>6. hits \subseteq Hit /\ Cardinality(L) \in 0 .. Cardinality(Leaders)
    BY <2>1 DEF FanoutInv, L
  <2>. QED BY <2>1, <2>2, <2>3, <2>4, <2>5, <2>6 DEF FanoutInv
<1>6. CASE UNCHANGED fanout_vars
  <2>1. UNCHANGED <<limit, matches, task, hits, total, deduped, update, finished>>
    BY <1>6 DEF fanout_vars
  <2>2. Asked' /\ With("answered")' = L /\ With("asked")' = With("asked")
    BY <1>2, <2>1 DEF Asked, With
  <2>. HIDE DEF L
  <2>3. MergeOf(With("answered"), hits, total, deduped)'
    BY <1>2, <2>1, <2>2, MergeStays
  <2>. QED BY <2>1, <2>2, <2>3 DEF FanoutInv, snapshot, build_manifest, L
<1>. QED BY <1>3, <1>4, <1>5, <1>6 DEF FanoutNext

\* The merge's state is well typed on every query: a list of at most limit hits,
\* one per aircraft, and counters that never go below zero.
THEOREM FanoutTypeCorrect == FanoutSpec => []FanoutTypeOK
<1>1. FanoutInv => FanoutTypeOK
  <2>. SUFFICES ASSUME FanoutInv PROVE FanoutTypeOK
    OBVIOUS
  <2>1. With("answered") \in SUBSET Leaders /\ Asked /\ MergeOf(With("answered"), hits, total, deduped)
    BY DEF With, FanoutInv
  <2>2. hits \subseteq Hit
    BY <2>1, AnswersFacts DEF MergeOf
  <2>. QED BY <2>1, <2>2 DEF FanoutInv, FanoutTypeOK, Asked, Slices, MergeOf
<1>. QED BY <1>1, FanoutInitial, FanoutStep, PTL DEF FanoutSpec

\* The final update of a stream is the answer of the one-shot search, whatever
\* the order of the answers; on the way no aircraft is shown twice and, without
\* a limit, none is missing or stale.
THEOREM StreamAgreesAlways == FanoutSpec => []StreamAgrees
<1>1. FanoutInv => StreamAgrees
  <2>. SUFFICES ASSUME FanoutInv PROVE StreamAgrees
    OBVIOUS
  <2>. DEFINE L == With("answered")
              A == Answers(L)
  <2>1. L \in SUBSET Leaders /\ Asked /\ MergeOf(L, hits, total, deduped) /\ limit \in Nat
    BY LimitsAssumption DEF With, FanoutInv, Asked
  <2>2. Came = A
    BY DEF Came, Answers
  <2>3. Ranked(A) /\ Cardinality(A) \in Nat /\ IsFiniteSet(L) /\ Cardinality(L) \in Nat
    BY <2>1, AnswersFacts, FS_CardinalityType
  <2>4. /\ DOMAIN [l \in L |-> Response(l)] = L
        /\ [r \in DOMAIN [l \in L |-> Response(l)] |-> Cardinality([l \in L |-> Response(l)][r].hits)]
             = [l \in L |-> Cardinality(Response(l).hits)]
        /\ [r \in DOMAIN [l \in L |-> Response(l)] |-> [l \in L |-> Response(l)][r].total]
             = [l \in L |-> Response(l).total]
    OBVIOUS
  <2>5. /\ search.hits = Truncate(dedup_by_aircraft(A)) /\ search.total = Found(L)
        /\ search.manifest = build_manifest(Truncate(dedup_by_aircraft(A)),
                                            Sent(L) - Cardinality(dedup_by_aircraft(A)), Cardinality(L))
    BY <2>4 DEF search, SearchOf, merge_search_responses, Answers, Found, Sent
  <2>. HIDE DEF L, A
  <2>6. ASSUME limit = 0 \/ Disjoint
        PROVE  hits = Truncate(dedup_by_aircraft(A)) /\ deduped = Sent(L) - Cardinality(dedup_by_aircraft(A))
    <3>1. CASE limit = 0
      <4>1. Truncate(dedup_by_aircraft(A)) = dedup_by_aircraft(A)
        BY <3>1 DEF Truncate
      <4>. QED BY <2>1, <3>1, <4>1 DEF MergeOf, A
    <3>2. CASE limit # 0
      <4>1. dedup_by_aircraft(A) = A
        BY <2>1, <2>3, <2>6, <3>2, DisjointAnswers, DedupNothing DEF A, Ranked
      <4>. QED BY <2>1, <2>3, <2>6, <3>2, <4>1 DEF MergeOf, A
    <3>. QED BY <3>1, <3>2
  <2>7. ASSUME finished = "complete", limit = 0 \/ Disjoint
        PROVE  /\ update.hits = search.hits /\ update.total = search.total
               /\ update.manifest = {search.manifest}
    <3>1. update = snapshot(hits, total, deduped, Cardinality(L), TRUE)
      BY <2>7 DEF FanoutInv, L
    <3>2. total = Found(L)
      BY <2>1 DEF MergeOf
    <3>. QED BY <2>5, <2>6, <2>7, <3>1, <3>2 DEF snapshot
  <2>8. ASSUME limit = 0
        PROVE  /\ {h.icao24 : h \in Came} = {h.icao24 : h \in hits}
               /\ \A h \in hits, g \in Came : g.icao24 = h.icao24 => g.observed_at <= h.observed_at
    <3>1. hits = dedup_by_aircraft(A) /\ OnePerAircraft(hits) /\ hits \subseteq A
      BY <2>1, <2>8 DEF MergeOf, A
    <3>2. \A g \in A : \E f \in hits : f = g \/ Replaces(f, g)
      BY <2>3, <3>1, DedupKeeps
    <3>3. \A g \in A : g.observed_at \in Nat
      BY <2>3 DEF Ranked, Record
    <3>4. {h.icao24 : h \in A} = {h.icao24 : h \in hits}
      BY <3>1, <3>2 DEF Replaces
    <3>5. ASSUME NEW h \in hits, NEW g \in A, g.icao24 = h.icao24
          PROVE  g.observed_at <= h.observed_at
      <4>1. PICK f \in hits : f = g \/ Replaces(f, g)
        BY <3>2
      <4>2. f = h
        BY <3>1, <3>5, <4>1 DEF Replaces, OnePerAircraft
      <4>. QED BY <3>1, <3>3, <4>1, <4>2 DEF Replaces, supersedes
    <3>. QED BY <2>2, <3>4, <3>5
  <2>. QED BY <2>1, <2>7, <2>8 DEF StreamAgrees, MergeOf
<1>. QED BY <1>1, FanoutInitial, FanoutStep, PTL DEF FanoutSpec

\* What each update does to the one before it, on every query and for every set
\* of hits: an aircraft disappears only for a fresher copy or better aircraft.
THEOREM UpdatesImproveAlways == FanoutSpec => UpdatesImprove
<1>. DEFINE Improves ==
       /\ update.answered <= update'.answered
       /\ \A h \in update.hits \ update'.hits :
            \/ \E g \in Came' : g.icao24 = h.icao24 /\ supersedes(g, h)
            \/ \A g \in update'.hits : cmp_hits(g, h)
<1>1. FanoutInv /\ FanoutInv' /\ FanoutNext => Improves \/ UNCHANGED fanout_vars
  <2>. SUFFICES ASSUME FanoutInv, FanoutInv', FanoutNext PROVE Improves
    OBVIOUS
  <2>0. update.answered \in Nat /\ update'.answered \in Nat /\ Asked
    BY LeadersAssumption, FS_CardinalityType DEF FanoutInv
  <2>1. ASSUME UNCHANGED update PROVE Improves
    BY <2>0, <2>1
  <2>2. ASSUME NEW l \in Leaders, Answered(l),
               update' = snapshot(hits', total', deduped', Cardinality(With("answered")) + 1, FALSE)
        PROVE  Improves
    <3>. DEFINE R == Response(l).hits
                both == dedup_by_aircraft(hits \cup R)
                L == With("answered")
    <3>1. /\ finished = "open" /\ task[l] = "asked" /\ task' = [task EXCEPT ![l] = "answered"]
          /\ hits' = Truncate(both) /\ UNCHANGED <<limit, matches>>
      BY <2>2 DEF Answered, add
    <3>2. /\ update.hits = hits /\ update.answered = Cardinality(L)
          /\ update'.hits = hits' /\ update'.answered = Cardinality(L) + 1
      BY <2>2, <3>1 DEF FanoutInv, snapshot
    <3>3. L \in SUBSET Leaders /\ hits \subseteq Answers(L) /\ limit \in Nat
      BY LimitsAssumption DEF With, FanoutInv, MergeOf, Asked
    <3>4. With("answered")' = L \cup {l} /\ L \cup {l} \in SUBSET Leaders
      BY <2>0, <3>1, <3>3 DEF With, Asked
    <3>5. Came' = Answers(L \cup {l})
      <4>1. Came' = Answers(With("answered"))'
        BY DEF Came, Answers
      <4>2. Answers(With("answered"))' = Answers(With("answered")')
        BY <3>1, AnswersStay
      <4>. QED BY <3>4, <4>1, <4>2
    <3>. HIDE DEF L
    <3>6. Answers(L) \cup R \subseteq Came' /\ Ranked(Answers(L)) /\ Ranked(R)
      BY <2>0, <3>3, <3>4, <3>5, AnswersFacts, ResponseFacts
    <3>. HIDE DEF R
    <3>7. Ranked(hits) /\ Ranked(hits \cup R)
      <4>1. Ranked(hits)
        BY <3>3, <3>6, RankedSubset
      <4>. QED BY <3>6, <4>1, FS_Union DEF Ranked
    <3>8. both \subseteq hits \cup R /\ OnePerAircraft(both) /\ Ranked(both)
      <4>1. both \subseteq hits \cup R /\ OnePerAircraft(both)
        BY <3>7, DedupOne DEF Ranked
      <4>. HIDE DEF both
      <4>. QED BY <3>7, <4>1, RankedSubset
    <3>9. ASSUME NEW h \in hits, h \notin hits'
          PROVE  \/ \E g \in Came' : g.icao24 = h.icao24 /\ supersedes(g, h)
                 \/ \A g \in hits' : cmp_hits(g, h)
      <4>1. CASE h \in both
        <5>. HIDE DEF both
        <5>. QED BY <3>1, <3>3, <3>8, <3>9, <4>1, TruncateBetter
      <4>2. CASE h \notin both
        <5>1. PICK g \in hits \cup R : g.icao24 = h.icao24 /\ supersedes(g, h)
          BY <3>9, <4>2 DEF dedup_by_aircraft
        <5>2. g \in Came'
          BY <3>3, <3>6, <5>1
        <5>. QED BY <5>1, <5>2
      <4>. QED BY <4>1, <4>2
    <3>. QED BY <2>0, <3>2, <3>9
  <2>3. CASE Complete
    <3>1. update'.hits = update.hits /\ update'.answered = update.answered
      BY <2>3 DEF Complete, snapshot, FanoutInv
    <3>. QED BY <2>0, <3>1
  <2>. QED BY <2>1, <2>2, <2>3 DEF FanoutNext, Answered, NotAnswered
<1>. QED BY <1>1, FanoutInitial, FanoutStep, PTL DEF FanoutSpec, UpdatesImprove

-----------------------------------------------------------------------------
(* Federation                                                              *)

\* The one-shot answer of the leaders of L
LEMMA SearchFacts ==
  ASSUME NEW L
  PROVE  /\ SearchOf(L).hits = Truncate(dedup_by_aircraft(Answers(L)))
         /\ SearchOf(L).total = Found(L)
         /\ SearchOf(L).manifest = build_manifest(Truncate(dedup_by_aircraft(Answers(L))),
              Sent(L) - Cardinality(dedup_by_aircraft(Answers(L))), Cardinality(L))
<1>. DEFINE r == [l \in L |-> Response(l)]
<1>1. DOMAIN r = L /\ \A l \in L : r[l] = Response(l)
  OBVIOUS
<1>2. /\ [l \in DOMAIN r |-> Cardinality(r[l].hits)] = [l \in L |-> Cardinality(Response(l).hits)]
      /\ [l \in DOMAIN r |-> r[l].total] = [l \in L |-> Response(l).total]
  BY <1>1
<1>3. SearchOf(L) = merge_search_responses(r) /\ Answers(L) = Gathered(r)
  BY DEF SearchOf, Answers
<1>. HIDE DEF r
<1>. QED BY <1>1, <1>2, <1>3 DEF merge_search_responses, Sent, Found

\* Without copies every hit that was sent came once.
LEMMA SentOnce ==
  ASSUME Asked, Disjoint, NEW L \in SUBSET Leaders
  PROVE  Sent(L) = Cardinality(Answers(L))
<1>. DEFINE F == {K \in SUBSET Leaders : Sent(K) # Cardinality(Answers(K))}
<1>. SUFFICES ASSUME F # {} PROVE FALSE
  OBVIOUS
<1>1. PICK K \in F : \A M \in F : ~(M \subseteq K /\ M # K)
  <2>1. \A M \in F : IsFiniteSet(M)
    BY LeadersAssumption, FS_Subset
  <2>. HIDE DEF F
  <2>. QED BY <2>1, SmallestSet
<1>2. K \in SUBSET Leaders /\ Sent(K) # Cardinality(Answers(K))
  OBVIOUS
<1>3. CASE K = {}
  <2>1. Answers({}) = {}
    BY DEF Answers, Gathered
  <2>. HIDE DEF F
  <2>. QED BY <1>2, <1>3, <2>1, SumsFacts, FS_EmptySet
<1>4. CASE K # {}
  <2>1. PICK l \in K : TRUE
    BY <1>4
  <2>. DEFINE M == K \ {l}
              R == Response(l).hits
  <2>2. M \notin F /\ M \in SUBSET Leaders /\ l \in Leaders \ M /\ K = M \cup {l}
    BY <1>1, <1>2, <2>1
  <2>3. Sent(M) = Cardinality(Answers(M))
    BY <2>2
  <2>. HIDE DEF F, M
  <2>4. Sent(K) = Cardinality(R) + Sent(M)
    BY <2>2, SumsFacts
  <2>5. /\ Ranked(Answers(M)) /\ Ranked(R) /\ Cardinality(R) \in Nat
        /\ Cardinality(Answers(M)) \in Nat
    BY <2>2, AnswersFacts, ResponseFacts
  <2>6. Answers(K) = Answers(M) \cup R
    <3>1. \A h : h \in Answers(K) <=> h \in Answers(M) \/ h \in R
      BY <1>2, <2>2, AnswersFacts
    <3>. HIDE DEF R
    <3>. QED BY <3>1
  <2>7. Answers(M) \cap R = {}
    BY <2>2, DisjointAnswers
  <2>. HIDE DEF R
  <2>8. Cardinality(Answers(K)) = Cardinality(Answers(M)) + Cardinality(R) - Cardinality(Answers(M) \cap R)
    BY <2>5, <2>6, FS_Union DEF Ranked
  <2>9. Cardinality(Answers(M) \cap R) = 0
    BY <2>7, FS_EmptySet
  <2>. QED BY <1>2, <2>3, <2>4, <2>5, <2>8, <2>9
<1>. QED BY <1>3, <1>4

\* The sum over one or two clusters
LEMMA SumPair ==
  ASSUME NEW c, NEW d, NEW f, DOMAIN f = {c, d}, f[c] \in Int, f[d] \in Int
  PROVE  SumFunction(f) = f[c] + (IF c = d THEN 0 ELSE f[d])
<1>. DEFINE none == [x \in {} |-> 0]
            one == [x \in {c} |-> f[x]]
<1>1. DOMAIN none = {} /\ DOMAIN one = {c} /\ one[c] = f[c]
  OBVIOUS
<1>2. Integers(f, {c, d}) /\ Integers(one, {c})
  <2>1. IsFiniteSet({c}) /\ IsFiniteSet({c} \cup {d}) /\ {c, d} = {c} \cup {d}
    BY FS_Singleton, FS_AddElement
  <2>. QED BY <2>1 DEF Integers
<1>. HIDE DEF none, one
<1>3. SumFunction(one) = f[c]
  <2>1. SumFunction(none) = 0
    BY <1>1, SumNone
  <2>2. SumFunction(one) = one[c] + SumFunction(none)
    BY <1>1, <1>2, SumMore
  <2>. QED BY <1>1, <2>1, <2>2
<1>4. CASE c = d
  <2>1. f[c] = one[c] /\ DOMAIN f = {c}
    BY <1>1, <1>4
  <2>2. SumFunction(f) = f[c] + SumFunction(none)
    BY <1>1, <1>2, <1>4, <2>1, SumMore
  <2>3. SumFunction(none) = 0
    BY <1>1, SumNone
  <2>. QED BY <1>4, <2>2, <2>3
<1>5. CASE c # d
  <2>1. DOMAIN f = DOMAIN one \cup {d} /\ d \notin DOMAIN one /\ \A i \in DOMAIN one : f[i] = one[i]
    BY <1>1, <1>5
  <2>2. SumFunction(f) = f[d] + SumFunction(one)
    BY <1>2, <2>1, SumMore
  <2>. QED BY <1>3, <1>5, <2>2
<1>. QED BY <1>4, <1>5

\* The leaders of L in two parts
LEMMA SumsSplit ==
  ASSUME Asked, NEW L \in SUBSET Leaders, NEW c \in SUBSET L
  PROVE  /\ Sent(L) = Sent(c) + Sent(L \ c) /\ Found(L) = Found(c) + Found(L \ c)
         /\ Answers(L) = Answers(c) \cup Answers(L \ c)
<1>. DEFINE s(M) == [l \in M |-> Cardinality(Response(l).hits)]
            t(M) == [l \in M |-> Response(l).total]
            d == L \ c
<1>1. Integers(s(L), L) /\ Integers(t(L), L)
  BY ResponseFacts, AnswersFacts DEF Integers
<1>2. /\ \A x \in c : s(c)[x] = s(L)[x] /\ t(c)[x] = t(L)[x]
      /\ \A x \in L \ c : s(d)[x] = s(L)[x] /\ t(d)[x] = t(L)[x]
  OBVIOUS
<1>3. \A M : /\ DOMAIN s(M) = M /\ DOMAIN t(M) = M
             /\ Sent(M) = SumFunction(s(M)) /\ Found(M) = SumFunction(t(M))
  BY DEF Sent, Found
<1>4. \A h : h \in Answers(L) <=> h \in Answers(c) \/ h \in Answers(d)
  BY AnswersFacts
<1>5. Answers(L) = Answers(c) \cup Answers(d)
  <2>. HIDE DEF d
  <2>. QED BY <1>4
<1>6. DOMAIN s(d) = L \ c /\ DOMAIN t(d) = L \ c
  OBVIOUS
<1>. HIDE DEF s, t, d
<1>7. SumFunction(s(L)) = SumFunction(s(c)) + SumFunction(s(d))
  <2>1. /\ c \in SUBSET L /\ Integers(s(L), L)
        /\ DOMAIN s(L) = L /\ DOMAIN s(c) = c /\ DOMAIN s(d) = L \ c
        /\ \A x \in c : s(c)[x] = s(L)[x]
        /\ \A x \in L \ c : s(d)[x] = s(L)[x]
    BY <1>1, <1>2, <1>3, <1>6
  <2>. QED BY ONLY <2>1, SumParts
<1>8. SumFunction(t(L)) = SumFunction(t(c)) + SumFunction(t(d))
  <2>1. /\ c \in SUBSET L /\ Integers(t(L), L)
        /\ DOMAIN t(L) = L /\ DOMAIN t(c) = c /\ DOMAIN t(d) = L \ c
        /\ \A x \in c : t(c)[x] = t(L)[x]
        /\ \A x \in L \ c : t(d)[x] = t(L)[x]
    BY <1>1, <1>2, <1>3, <1>6
  <2>. QED BY ONLY <2>1, SumParts
<1>. QED BY <1>3, <1>5, <1>7, <1>8 DEF d

\* Two levels of merging, over any split of the shards that answered
LEMMA FederationMerge ==
  ASSUME Asked, limit = 0 \/ Disjoint, NEW L \in SUBSET Leaders, NEW c \in SUBSET L
  PROVE  LET clusters == {c, L \ c}
             out      == federate_search(clusters)
             inner    == SumFunction([k \in clusters |-> SearchOf(k).manifest.deduped])
         IN /\ out.hits = SearchOf(L).hits /\ out.total = SearchOf(L).total
            /\ out.manifest.freshest = SearchOf(L).manifest.freshest
            /\ out.manifest.stalest = SearchOf(L).manifest.stalest
            /\ out.manifest.deduped + inner = SearchOf(L).manifest.deduped
<1>. DEFINE d == L \ c
            clusters == {c, d}
            K(M) == dedup_by_aircraft(Answers(M))
            H(M) == Truncate(K(M))
            G == H(c) \cup H(d)
            r == [k \in clusters |-> SearchOf(k)]
            sizes == [k \in clusters |-> Cardinality(SearchOf(k).hits)]
            totals == [k \in clusters |-> SearchOf(k).total]
            drops == [k \in clusters |-> SearchOf(k).manifest.deduped]
            out == federate_search(clusters)
<1>0. limit \in Nat /\ d \in SUBSET Leaders /\ c \in SUBSET Leaders /\ (c = d => L = {} /\ c = {})
  BY LimitsAssumption DEF Asked
<1>1. \A M \in SUBSET Leaders : /\ Ranked(Answers(M)) /\ Ranked(K(M)) /\ Ranked(H(M))
                                /\ OnePerAircraft(K(M)) /\ H(M) \subseteq K(M) /\ K(M) \subseteq Answers(M)
                                /\ Cardinality(H(M)) \in Nat /\ Cardinality(K(M)) \in Nat
                                /\ Sent(M) \in Int /\ Found(M) \in Int
  <2>. TAKE M \in SUBSET Leaders
  <2>1. Ranked(Answers(M)) /\ Sent(M) \in Int /\ Found(M) \in Int
    BY AnswersFacts, SumsFacts
  <2>2. K(M) \subseteq Answers(M) /\ OnePerAircraft(K(M))
    BY <2>1, DedupOne DEF Ranked
  <2>3. H(M) \subseteq K(M)
    BY DEF Truncate
  <2>. HIDE DEF K, H
  <2>4. Ranked(K(M)) /\ Cardinality(K(M)) \in Nat
    BY <2>1, <2>2, RankedSubset
  <2>. QED BY <2>1, <2>2, <2>3, <2>4, RankedSubset
<1>2. \A M : /\ SearchOf(M).hits = H(M) /\ SearchOf(M).total = Found(M)
             /\ SearchOf(M).manifest = build_manifest(H(M), Sent(M) - Cardinality(K(M)), Cardinality(M))
  BY SearchFacts
<1>3. /\ DOMAIN r = clusters /\ r[c] = SearchOf(c) /\ r[d] = SearchOf(d)
      /\ [k \in DOMAIN r |-> Cardinality(r[k].hits)] = sizes
      /\ [k \in DOMAIN r |-> r[k].total] = totals
      /\ DOMAIN sizes = {c, d} /\ DOMAIN totals = {c, d} /\ DOMAIN drops = {c, d}
  OBVIOUS
<1>4. Gathered(r) = G
  BY <1>2, <1>3 DEF Gathered
<1>5. out = merge_search_responses(r)
  BY DEF federate_search
<1>6. /\ out.hits = Truncate(dedup_by_aircraft(G)) /\ out.total = SumFunction(totals)
      /\ out.manifest = build_manifest(Truncate(dedup_by_aircraft(G)),
           SumFunction(sizes) - Cardinality(dedup_by_aircraft(G)), Cardinality(clusters))
  <2>. HIDE DEF r, out, sizes, totals, G, clusters
  <2>. QED BY <1>3, <1>4, <1>5 DEF merge_search_responses
<1>7. \A shown, n, a : build_manifest(shown, n, a).deduped = n
  BY DEF build_manifest
<1>8. /\ sizes[c] = Cardinality(H(c)) /\ sizes[d] = Cardinality(H(d))
      /\ totals[c] = Found(c) /\ totals[d] = Found(d)
      /\ drops[c] = Sent(c) - Cardinality(K(c)) /\ drops[d] = Sent(d) - Cardinality(K(d))
  <2>. HIDE DEF K, H
  <2>. QED BY <1>2, <1>7
<1>9. /\ Sent(L) = Sent(c) + Sent(d) /\ Found(L) = Found(c) + Found(d)
      /\ Answers(L) = Answers(c) \cup Answers(d)
  BY SumsSplit
<1>. HIDE DEF d, clusters, K, H, r, sizes, totals, drops, out
<1>10. c = d => /\ Found(d) = 0 /\ Cardinality(H(d)) = 0 /\ Sent(d) = 0 /\ Cardinality(K(d)) = 0
  <2>1. Answers({}) = {}
    BY DEF Answers, Gathered
  <2>2. K({}) = {}
    BY <2>1 DEF K, dedup_by_aircraft
  <2>3. H({}) = {}
    BY <1>0, <1>1, <2>2
  <2>. QED BY <1>0, <2>2, <2>3, SumsFacts, FS_EmptySet
<1>11. /\ SumFunction(totals) = Found(L)
       /\ SumFunction(sizes) = Cardinality(H(c)) + Cardinality(H(d))
       /\ SumFunction(drops) = (Sent(c) - Cardinality(K(c))) + (Sent(d) - Cardinality(K(d)))
  <2>0. /\ Found(c) \in Int /\ Found(d) \in Int /\ Sent(c) \in Int /\ Sent(d) \in Int
        /\ Cardinality(H(c)) \in Int /\ Cardinality(H(d)) \in Int
        /\ Cardinality(K(c)) \in Int /\ Cardinality(K(d)) \in Int
    BY <1>0, <1>1
  <2>1. SumFunction(totals) = totals[c] + (IF c = d THEN 0 ELSE totals[d])
    <3>1. totals[c] \in Int /\ totals[d] \in Int /\ DOMAIN totals = {c, d}
      BY <1>3, <1>8, <2>0
    <3>. QED BY ONLY <3>1, SumPair
  <2>2. SumFunction(sizes) = sizes[c] + (IF c = d THEN 0 ELSE sizes[d])
    <3>1. sizes[c] \in Int /\ sizes[d] \in Int /\ DOMAIN sizes = {c, d}
      BY <1>3, <1>8, <2>0
    <3>. QED BY ONLY <3>1, SumPair
  <2>3. SumFunction(drops) = drops[c] + (IF c = d THEN 0 ELSE drops[d])
    <3>1. drops[c] \in Int /\ drops[d] \in Int
      BY <1>8, <2>0
    <3>. QED BY <1>3, <3>1, SumPair
  <2>. QED BY <1>8, <1>9, <1>10, <2>0, <2>1, <2>2, <2>3
<1>12. Ranked(G)
  BY <1>0, <1>1, FS_Union DEF Ranked
<1>13. /\ Truncate(dedup_by_aircraft(G)) = H(L)
       /\ (Cardinality(H(c)) + Cardinality(H(d)) - Cardinality(dedup_by_aircraft(G)))
            + ((Sent(c) - Cardinality(K(c))) + (Sent(d) - Cardinality(K(d))))
          = Sent(L) - Cardinality(K(L))
  <2>1. CASE limit = 0
    <3>1. H(c) = K(c) /\ H(d) = K(d)
      BY <2>1 DEF H, Truncate
    <3>2. dedup_by_aircraft(K(c) \cup K(d)) = dedup_by_aircraft(Answers(c) \cup K(d))
      BY <1>0, <1>1, DedupMerge DEF K
    <3>3. dedup_by_aircraft(K(d) \cup Answers(c)) = dedup_by_aircraft(Answers(d) \cup Answers(c))
      BY <1>0, <1>1, DedupMerge DEF K
    <3>4. /\ Answers(c) \cup K(d) = K(d) \cup Answers(c)
          /\ Answers(d) \cup Answers(c) = Answers(L)
      BY <1>9
    <3>5. dedup_by_aircraft(G) = K(L)
      BY <3>1, <3>2, <3>3, <3>4 DEF K
    <3>6. Cardinality(K(c)) \in Nat /\ Cardinality(K(d)) \in Nat /\ Cardinality(K(L)) \in Nat /\ Sent(c) \in Int /\ Sent(d) \in Int
      BY <1>0, <1>1
    <3>. HIDE DEF G
    <3>. QED BY <1>9, <3>1, <3>5, <3>6 DEF H
  <2>2. CASE limit # 0 /\ Disjoint
    <3>1. \A M \in SUBSET Leaders : /\ OnePerAircraft(Answers(M)) /\ K(M) = Answers(M)
                                    /\ Sent(M) = Cardinality(K(M))
      BY <1>1, <2>2, DisjointAnswers, DedupNothing, SentOnce DEF K, Ranked
    <3>2. G \subseteq Answers(L)
      BY <1>0, <1>1, <1>9
    <3>3. OnePerAircraft(G)
      BY <3>1, <3>2 DEF OnePerAircraft
    <3>4. dedup_by_aircraft(G) = G
      BY <1>12, <3>3, DedupNothing DEF Ranked
    <3>5. Truncate(Truncate(Answers(c)) \cup H(d)) = Truncate(Answers(c) \cup H(d))
      BY <1>0, <1>1, TruncateMerge
    <3>6. Truncate(Truncate(Answers(d)) \cup Answers(c)) = Truncate(Answers(d) \cup Answers(c))
      BY <1>0, <1>1, TruncateMerge
    <3>7. H(c) = Truncate(Answers(c)) /\ H(d) = Truncate(Answers(d)) /\ H(L) = Truncate(Answers(L))
      BY <1>0, <3>1 DEF H
    <3>8. Answers(c) \cup H(d) = H(d) \cup Answers(c) /\ Answers(d) \cup Answers(c) = Answers(L)
      BY <1>9
    <3>9. Truncate(G) = H(L)
      BY <3>5, <3>6, <3>7, <3>8
    <3>10. H(c) \cap H(d) = {}
      <4>. SUFFICES ASSUME NEW h \in H(c), h \in H(d) PROVE FALSE
        OBVIOUS
      <4>1. h \in Answers(c) /\ h \in Answers(d)
        BY <1>0, <1>1
      <4>2. PICK l \in c : h \in Response(l).hits
        BY <1>0, <4>1, AnswersFacts
      <4>3. l \in Leaders \ d
        BY DEF d
      <4>. QED BY <1>0, <2>2, <4>1, <4>2, <4>3, DisjointAnswers
    <3>11. Cardinality(G) = Cardinality(H(c)) + Cardinality(H(d)) - Cardinality(H(c) \cap H(d))
      BY <1>0, <1>1, FS_Union DEF Ranked
    <3>12. Cardinality(H(c) \cap H(d)) = 0
      BY <3>10, FS_EmptySet
    <3>13. /\ Sent(c) = Cardinality(K(c)) /\ Sent(d) = Cardinality(K(d)) /\ Sent(L) = Cardinality(K(L))
           /\ Cardinality(K(c)) \in Nat /\ Cardinality(K(d)) \in Nat /\ Cardinality(K(L)) \in Nat
           /\ Cardinality(H(c)) \in Nat /\ Cardinality(H(d)) \in Nat
      BY <1>0, <1>1, <3>1
    <3>. HIDE DEF G
    <3>14. Cardinality(G) = Cardinality(H(c)) + Cardinality(H(d))
      BY <3>11, <3>12, <3>13
    <3>. QED BY <3>4, <3>9, <3>13, <3>14
  <2>. QED BY <2>1, <2>2
<1>. HIDE DEF G
<1>14. /\ out.hits = SearchOf(L).hits /\ out.total = SearchOf(L).total
       /\ out.manifest.freshest = SearchOf(L).manifest.freshest
       /\ out.manifest.stalest = SearchOf(L).manifest.stalest
  <2>1. \A shown, n, a, m, b : /\ build_manifest(shown, n, a).freshest = build_manifest(shown, m, b).freshest
                               /\ build_manifest(shown, n, a).stalest = build_manifest(shown, m, b).stalest
    BY DEF build_manifest
  <2>2. /\ SearchOf(L).hits = H(L) /\ SearchOf(L).total = Found(L)
        /\ SearchOf(L).manifest = build_manifest(H(L), Sent(L) - Cardinality(K(L)), Cardinality(L))
    BY <1>2
  <2>3. /\ out.hits = H(L) /\ out.total = Found(L)
        /\ out.manifest = build_manifest(H(L),
             SumFunction(sizes) - Cardinality(dedup_by_aircraft(G)), Cardinality(clusters))
    BY <1>6, <1>11, <1>13
  <2>. QED BY ONLY <2>1, <2>2, <2>3
<1>15. out.manifest.deduped + SumFunction(drops) = SearchOf(L).manifest.deduped
  <2>1. SearchOf(L).manifest.deduped = Sent(L) - Cardinality(K(L))
    BY <1>2, <1>7
  <2>2. out.manifest.deduped = SumFunction(sizes) - Cardinality(dedup_by_aircraft(G))
    BY <1>6, <1>7
  <2>. DEFINE n == Cardinality(H(c)) + Cardinality(H(d)) - Cardinality(dedup_by_aircraft(G))
              m == (Sent(c) - Cardinality(K(c))) + (Sent(d) - Cardinality(K(d)))
              k == Sent(L) - Cardinality(K(L))
  <2>3. out.manifest.deduped = n /\ SumFunction(drops) = m /\ SearchOf(L).manifest.deduped = k
    <3>1. out.manifest.deduped = n
      <4>1. /\ Cardinality(H(c)) \in Nat /\ Cardinality(H(d)) \in Nat
            /\ SumFunction(sizes) = Cardinality(H(c)) + Cardinality(H(d))
        BY <1>0, <1>1, <1>11
      <4>2. Cardinality(dedup_by_aircraft(G)) \in Nat
        BY <1>12, DedupOne, RankedSubset DEF Ranked
      <4>. QED BY <2>2, <4>1, <4>2
    <3>2. SumFunction(drops) = m
      BY <1>11
    <3>. HIDE DEF n, m
    <3>. QED BY <2>1, <3>1, <3>2
  <2>4. n + m = k
    BY <1>13
  <2>. HIDE DEF n, m, k
  <2>. QED BY <2>3, <2>4
<1>. QED BY <1>14, <1>15 DEF out, drops, clusters, d

\* Splitting the shards over clusters changes nothing a caller can see, for
\* every set of hits and every split.
THEOREM FederationAgreesAlways == FanoutSpec => []FederationAgrees
<1>1. FanoutInv => FederationAgrees
  <2>. SUFFICES ASSUME FanoutInv, limit = 0 \/ Disjoint, NEW c \in SUBSET With("answered")
                PROVE  LET clusters == {c, With("answered") \ c}
                           out      == federate_search(clusters)
                           inner    == SumFunction([k \in clusters |-> SearchOf(k).manifest.deduped])
                       IN /\ out.hits = search.hits /\ out.total = search.total
                          /\ out.manifest.freshest = search.manifest.freshest
                          /\ out.manifest.stalest = search.manifest.stalest
                          /\ out.manifest.deduped + inner = search.manifest.deduped
    BY DEF FederationAgrees
  <2>1. Asked /\ With("answered") \in SUBSET Leaders
    BY DEF FanoutInv, With
  <2>. QED BY <2>1, FederationMerge DEF search
<1>. QED BY <1>1, FanoutInitial, FanoutStep, PTL DEF FanoutSpec

-----------------------------------------------------------------------------
(* Hybrid search                                                           *)

\* A product of positive numbers is positive, and each of them divides it.
LEMMA ProductFacts ==
  ASSUME NEW S, IsFiniteSet(S), S \subseteq Nat \ {0}
  PROVE  /\ ProductSet(S) \in Nat \ {0}
         /\ \A x \in S : \E q \in Nat \ {0} : ProductSet(S) = q * x
<1>. DEFINE Pos == Nat \ {0}
            c == [s \in SUBSET S |-> CHOOSE x \in s : TRUE]
            g == [p \in S \X Pos |-> p[1] * p[2]]
            Body(h) == h = [s \in SUBSET S |->
                         IF s = {} THEN 1
                         ELSE (CHOOSE x \in s : TRUE) * h[s \ {CHOOSE x \in s : TRUE}]]
            H == CHOOSE h : Body(h)
<1>1. Chooses(c, S)
  BY DEF Chooses
<1>2. g \in [S \X Pos -> Pos] /\ 1 \in Pos
  <2>1. \A p \in S \X Pos : p[1] * p[2] \in Pos
    <3>1. \A a, b \in Pos : a * b \in Pos
      OBVIOUS
    <3>. HIDE DEF Pos
    <3>. QED BY <3>1 DEF Pos
  <2>. QED BY <2>1
<1>3. PICK k \in [SUBSET S -> Pos] : Folds(k, g, 1, c, S)
  <2>. HIDE DEF g, c, Pos
  <2>. QED BY <1>1, <1>2, FoldExists
<1>4. Body(k)
  <2>1. \A s \in SUBSET S : k[s] = IF s = {} THEN 1
                                   ELSE (CHOOSE x \in s : TRUE) * k[s \ {CHOOSE x \in s : TRUE}]
    <3>. SUFFICES ASSUME NEW s \in SUBSET S
                  PROVE  k[s] = IF s = {} THEN 1
                                ELSE (CHOOSE x \in s : TRUE) * k[s \ {CHOOSE x \in s : TRUE}]
      OBVIOUS
    <3>1. CASE s = {}
      BY <1>3, <3>1 DEF Folds
    <3>2. CASE s # {}
      <4>1. c[s] \in S /\ s \ {c[s]} \in SUBSET S /\ k[s] = g[<<c[s], k[s \ {c[s]}]>>]
        BY <1>1, <1>3, <3>2 DEF Folds, Chooses
      <4>2. <<c[s], k[s \ {c[s]}]>> \in S \X Pos
        <5>. HIDE DEF c, Pos
        <5>. QED BY <1>3, <4>1
      <4>3. c[s] = CHOOSE x \in s : TRUE
        OBVIOUS
      <4>4. k[s] = c[s] * k[s \ {c[s]}]
        BY <4>1, <4>2
      <4>. QED BY <3>2, <4>3, <4>4
    <3>. QED BY <3>1, <3>2
  <2>. QED BY <2>1
<1>5. Body(H)
  BY <1>4
<1>6. ProductSet(S) = H[S]
  BY DEF ProductSet, FoldSet, MapThenFoldSet
<1>7. \A s \in SUBSET S : H[s] = IF s = {} THEN 1 ELSE c[s] * H[s \ {c[s]}]
  BY <1>5
<1>. HIDE DEF H, c
<1>8. \A s \in SUBSET S : H[s] \in Pos /\ \A x \in s : \E q \in Pos : H[s] = q * x
  <2>. DEFINE Good(s) == H[s] \in Pos /\ \A x \in s : \E q \in Pos : H[s] = q * x
              F == {s \in SUBSET S : ~Good(s)}
  <2>. SUFFICES ASSUME F # {} PROVE FALSE
    OBVIOUS
  <2>1. PICK s \in F : \A t \in F : ~(t \subseteq s /\ t # s)
    <3>1. \A t \in F : IsFiniteSet(t)
      BY FS_Subset
    <3>. HIDE DEF F
    <3>. QED BY <3>1, SmallestSet
  <2>2. s \in SUBSET S /\ ~Good(s)
    OBVIOUS
  <2>3. CASE s = {}
    BY <1>7, <2>2, <2>3
  <2>4. CASE s # {}
    <3>. DEFINE y == c[s]
                t == s \ {y}
    <3>1. y \in s /\ H[s] = y * H[t]
      BY <1>1, <1>7, <2>2, <2>4 DEF Chooses
    <3>2. Good(t)
      BY <2>1, <2>2, <3>1
    <3>3. y \in Nat \ {0} /\ H[t] \in Nat \ {0}
      BY <2>2, <3>1, <3>2
    <3>4. H[s] \in Nat \ {0}
      BY <3>1, <3>3
    <3>5. ASSUME NEW x \in s
          PROVE  \E q \in Pos : H[s] = q * x
      <4>1. CASE x = y
        <5>1. H[s] = H[t] * x
          BY <3>1, <3>3, <4>1
        <5>. QED BY <3>3, <5>1
      <4>2. CASE x # y
        <5>1. PICK q \in Nat \ {0} : H[t] = q * x
          BY <3>2, <4>2
        <5>2. x \in Nat \ {0}
          BY <2>2, <3>5
        <5>3. y * q \in Nat \ {0}
          BY <3>3, <5>1
        <5>4. H[s] = (y * q) * x
          BY <3>1, <3>3, <5>1, <5>2
        <5>. QED BY <5>3, <5>4
      <4>. QED BY <4>1, <4>2
    <3>. QED BY <2>2, <3>4, <3>5
  <2>. QED BY <2>3, <2>4
<1>. QED BY <1>6, <1>8

\* Exact quotients
LEMMA Divides ==
  ASSUME NEW q \in Nat \ {0}, NEW x \in Nat \ {0}
  PROVE  (q * x) \div x = q
<1>. DEFINE d == (q * x) \div x
<1>1. q * x \in Nat
  OBVIOUS
<1>2. d \in Int /\ x * d <= q * x /\ q * x < x * (d + 1)
  <2>. DEFINE m == q * x
  <2>1. m \in Nat
    BY <1>1
  <2>. HIDE DEF m
  <2>2. m \div x \in Int /\ x * (m \div x) <= m /\ m < x * ((m \div x) + 1)
    BY <2>1
  <2>. QED BY <2>2 DEF m
<1>. HIDE DEF d
<1>3. ASSUME NEW e \in Int, e > d
      PROVE  x * (d + 1) <= x * e
  <2>1. e - (d + 1) \in Nat
    BY <1>2, <1>3
  <2>2. x * (e - (d + 1)) >= 0
    BY <2>1
  <2>3. x * e = x * (e - (d + 1)) + x * (d + 1)
    BY <1>2, <1>3
  <2>. QED BY <1>2, <2>2, <2>3
<1>4. ASSUME NEW e \in Int, e < d
      PROVE  x * (e + 1) <= x * d
  <2>1. d - (e + 1) \in Nat
    BY <1>2, <1>4
  <2>2. x * (d - (e + 1)) >= 0
    BY <2>1
  <2>3. x * d = x * (d - (e + 1)) + x * (e + 1)
    BY <1>2, <1>4
  <2>. QED BY <1>2, <2>2, <2>3
<1>5. q * x = x * q /\ x * (q + 1) = x * q + x
  OBVIOUS
<1>6. ~(q > d) /\ ~(q < d)
  BY <1>1, <1>2, <1>3, <1>4, <1>5
<1>. QED BY <1>2, <1>6 DEF d

\* A better rank is worth strictly more, in whole units.
LEMMA RankWorth ==
  ASSUME NEW n \in Nat, NEW r \in 1 .. n
  PROVE  /\ Unit(n) \div (RRF_K + r) \in Nat \ {0}
         /\ \A s \in 1 .. n : r < s => Unit(n) \div (RRF_K + r) > Unit(n) \div (RRF_K + s)
<1>. DEFINE S == {RRF_K + i : i \in 1 .. n}
            U == Unit(n)
<1>0. RRF_K \in Nat
  BY IntervalAssumption
<1>1. IsFiniteSet(S) /\ S \subseteq Nat \ {0}
  <2>1. S \subseteq Nat \ {0} /\ \A x \in S : x <= RRF_K + n
    BY <1>0
  <2>2. RRF_K + n \in Nat
    BY <1>0
  <2>. HIDE DEF S
  <2>3. S \in SUBSET Nat
    BY <2>1
  <2>4. IsFiniteSet(S)
    BY <2>1, <2>2, <2>3, FS_BoundedSetOfNaturals
  <2>. QED BY <2>1, <2>4
<1>2. U = ProductSet(S)
  BY DEF Unit
<1>. HIDE DEF U
<1>3. \A i \in 1 .. n : \E q \in Nat \ {0} : U = q * (RRF_K + i)
  <2>1. \A i \in 1 .. n : RRF_K + i \in S
    OBVIOUS
  <2>. HIDE DEF S
  <2>. QED BY <1>1, <1>2, <2>1, ProductFacts
<1>4. ASSUME NEW i \in 1 .. n, NEW q \in Nat \ {0}, U = q * (RRF_K + i)
      PROVE  U \div (RRF_K + i) = q
  <2>1. RRF_K + i \in Nat \ {0}
    BY <1>0
  <2>. QED BY <1>4, <2>1, Divides
<1>5. PICK q \in Nat \ {0} : U = q * (RRF_K + r)
  BY <1>3
<1>6. U \div (RRF_K + r) = q
  BY <1>4, <1>5
<1>7. ASSUME NEW s \in 1 .. n, r < s
      PROVE  q > U \div (RRF_K + s)
  <2>1. PICK p \in Nat \ {0} : U = p * (RRF_K + s)
    BY <1>3
  <2>2. U \div (RRF_K + s) = p
    BY <1>4, <2>1
  <2>3. ASSUME p >= q PROVE FALSE
    <3>. DEFINE x == RRF_K + r
                y == s - r
                z == p - q
    <3>1. x \in Nat \ {0} /\ y \in Nat \ {0} /\ z \in Nat /\ RRF_K + s = x + y /\ p = q + z
      BY <1>0, <1>7, <2>3
    <3>. HIDE DEF x, y, z
    <3>2. (q + z) * (x + y) = q * x + (q * y + z * (x + y))
      BY <3>1
    <3>3. q * y > 0 /\ z * (x + y) >= 0 /\ q * y \in Int /\ z * (x + y) \in Int /\ q * x \in Int
      BY <3>1
    <3>4. U = q * x /\ U = (q + z) * (x + y)
      BY <1>5, <2>1, <3>1 DEF x
    <3>. QED BY <3>2, <3>3, <3>4
  <2>. QED BY <2>2, <2>3
<1>8. U \div (RRF_K + r) \in Nat \ {0} /\ \A s \in 1 .. n : r < s => U \div (RRF_K + r) > U \div (RRF_K + s)
  BY <1>6, <1>7
<1>. QED BY <1>8 DEF U

\* What a ranking of at most n hits gives an aircraft
Worth(S, n, a) ==
  IF \E h \in S : h.icao24 = a
  THEN Unit(n) \div (RRF_K + Rank(S, CHOOSE h \in S : h.icao24 = a))
  ELSE 0

LEMMA RankBounds ==
  ASSUME NEW S, Ranked(S), NEW h \in S
  PROVE  Rank(S, h) \in 1 .. Cardinality(S)
<1>. DEFINE B == Better(S, h)
<1>1. B \subseteq S /\ h \notin B /\ Rank(S, h) = 1 + Cardinality(B)
  BY CmpOrder DEF Better, Ranked, Rank
<1>. HIDE DEF B
<1>2. Cardinality(B) \in Nat /\ Cardinality(S) \in Nat /\ Cardinality(B) <= Cardinality(S)
  BY <1>1, RankedSubset
<1>3. Cardinality(B) # Cardinality(S)
  BY <1>1, FS_Subset DEF Ranked
<1>. QED BY <1>1, <1>2, <1>3

LEMMA WorthFacts ==
  ASSUME NEW S, Ranked(S), NEW n \in Nat, Cardinality(S) <= n, NEW a, NEW b
  PROVE  /\ Worth(S, n, a) \in Nat /\ Worth(S, n, b) \in Nat
         /\ Place(S, a) \in Nat /\ Place(S, b) \in Nat
         /\ Place(S, a) <= Place(S, b) => Worth(S, n, a) >= Worth(S, n, b)
         /\ Place(S, a) < Place(S, b) => Worth(S, n, a) > Worth(S, n, b)
<1>. DEFINE In(x) == \E h \in S : h.icao24 = x
            R(x) == Rank(S, CHOOSE h \in S : h.icao24 = x)
            Q(r) == Unit(n) \div (RRF_K + r)
<1>1. Cardinality(S) \in Nat
  BY RankedSubset
<1>2. \A x : In(x) => R(x) \in 1 .. Cardinality(S)
  BY RankBounds
<1>3. \A x : In(x) => R(x) \in 1 .. n /\ R(x) < Cardinality(S) + 1
  <2>. HIDE DEF In, R
  <2>. QED BY <1>1, <1>2
<1>4. \A x : /\ Worth(S, n, x) = IF In(x) THEN Q(R(x)) ELSE 0
             /\ Place(S, x) = IF In(x) THEN R(x) ELSE Cardinality(S) + 1
  BY DEF Worth, Place
<1>5. \A r \in 1 .. n : Q(r) \in Nat \ {0} /\ \A s \in 1 .. n : r < s => Q(r) > Q(s)
  BY RankWorth
<1>. HIDE DEF In, R, Q
<1>. QED BY <1>1, <1>3, <1>4, <1>5

\* A ranking with one hit per aircraft, fused with another
LEMMA HybridMerge ==
  ASSUME limit \in Nat, NEW kw, Ranked(kw), OnePerAircraft(kw),
         NEW vec, Ranked(vec), OnePerAircraft(vec)
  PROVE  LET shown == rrf_fuse(kw, vec)
             all   == {h.icao24 : h \in kw \cup vec}
             At(a) == <<Place(kw, a), Place(vec, a)>>
             Beats(a, b) == At(a)[1] <= At(b)[1] /\ At(a)[2] <= At(b)[2] /\ At(a) # At(b)
         IN /\ OnePerAircraft(shown)
            /\ limit = 0 => {h.icao24 : h \in shown} = all
            /\ \A a \in all, h \in shown : Beats(a, h.icao24) =>
                 \E g \in shown : g.icao24 = a /\ cmp_hits(g, h)
<1>. DEFINE n == Cardinality(kw) + Cardinality(vec)
            all == {h.icao24 : h \in kw \cup vec}
            W(a) == Worth(kw, n, a) + Worth(vec, n, a)
            Hits(a) == IF \E h \in kw : h.icao24 = a
                       THEN {h \in kw : h.icao24 = a} ELSE {h \in vec : h.icao24 = a}
            Picked == UNION {Hits(a) : a \in {g.icao24 : g \in kw \cup vec}}
            f == [h \in Picked |-> [h EXCEPT !.score = Fused(kw, vec, h.icao24)]]
            F == {f[h] : h \in Picked}
<1>1. n \in Nat /\ Cardinality(kw) <= n /\ Cardinality(vec) <= n
  BY RankedSubset
<1>2. \A a : Fused(kw, vec, a) = W(a)
  BY DEF Fused, Worth
<1>3. \A a : W(a) \in Nat
  <2>. HIDE DEF n
  <2>. QED BY <1>1, WorthFacts
<1>4. Picked \subseteq kw \cup vec /\ OnePerAircraft(Picked) /\ {h.icao24 : h \in Picked} = all
  <2>1. \A h : h \in Picked <=> h \in kw \/ (h \in vec /\ ~\E g \in kw : g.icao24 = h.icao24)
    OBVIOUS
  <2>. HIDE DEF Picked
  <2>2. Picked \subseteq kw \cup vec
    BY <2>1
  <2>3. OnePerAircraft(Picked)
    BY <2>1 DEF OnePerAircraft
  <2>4. \A g \in kw \cup vec : \E h \in Picked : h.icao24 = g.icao24
    BY <2>1
  <2>. QED BY <2>2, <2>3, <2>4
<1>. HIDE DEF Picked
<1>5. Picked \subseteq Record /\ IsFiniteSet(Picked)
  BY <1>4, FS_Union, FS_Subset DEF Ranked
<1>6. \A h \in Picked : /\ f[h] \in Record /\ f[h].icao24 = h.icao24 /\ f[h].score = W(h.icao24)
  <2>. HIDE DEF W
  <2>. QED BY <1>2, <1>3, <1>5 DEF Record
<1>7. rrf_fuse(kw, vec) = Truncate(F)
  BY DEF rrf_fuse, Picked
<1>8. Ranked(F)
  <2>1. f \in Surjection(Picked, F)
    BY DEF Surjection
  <2>2. F \subseteq Record
    BY <1>6
  <2>. HIDE DEF F, f
  <2>. QED BY <1>5, <2>1, <2>2, FS_Surjection DEF Ranked
<1>. HIDE DEF f
<1>9. OnePerAircraft(F) /\ \A g \in F : g.score = W(g.icao24)
  BY <1>4, <1>6 DEF OnePerAircraft
<1>10. {g.icao24 : g \in F} = all
  <2>1. \A g \in F : \E h \in Picked : g.icao24 = h.icao24
    BY <1>6
  <2>2. \A h \in Picked : \E g \in F : g.icao24 = h.icao24
    BY <1>6
  <2>. HIDE DEF F, all
  <2>3. {g.icao24 : g \in F} = {h.icao24 : h \in Picked}
    BY <2>1, <2>2
  <2>. QED BY <1>4, <2>3
<1>. HIDE DEF F, W, all
<1>11. Truncate(F) \subseteq F
  BY DEF Truncate
<1>12. OnePerAircraft(Truncate(F))
  BY <1>9, <1>11 DEF OnePerAircraft
<1>13. limit = 0 => {g.icao24 : g \in Truncate(F)} = all
  BY <1>10 DEF Truncate
<1>14. ASSUME NEW a \in all, NEW h \in Truncate(F),
              Place(kw, a) <= Place(kw, h.icao24), Place(vec, a) <= Place(vec, h.icao24),
              <<Place(kw, a), Place(vec, a)>> # <<Place(kw, h.icao24), Place(vec, h.icao24)>>
       PROVE  \E g \in Truncate(F) : g.icao24 = a /\ cmp_hits(g, h)
  <2>. DEFINE b == h.icao24
  <2>1. PICK g \in F : g.icao24 = a
    BY <1>10
  <2>2. W(a) > W(b)
    <3>. HIDE DEF n, b
    <3>1. /\ Worth(kw, n, a) \in Nat /\ Worth(kw, n, b) \in Nat
          /\ Place(kw, a) \in Nat /\ Place(kw, b) \in Nat
          /\ Place(kw, a) <= Place(kw, b) => Worth(kw, n, a) >= Worth(kw, n, b)
          /\ Place(kw, a) < Place(kw, b) => Worth(kw, n, a) > Worth(kw, n, b)
      BY <1>1, WorthFacts
    <3>2. /\ Worth(vec, n, a) \in Nat /\ Worth(vec, n, b) \in Nat
          /\ Place(vec, a) \in Nat /\ Place(vec, b) \in Nat
          /\ Place(vec, a) <= Place(vec, b) => Worth(vec, n, a) >= Worth(vec, n, b)
          /\ Place(vec, a) < Place(vec, b) => Worth(vec, n, a) > Worth(vec, n, b)
      BY <1>1, WorthFacts
    <3>3. /\ Place(kw, a) <= Place(kw, b) /\ Place(vec, a) <= Place(vec, b)
          /\ Place(kw, a) # Place(kw, b) \/ Place(vec, a) # Place(vec, b)
      BY <1>14 DEF b
    <3>. QED BY <3>1, <3>2, <3>3 DEF W
  <2>3. h \in F /\ h.score = W(b) /\ g.score = W(a) /\ h \in Record /\ g \in Record
    BY <1>8, <1>9, <1>11, <2>1 DEF Ranked
  <2>4. cmp_hits(g, h) /\ ~cmp_hits(h, g)
    <3>1. h.score \in Nat /\ g.score \in Nat /\ g.score > h.score
      BY <2>2, <2>3 DEF Record
    <3>. QED BY <3>1 DEF cmp_hits
  <2>5. g \in Truncate(F)
    BY <1>8, <1>9, <2>1, <2>3, <2>4, TruncateBetter
  <2>. QED BY <2>1, <2>4, <2>5
<1>. QED BY <1>7, <1>12, <1>13, <1>14 DEF all

\* Hybrid search is fair to both rankings, for every set of hits, every damping
\* constant and every limit.
THEOREM HybridFairAlways == FanoutSpec => []HybridFair
<1>1. FanoutInv => HybridFair
  <2>. SUFFICES ASSUME FanoutInv PROVE HybridFair
    OBVIOUS
  <2>1. With("answered") \in SUBSET Leaders /\ Asked /\ limit \in Nat
    BY LimitsAssumption DEF FanoutInv, With, Asked
  <2>2. Came = Answers(With("answered"))
    BY DEF Came, Answers
  <2>3. Ranked(Came)
    BY <2>1, <2>2, AnswersFacts
  <2>4. OnePerAircraft(MergedKeyword) /\ MergedKeyword \subseteq Came
    BY <2>3, DedupOne DEF MergedKeyword, Ranked
  <2>5. Ranked(MergedKeyword)
    BY <2>3, <2>4, RankedSubset
  <2>6. ASSUME NEW vec \in {S \in SUBSET VectorHit : IsFiniteSet(S) /\ OnePerAircraft(S)}
        PROVE  LET shown == hybrid_search(vec, task).hits
                   all   == {h.icao24 : h \in MergedKeyword \cup vec}
                   At(a) == <<Place(MergedKeyword, a), Place(vec, a)>>
                   Beats(a, b) == At(a)[1] <= At(b)[1] /\ At(a)[2] <= At(b)[2] /\ At(a) # At(b)
               IN /\ OnePerAircraft(shown)
                  /\ limit = 0 => {h.icao24 : h \in shown} = all
                  /\ \A a \in all, h \in shown : Beats(a, h.icao24) =>
                       \E g \in shown : g.icao24 = a /\ cmp_hits(g, h)
    <3>1. Ranked(vec) /\ OnePerAircraft(vec)
      BY <2>6, VectorHitAssumption DEF Ranked, Record
    <3>2. hybrid_search(vec, task).hits = rrf_fuse(MergedKeyword, vec)
      BY DEF hybrid_search
    <3>. DEFINE Fair(shown) ==
           LET all   == {h.icao24 : h \in MergedKeyword \cup vec}
               At(a) == <<Place(MergedKeyword, a), Place(vec, a)>>
               Beats(a, b) == At(a)[1] <= At(b)[1] /\ At(a)[2] <= At(b)[2] /\ At(a) # At(b)
           IN /\ OnePerAircraft(shown)
              /\ limit = 0 => {h.icao24 : h \in shown} = all
              /\ \A a \in all, h \in shown : Beats(a, h.icao24) =>
                   \E g \in shown : g.icao24 = a /\ cmp_hits(g, h)
    <3>3. Fair(rrf_fuse(MergedKeyword, vec))
      BY <2>1, <2>4, <2>5, <3>1, HybridMerge
    <3>4. Fair(hybrid_search(vec, task).hits)
      <4>. HIDE DEF Fair
      <4>. QED BY <3>2, <3>3
    <3>. QED BY <3>4
  <2>. QED BY <2>6 DEF HybridFair
<1>. QED BY <1>1, FanoutInitial, FanoutStep, PTL DEF FanoutSpec

\* Hybrid search counts the shards that answered both modalities, whichever of
\* the others was omitted by one of them or by both.
THEOREM HybridCoverage == FanoutSpec => []HybridCovered
<1>1. FanoutInv => HybridCovered
  <2>. SUFFICES ASSUME FanoutInv, finished = "complete",
                       NEW vtask \in [Leaders -> {"answered", "omitted", "panicked"}],
                       \A l \in Leaders : task[l] # "panicked" /\ vtask[l] # "panicked"
                PROVE  LET both == {l \in Leaders : task[l] = "answered" /\ vtask[l] = "answered"}
                           out  == hybrid_search({}, vtask)
                       IN /\ out.manifest.answered = Cardinality(both)
                          /\ out.omitted = Leaders \ both
    BY DEF HybridCovered
  <2>. DEFINE both == {l \in Leaders : task[l] = "answered" /\ vtask[l] = "answered"}
              O == With("omitted") \cup {l \in Leaders : vtask[l] = "omitted"}
  <2>1. /\ hybrid_search({}, vtask).manifest.answered = Cardinality(Leaders) - Cardinality(O)
        /\ hybrid_search({}, vtask).omitted = O
    BY DEF hybrid_search, build_manifest
  <2>2. \A l \in Leaders : task[l] \in {"answered", "omitted"} /\ vtask[l] \in {"answered", "omitted"}
    BY DEF FanoutInv, Asked, With
  <2>3. O = Leaders \ both /\ O \subseteq Leaders /\ both = Leaders \ O
    BY <2>2 DEF With
  <2>. HIDE DEF O, both
  <2>4. Cardinality(Leaders \ O) = Cardinality(Leaders) - Cardinality(Leaders \cap O) /\ Leaders \cap O = O
    BY <2>3, LeadersAssumption, FS_Difference
  <2>. QED BY <2>1, <2>3, <2>4 DEF both
<1>. QED BY <1>1, FanoutInitial, FanoutStep, PTL DEF FanoutSpec

-----------------------------------------------------------------------------
(* Loops                                                                   *)

\* What every turn of a loop keeps holds at its end.
LEMMA LoopKeeps ==
  ASSUME NEW n \in Nat, NEW f, NEW P, f[0] \in P[0],
         \A i \in 1 .. n : f[i - 1] \in P[i - 1] => f[i] \in P[i]
  PROVE  \A i \in 0 .. n : f[i] \in P[i]
<1>. DEFINE D == {i \in Nat : i <= n => f[i] \in P[i]}
<1>1. 0 \in D
  OBVIOUS
<1>2. ASSUME NEW i \in Nat, i \in D PROVE i + 1 \in D
  <2>. SUFFICES ASSUME i + 1 <= n PROVE f[i + 1] \in P[i + 1]
    OBVIOUS
  <2>1. f[i] \in P[i] /\ i + 1 \in 1 .. n /\ (i + 1) - 1 = i
    BY <1>2
  <2>. QED BY <2>1
<1>. HIDE DEF D
<1>3. Nat \subseteq D
  BY <1>1, <1>2, AllNumbers
<1>. QED BY <1>3 DEF D

\* h goes through the n turns g of a loop.
Loops(h, g, base, n) == h = [i \in 0 .. n |-> IF i = 0 THEN base ELSE g[i][h[i - 1]]]

LEMMA LoopExists ==
  ASSUME NEW n \in Nat, NEW g, NEW base
  PROVE  \E h : Loops(h, g, base, n)
<1>. DEFINE D == {m \in Nat : \E h : Loops(h, g, base, m)}
<1>1. 0 \in D
  <2>. DEFINE h == [i \in 0 .. 0 |-> base]
  <2>1. Loops(h, g, base, 0)
    BY DEF Loops
  <2>. QED BY <2>1
<1>2. ASSUME NEW m \in Nat, m \in D PROVE m + 1 \in D
  <2>1. PICK h : Loops(h, g, base, m)
    BY <1>2
  <2>. DEFINE k == [i \in 0 .. m + 1 |-> IF i = 0 THEN base ELSE g[i][h[i - 1]]]
  <2>2. \A i \in 0 .. m : k[i] = h[i]
    BY <2>1 DEF Loops
  <2>3. \A i \in 0 .. m + 1 : i = 0 \/ i - 1 \in 0 .. m
    OBVIOUS
  <2>4. \A i \in 0 .. m + 1 : k[i] = IF i = 0 THEN base ELSE g[i][k[i - 1]]
    BY <2>2, <2>3
  <2>5. Loops(k, g, base, m + 1)
    BY <2>4 DEF Loops
  <2>. QED BY <2>5
<1>. HIDE DEF D
<1>3. Nat \subseteq D
  BY <1>1, <1>2, AllNumbers
<1>. QED BY <1>3 DEF D

\* So a loop whose turns g take P[i - 1] into P[i] ends, in P[n].
LEMMA LoopEnds ==
  ASSUME NEW n \in Nat, NEW g, NEW P, NEW base \in P[0],
         \A i \in 1 .. n : \A a \in P[i - 1] : g[i][a] \in P[i]
  PROVE  \E h : Loops(h, g, base, n) /\ \A i \in 0 .. n : h[i] \in P[i]
<1>1. PICK h : Loops(h, g, base, n)
  BY LoopExists
<1>2. h[0] = base /\ \A i \in 1 .. n : h[i] = g[i][h[i - 1]]
  BY <1>1 DEF Loops
<1>3. \A i \in 0 .. n : h[i] \in P[i]
  BY <1>2, LoopKeeps
<1>. QED BY <1>1, <1>3

-----------------------------------------------------------------------------
(* The statistics of the keyword index                                     *)

\* The postings are those of the documents in the slots L.
PostingsOf(postings, docs, L) ==
  /\ postings \in [Terms -> SUBSET [doc_id : Nat, term_freq : Nat]]
  /\ \A t \in Terms : \A p : p \in postings[t] <=>
       \E s \in L : /\ Freq[docs[s].text][t] > 0
                    /\ p = [doc_id |-> s, term_freq |-> Freq[docs[s].text][t]]

LengthOf(docs, L) == SumFunction([s \in L |-> DocLen(docs[s].text)])

LEMMA DocLenType ==
  ASSUME NEW x \in Texts
  PROVE  DocLen(x) \in Int
<1>. DEFINE f == [t \in Posted(x) |-> Freq[x][t]]
<1>1. Integers(f, Posted(x)) /\ DOMAIN f = Posted(x)
  BY FreqAssumption DEF Integers, Posted
<1>. HIDE DEF f
<1>2. SumFunction(f) \in Int
  BY <1>1, SumType
<1>. QED BY <1>2 DEF f, DocLen

Texted(docs, L) == \A s \in L : docs[s].text \in Texts

LEMMA PostingsAdd ==
  ASSUME NEW postings, NEW docs, NEW L, L \subseteq Nat, Texted(docs, L), PostingsOf(postings, docs, L),
         NEW slot \in Nat, NEW doc, doc.text \in Texts, slot \notin L,
         NEW after, after[slot] = doc, \A s \in L : after[s] = docs[s]
  PROVE  PostingsOf(AddPostings(postings, slot, doc), after, L \cup {slot})
<1>. DEFINE new == AddPostings(postings, slot, doc)
<1>1. \A t \in Terms : Freq[doc.text][t] \in Nat
  BY FreqAssumption
<1>2. \A t \in Terms : new[t] = IF Freq[doc.text][t] > 0
                                THEN postings[t] \cup {[doc_id |-> slot, term_freq |-> Freq[doc.text][t]]}
                                ELSE postings[t]
  BY DEF AddPostings, Posted
<1>3. new \in [Terms -> SUBSET [doc_id : Nat, term_freq : Nat]]
  BY <1>1 DEF AddPostings, PostingsOf
<1>. HIDE DEF new
<1>4. ASSUME NEW t \in Terms, NEW p
      PROVE  p \in new[t] <=> \E s \in L \cup {slot} :
               /\ Freq[after[s].text][t] > 0
               /\ p = [doc_id |-> s, term_freq |-> Freq[after[s].text][t]]
  <2>. DEFINE Is(s, d) == Freq[d.text][t] > 0 /\ p = [doc_id |-> s, term_freq |-> Freq[d.text][t]]
  <2>1. p \in postings[t] <=> \E s \in L : Is(s, docs[s])
    BY DEF PostingsOf
  <2>2. p \in new[t] <=> p \in postings[t] \/ Is(slot, doc)
    BY <1>1, <1>2
  <2>. HIDE DEF Is
  <2>3. p \in new[t] <=> \E s \in L \cup {slot} : Is(s, after[s])
    BY <2>1, <2>2
  <2>. QED BY <2>3 DEF Is
<1>5. PostingsOf(new, after, L \cup {slot})
  BY <1>3, <1>4 DEF PostingsOf
<1>. QED BY <1>5 DEF new

LEMMA PostingsRemove ==
  ASSUME NEW postings, NEW docs, NEW L, L \subseteq Nat, Texted(docs, L), PostingsOf(postings, docs, L),
         NEW slot \in L, NEW after, \A s \in L \ {slot} : after[s] = docs[s]
  PROVE  PostingsOf(remove_postings(postings, slot, docs[slot]), after, L \ {slot})
<1>. DEFINE new == remove_postings(postings, slot, docs[slot])
<1>2. \A t \in Terms : new[t] = IF Freq[docs[slot].text][t] > 0
                                THEN {p \in postings[t] : p.doc_id # slot}
                                ELSE postings[t]
  BY DEF remove_postings, Posted
<1>3. new \in [Terms -> SUBSET [doc_id : Nat, term_freq : Nat]]
  BY DEF remove_postings, PostingsOf
<1>. HIDE DEF new
<1>4. ASSUME NEW t \in Terms, NEW p
      PROVE  p \in new[t] <=> \E s \in L \ {slot} :
               /\ Freq[after[s].text][t] > 0
               /\ p = [doc_id |-> s, term_freq |-> Freq[after[s].text][t]]
  <2>. DEFINE Is(s, d) == Freq[d.text][t] > 0 /\ p = [doc_id |-> s, term_freq |-> Freq[d.text][t]]
  <2>1. p \in postings[t] <=> \E s \in L : Is(s, docs[s])
    BY DEF PostingsOf
  <2>2. \A s \in L : Is(s, docs[s]) => p.doc_id = s
    OBVIOUS
  <2>3. p \in new[t] <=> p \in postings[t] /\ ~Is(slot, docs[slot])
    <3>1. CASE Freq[docs[slot].text][t] > 0
      <4>1. ASSUME p \in postings[t], p.doc_id = slot PROVE Is(slot, docs[slot])
        <5>1. PICK s \in L : Is(s, docs[s])
          BY <2>1, <4>1
        <5>2. s = slot
          BY <2>2, <4>1, <5>1
        <5>. QED BY <5>1, <5>2
      <4>. QED BY <1>2, <2>2, <3>1, <4>1
    <3>2. CASE ~(Freq[docs[slot].text][t] > 0)
      BY <1>2, <3>2
    <3>. QED BY <3>1, <3>2
  <2>. HIDE DEF Is
  <2>4. p \in new[t] <=> \E s \in L \ {slot} : Is(s, after[s])
    BY <2>1, <2>2, <2>3
  <2>. QED BY <2>4 DEF Is
<1>5. PostingsOf(new, after, L \ {slot})
  BY <1>3, <1>4 DEF PostingsOf
<1>. QED BY <1>5 DEF new

LEMMA LengthAdd ==
  ASSUME NEW docs, NEW L, IsFiniteSet(L), Texted(docs, L),
         NEW slot, NEW doc, doc.text \in Texts, slot \notin L,
         NEW after, after[slot] = doc, \A s \in L : after[s] = docs[s]
  PROVE  /\ LengthOf(after, L \cup {slot}) = LengthOf(docs, L) + DocLen(doc.text)
         /\ LengthOf(docs, L) \in Int /\ DocLen(doc.text) \in Int
<1>. DEFINE f == [s \in L |-> DocLen(docs[s].text)]
            g == [s \in L \cup {slot} |-> DocLen(after[s].text)]
<1>1. Integers(g, DOMAIN g) /\ Integers(f, DOMAIN f) /\ DocLen(doc.text) \in Int
  BY DocLenType, FS_AddElement DEF Integers, Texted
<1>2. DOMAIN f = L /\ DOMAIN g = L \cup {slot} /\ \A i \in DOMAIN f : g[i] = f[i] /\ g[slot] = DocLen(doc.text)
  OBVIOUS
<1>3. LengthOf(docs, L) = SumFunction(f) /\ LengthOf(after, L \cup {slot}) = SumFunction(g)
  BY DEF LengthOf
<1>4. g[slot] = DocLen(doc.text)
  OBVIOUS
<1>. HIDE DEF f, g
<1>5. SumFunction(g) = g[slot] + SumFunction(f)
  BY <1>1, <1>2, SumMore
<1>6. SumFunction(f) \in Int
  BY <1>1, SumType
<1>. QED BY <1>1, <1>3, <1>4, <1>5, <1>6

-----------------------------------------------------------------------------
(* Vectors                                                                 *)

LEMMA VecSet ==
  ASSUME NEW S, NEW s \in Seq(S), NEW i \in DOMAIN s, NEW e \in S, NEW t, t = [s EXCEPT ![i] = e]
  PROVE  /\ t \in Seq(S) /\ DOMAIN t = DOMAIN s /\ t[i] = e
         /\ \A j \in DOMAIN s : j # i => t[j] = s[j]
OBVIOUS

LEMMA VecPush ==
  ASSUME NEW S, NEW s \in Seq(S), NEW e \in S, NEW t, t = Append(s, e), NEW i, i = Len(s) + 1
  PROVE  /\ t \in Seq(S) /\ DOMAIN t = DOMAIN s \cup {i} /\ t[i] = e
         /\ \A j \in DOMAIN s : t[j] = s[j]
         /\ i \in Nat /\ i \notin DOMAIN s /\ Len(t) = i
OBVIOUS

LEMMA VecPop ==
  ASSUME NEW s \in Seq(Nat), s # <<>>
  PROVE  /\ Front(s) \in Seq(Nat) /\ Len(s) \in DOMAIN s /\ Last(s) = s[Len(s)]
         /\ DOMAIN Front(s) = DOMAIN s \ {Len(s)}
         /\ \A j \in DOMAIN Front(s) : Front(s)[j] = s[j]
<1>. DEFINE n == Len(s)
<1>1. n \in Nat /\ n > 0 /\ DOMAIN s = 1 .. n
  OBVIOUS
<1>2. /\ SubSeq(s, 1, n - 1) \in Seq(Nat) /\ Len(SubSeq(s, 1, n - 1)) = n - 1
      /\ \A j \in 1 .. n - 1 : SubSeq(s, 1, n - 1)[j] = s[j]
  BY <1>1
<1>. QED BY <1>1, <1>2 DEF Front, Last

LEMMA VecDomain ==
  ASSUME NEW S, NEW s \in Seq(S)
  PROVE  DOMAIN s \subseteq Nat /\ IsFiniteSet(DOMAIN s) /\ \A i \in DOMAIN s : s[i] \in S
<1>1. DOMAIN s = 1 .. Len(s) /\ Len(s) \in Nat
  OBVIOUS
<1>2. IsFiniteSet(1 .. Len(s))
  BY <1>1, FS_Interval
<1>. QED BY <1>1, <1>2

-----------------------------------------------------------------------------
(* The keyword index                                                       *)

Maps == UNION {[D -> Nat] : D \in SUBSET Nat}

KeywordState ==
  [docs : Seq(Doc \cup {NoDoc}), postings : [Terms -> SUBSET [doc_id : Nat, term_freq : Nat]],
   by_key : Maps, free : Seq(Nat), doc_len : Seq(Int), total_len : Int]

LiveSlots(docs) == {s \in DOMAIN docs : docs[s] # NoDoc}

\* by_key names the slot of every live document, and nothing else.
KeysRight(docs, by_key) ==
  /\ \A key \in DOMAIN by_key : by_key[key] \in LiveSlots(docs) /\ docs[by_key[key]].key = key
  /\ \A s \in LiveSlots(docs) : docs[s].key \in DOMAIN by_key /\ by_key[docs[s].key] = s

\* Every retired slot is free, once.
FreeRight(docs, free) ==
  /\ \A i \in DOMAIN free : free[i] \in DOMAIN docs /\ docs[free[i]] = NoDoc
  /\ \A s \in DOMAIN docs : docs[s] = NoDoc => \E i \in DOMAIN free : free[i] = s
  /\ IsInjective(free)

KeywordInv(k) ==
  /\ k \in KeywordState
  /\ KeysRight(k.docs, k.by_key)
  /\ FreeRight(k.docs, k.free)
  /\ PostingsOf(k.postings, k.docs, LiveSlots(k.docs))
  /\ DOMAIN k.doc_len = DOMAIN k.docs
  /\ \A s \in LiveSlots(k.docs) : k.doc_len[s] = DocLen(k.docs[s].text)
  /\ k.total_len = LengthOf(k.docs, LiveSlots(k.docs))

LEMMA DocFacts ==
  ASSUME NEW d \in Doc
  PROVE  d # NoDoc /\ d.key \in Nat /\ d.text \in Texts
BY DocAssumption DEF NoDoc

LEMMA LiveFacts ==
  ASSUME NEW docs \in Seq(Doc \cup {NoDoc})
  PROVE  /\ LiveSlots(docs) \subseteq Nat /\ IsFiniteSet(LiveSlots(docs)) /\ Texted(docs, LiveSlots(docs))
         /\ \A s \in LiveSlots(docs) : docs[s] \in Doc /\ docs[s].key \in Nat
<1>1. DOMAIN docs \subseteq Nat /\ IsFiniteSet(DOMAIN docs) /\ \A s \in DOMAIN docs : docs[s] \in Doc \cup {NoDoc}
  BY VecDomain
<1>2. IsFiniteSet(LiveSlots(docs))
  <2>1. LiveSlots(docs) \in SUBSET (DOMAIN docs)
    BY DEF LiveSlots
  <2>. QED BY <1>1, <2>1, FS_Subset
<1>3. \A s \in LiveSlots(docs) : docs[s] \in Doc
  BY <1>1 DEF LiveSlots
<1>. QED BY <1>1, <1>2, <1>3, DocFacts DEF LiveSlots, Texted

LEMMA MapAdd ==
  ASSUME NEW m \in Maps, NEW key \in Nat, NEW slot \in Nat,
         NEW after, after = [x \in DOMAIN m \cup {key} |-> IF x = key THEN slot ELSE m[x]]
  PROVE  after \in Maps /\ DOMAIN after = DOMAIN m \cup {key}
<1>1. PICK D \in SUBSET Nat : m \in [D -> Nat]
  BY DEF Maps
<1>2. D \cup {key} \in SUBSET Nat /\ DOMAIN m = D
  BY <1>1
<1>3. after \in [D \cup {key} -> Nat]
  BY <1>1, <1>2
<1>. QED BY <1>2, <1>3 DEF Maps

LEMMA MapRemove ==
  ASSUME NEW m \in Maps, NEW key
  PROVE  /\ Restrict(m, DOMAIN m \ {key}) \in Maps /\ DOMAIN Restrict(m, DOMAIN m \ {key}) = DOMAIN m \ {key}
         /\ \A x \in DOMAIN m \ {key} : Restrict(m, DOMAIN m \ {key})[x] = m[x]
<1>. DEFINE after == Restrict(m, DOMAIN m \ {key})
<1>1. PICK D \in SUBSET Nat : m \in [D -> Nat]
  BY DEF Maps
<1>2. D \ {key} \in SUBSET Nat /\ DOMAIN m = D
  BY <1>1
<1>3. after \in [D \ {key} -> Nat] /\ \A x \in D \ {key} : after[x] = m[x]
  BY <1>1, <1>2 DEF Restrict
<1>. HIDE DEF after
<1>4. after \in Maps /\ DOMAIN after = D \ {key}
  BY <1>2, <1>3 DEF Maps
<1>. QED BY <1>2, <1>3, <1>4 DEF after

\* A slot that is not live takes a document of a new aircraft.
LEMMA KeysAdd ==
  ASSUME NEW docs, NEW by_key, KeysRight(docs, by_key),
         NEW doc \in Doc, doc.key \notin DOMAIN by_key, NEW slot, slot \notin LiveSlots(docs),
         NEW after, DOMAIN after = DOMAIN docs \cup {slot}, after[slot] = doc,
         \A s \in DOMAIN docs : s # slot => after[s] = docs[s],
         NEW keys, keys = [x \in DOMAIN by_key \cup {doc.key} |-> IF x = doc.key THEN slot ELSE by_key[x]]
  PROVE  KeysRight(after, keys) /\ LiveSlots(after) = LiveSlots(docs) \cup {slot}
<1>1. doc # NoDoc
  BY DocFacts
<1>2. LiveSlots(after) = LiveSlots(docs) \cup {slot}
  BY <1>1 DEF LiveSlots
<1>3. \A s \in LiveSlots(docs) : after[s] = docs[s]
  BY DEF LiveSlots
<1>. QED BY <1>2, <1>3 DEF KeysRight

\* The documents after one is put into a slot
LEMMA DocumentsPut ==
  ASSUME NEW k, KeywordInv(k), NEW j, NEW doc \in Doc, NEW slot,
         DOMAIN j.docs = DOMAIN k.docs \cup {slot}, j.docs[slot] = doc,
         \A s \in DOMAIN k.docs : s # slot => j.docs[s] = k.docs[s],
         IF doc.key \in DOMAIN k.by_key THEN slot = k.by_key[doc.key] ELSE slot \notin LiveSlots(k.docs)
  PROVE  Documents(j) = {d \in Documents(k) : d.key # doc.key} \cup {doc}
<1>1. doc # NoDoc
  BY DocFacts
<1>2. \A d : d \in Documents(k) <=> \E s \in LiveSlots(k.docs) : d = k.docs[s]
  BY DEF Documents, LiveSlots
<1>3. \A d : d \in Documents(j) <=> d = doc \/ \E s \in LiveSlots(k.docs) \ {slot} : d = k.docs[s]
  BY <1>1 DEF Documents, LiveSlots
<1>4. \A s \in LiveSlots(k.docs) : k.docs[s].key = doc.key <=> s = slot
  BY DEF KeywordInv, KeysRight
<1>. QED BY <1>2, <1>3, <1>4

LEMMA KeywordInsertFacts ==
  ASSUME NEW k, KeywordInv(k), NEW doc \in Doc
  PROVE  /\ KeywordInv(KeywordInsert(k, doc))
         /\ Documents(KeywordInsert(k, doc)) = {d \in Documents(k) : d.key # doc.key} \cup {doc}
<1>. DEFINE j == KeywordInsert(k, doc)
            L == LiveSlots(k.docs)
            len == DocLen(doc.text)
<1>1. k \in KeywordState /\ doc # NoDoc /\ doc.key \in Nat /\ doc.text \in Texts /\ doc \in Doc \cup {NoDoc}
  BY DocFacts DEF KeywordInv
<1>2. /\ k.docs \in Seq(Doc \cup {NoDoc}) /\ k.by_key \in Maps /\ k.free \in Seq(Nat)
      /\ k.doc_len \in Seq(Int) /\ k.total_len \in Int
      /\ KeysRight(k.docs, k.by_key) /\ FreeRight(k.docs, k.free)
      /\ PostingsOf(k.postings, k.docs, L) /\ DOMAIN k.doc_len = DOMAIN k.docs
      /\ \A s \in L : k.doc_len[s] = DocLen(k.docs[s].text)
      /\ k.total_len = LengthOf(k.docs, L)
  BY <1>1 DEF KeywordInv, KeywordState
<1>3. L \subseteq Nat /\ IsFiniteSet(L) /\ Texted(k.docs, L) /\ len \in Int
  BY <1>1, <1>2, LiveFacts, DocLenType
<1>4. CASE doc.key \in DOMAIN k.by_key
  <2>. DEFINE slot == k.by_key[doc.key]
              out == remove_postings(k.postings, slot, k.docs[slot])
              docs2 == [k.docs EXCEPT ![slot] = doc]
              lens2 == [k.doc_len EXCEPT ![slot] = len]
              M == L \ {slot}
  <2>1. slot \in L /\ slot \in DOMAIN k.docs /\ slot \in Nat
    BY <1>2, <1>3, <1>4 DEF KeysRight, LiveSlots
  <2>2. /\ j.docs = docs2 /\ j.postings = AddPostings(out, slot, doc) /\ j.by_key = k.by_key
        /\ j.free = k.free /\ j.doc_len = lens2
        /\ j.total_len = k.total_len - k.doc_len[slot] + len
        /\ DOMAIN j = DOMAIN k
    BY <1>1, <1>4 DEF KeywordInsert, KeywordState
  <2>. HIDE DEF slot, j, len
  <2>3. /\ docs2 \in Seq(Doc \cup {NoDoc}) /\ DOMAIN docs2 = DOMAIN k.docs /\ docs2[slot] = doc
        /\ \A s \in DOMAIN k.docs : s # slot => docs2[s] = k.docs[s]
    BY <1>1, <1>2, <2>1, VecSet
  <2>4. /\ lens2 \in Seq(Int) /\ DOMAIN lens2 = DOMAIN k.doc_len /\ lens2[slot] = len
        /\ \A s \in DOMAIN k.doc_len : s # slot => lens2[s] = k.doc_len[s]
    BY <1>2, <1>3, <2>1, VecSet
  <2>. HIDE DEF docs2, lens2
  <2>5. LiveSlots(docs2) = L /\ L = M \cup {slot} /\ slot \notin M /\ M \subseteq L
    BY <1>1, <2>1, <2>3 DEF LiveSlots
  <2>6. KeysRight(docs2, k.by_key)
    <3>1. \A key \in DOMAIN k.by_key : k.by_key[key] = slot => key = doc.key
      BY <1>2, <1>4 DEF KeysRight, slot
    <3>2. doc.key \in DOMAIN k.by_key /\ k.by_key[doc.key] = slot
      BY <1>4 DEF slot
    <3>3. \A s \in L : s \in DOMAIN k.docs
      BY DEF LiveSlots
    <3>4. \A key \in DOMAIN k.by_key : k.by_key[key] \in L /\ k.docs[k.by_key[key]].key = key
      BY <1>2 DEF KeysRight
    <3>5. \A s \in L : k.docs[s].key \in DOMAIN k.by_key /\ k.by_key[k.docs[s].key] = s
      BY <1>2 DEF KeysRight
    <3>. HIDE DEF L
    <3>6. \A key \in DOMAIN k.by_key : k.by_key[key] \in L /\ docs2[k.by_key[key]].key = key
      BY <2>3, <3>1, <3>3, <3>4
    <3>7. \A s \in L : docs2[s].key \in DOMAIN k.by_key /\ k.by_key[docs2[s].key] = s
      BY <2>3, <3>2, <3>3, <3>5
    <3>. QED BY <2>5, <3>6, <3>7 DEF KeysRight
  <2>7. FreeRight(docs2, k.free)
    BY <1>1, <1>2, <2>1, <2>3 DEF FreeRight, LiveSlots
  <2>8. \A s \in M : docs2[s] = k.docs[s]
    BY <2>3 DEF LiveSlots
  <2>9. M \subseteq Nat /\ IsFiniteSet(M) /\ Texted(k.docs, M)
    BY <1>3, FS_Subset DEF Texted
  <2>. HIDE DEF L, M
  <2>10. PostingsOf(out, k.docs, M)
    BY <1>2, <1>3, <2>1, PostingsRemove DEF M
  <2>11. PostingsOf(AddPostings(out, slot, doc), docs2, M \cup {slot})
    <3>1. /\ M \subseteq Nat /\ Texted(k.docs, M) /\ PostingsOf(out, k.docs, M)
          /\ slot \in Nat /\ doc.text \in Texts /\ slot \notin M
          /\ docs2[slot] = doc /\ \A s \in M : docs2[s] = k.docs[s]
      BY <1>1, <2>1, <2>3, <2>5, <2>8, <2>9, <2>10
    <3>. HIDE DEF out
    <3>. QED BY ONLY <3>1, PostingsAdd
  <2>12. /\ LengthOf(docs2, M \cup {slot}) = LengthOf(k.docs, M) + len
         /\ LengthOf(k.docs, M) \in Int
    <3>1. /\ IsFiniteSet(M) /\ Texted(k.docs, M) /\ doc.text \in Texts /\ slot \notin M
          /\ docs2[slot] = doc /\ \A s \in M : docs2[s] = k.docs[s]
      BY <1>1, <2>3, <2>5, <2>8, <2>9
    <3>2. /\ LengthOf(docs2, M \cup {slot}) = LengthOf(k.docs, M) + DocLen(doc.text)
          /\ LengthOf(k.docs, M) \in Int
      BY ONLY <3>1, LengthAdd
    <3>. QED BY <3>2 DEF len
  <2>13. LengthOf(k.docs, M \cup {slot}) = LengthOf(k.docs, M) + DocLen(k.docs[slot].text)
    BY <1>3, <2>1, <2>5, <2>9, LengthAdd DEF Texted
  <2>14. k.doc_len[slot] = DocLen(k.docs[slot].text) /\ k.doc_len[slot] \in Int
    BY <1>2, <1>3, <2>1, DocLenType DEF Texted
  <2>15. j.total_len = LengthOf(docs2, L) /\ j.total_len \in Int
    BY <1>2, <1>3, <2>2, <2>5, <2>12, <2>13, <2>14
  <2>16. j \in KeywordState
    <3>1. j.postings \in [Terms -> SUBSET [doc_id : Nat, term_freq : Nat]]
      BY <2>2, <2>11 DEF PostingsOf
    <3>2. j = [docs |-> j.docs, postings |-> j.postings, by_key |-> j.by_key,
               free |-> j.free, doc_len |-> j.doc_len, total_len |-> j.total_len]
      BY <1>1, <1>4 DEF j, KeywordInsert, KeywordState
    <3>. QED BY <1>2, <2>2, <2>3, <2>4, <2>15, <3>1, <3>2 DEF KeywordState
  <2>17. \A s \in LiveSlots(j.docs) : j.doc_len[s] = DocLen(j.docs[s].text)
    <3>1. \A s \in L : s \in DOMAIN k.docs
      BY DEF L, LiveSlots
    <3>. QED BY <1>2, <2>2, <2>3, <2>4, <2>5, <3>1 DEF len
  <2>18. KeywordInv(j)
    BY <1>2, <2>2, <2>3, <2>4, <2>5, <2>6, <2>7, <2>11, <2>15, <2>16, <2>17 DEF KeywordInv
  <2>19. Documents(j) = {d \in Documents(k) : d.key # doc.key} \cup {doc}
    <3>1. DOMAIN j.docs = DOMAIN k.docs \cup {slot}
      BY <2>1, <2>2, <2>3
    <3>. QED BY <1>4, <2>2, <2>3, <3>1, DocumentsPut DEF slot
  <2>. QED BY <2>18, <2>19 DEF j
<1>5. CASE doc.key \notin DOMAIN k.by_key
  <2>. DEFINE reuse == k.free # <<>>
              slot == IF reuse THEN Last(k.free) ELSE Len(k.docs) + 1
              docs2 == IF reuse THEN [k.docs EXCEPT ![slot] = doc] ELSE Append(k.docs, doc)
              lens2 == IF reuse THEN [k.doc_len EXCEPT ![slot] = len] ELSE Append(k.doc_len, len)
              free2 == IF reuse THEN Front(k.free) ELSE k.free
              keys2 == [x \in DOMAIN k.by_key \cup {doc.key} |->
                          IF x = doc.key THEN slot ELSE k.by_key[x]]
              new == AddPostings(k.postings, slot, doc)
  <2>1. j = [docs |-> docs2, postings |-> new, by_key |-> keys2, free |-> free2,
             doc_len |-> lens2, total_len |-> k.total_len + len]
    BY <1>5 DEF KeywordInsert
  <2>2. /\ slot \in Nat /\ slot \notin L
        /\ docs2 \in Seq(Doc \cup {NoDoc}) /\ DOMAIN docs2 = DOMAIN k.docs \cup {slot} /\ docs2[slot] = doc
        /\ \A s \in DOMAIN k.docs : s # slot => docs2[s] = k.docs[s]
        /\ lens2 \in Seq(Int) /\ DOMAIN lens2 = DOMAIN k.docs \cup {slot} /\ lens2[slot] = len
        /\ \A s \in DOMAIN k.docs : s # slot => lens2[s] = k.doc_len[s]
        /\ free2 \in Seq(Nat) /\ FreeRight(docs2, free2)
    <3>. HIDE DEF len
    <3>1. CASE reuse
      <4>. DEFINE n == Len(k.free)
      <4>1. /\ free2 \in Seq(Nat) /\ n \in DOMAIN k.free /\ slot = k.free[n]
            /\ DOMAIN free2 = DOMAIN k.free \ {n} /\ \A i \in DOMAIN free2 : free2[i] = k.free[i]
        <5>1. k.free \in Seq(Nat) /\ k.free # <<>> /\ slot = Last(k.free) /\ free2 = Front(k.free)
          BY <1>2, <3>1
        <5>. HIDE DEF slot, free2, n
        <5>2. n = Len(k.free)
          BY DEF n
        <5>3. /\ Front(k.free) \in Seq(Nat) /\ Len(k.free) \in DOMAIN k.free /\ Last(k.free) = k.free[Len(k.free)]
              /\ DOMAIN Front(k.free) = DOMAIN k.free \ {Len(k.free)}
              /\ \A i \in DOMAIN Front(k.free) : Front(k.free)[i] = k.free[i]
          <6>. DEFINE fr == k.free
          <6>1. fr \in Seq(Nat) /\ fr # <<>>
            BY <5>1
          <6>. HIDE DEF fr
          <6>2. /\ Front(fr) \in Seq(Nat) /\ Len(fr) \in DOMAIN fr /\ Last(fr) = fr[Len(fr)]
                /\ DOMAIN Front(fr) = DOMAIN fr \ {Len(fr)}
                /\ \A i \in DOMAIN Front(fr) : Front(fr)[i] = fr[i]
            BY ONLY <6>1, VecPop
          <6>. QED BY <6>2 DEF fr
        <5>. QED BY <5>1, <5>2, <5>3
      <4>2. docs2 = [k.docs EXCEPT ![slot] = doc] /\ lens2 = [k.doc_len EXCEPT ![slot] = len]
        BY <3>1
      <4>. HIDE DEF slot, free2, docs2, lens2, n
      <4>3. slot \in DOMAIN k.docs /\ k.docs[slot] = NoDoc
        BY <1>2, <4>1 DEF FreeRight
      <4>4. slot \in Nat /\ slot \notin L
        BY <1>2, <4>3, VecDomain DEF LiveSlots
      <4>5. /\ docs2 \in Seq(Doc \cup {NoDoc}) /\ DOMAIN docs2 = DOMAIN k.docs /\ docs2[slot] = doc
            /\ \A s \in DOMAIN k.docs : s # slot => docs2[s] = k.docs[s]
        BY <1>1, <1>2, <4>2, <4>3, VecSet
      <4>6. /\ lens2 \in Seq(Int) /\ DOMAIN lens2 = DOMAIN k.docs /\ lens2[slot] = len
            /\ \A s \in DOMAIN k.docs : s # slot => lens2[s] = k.doc_len[s]
        BY <1>2, <1>3, <4>2, <4>3, VecSet DEF len
      <4>7. FreeRight(docs2, free2)
        <5>1. \A i \in DOMAIN free2 : free2[i] # slot
          BY <1>2, <4>1 DEF FreeRight, IsInjective
        <5>2. /\ \A i \in DOMAIN k.free : k.free[i] \in DOMAIN k.docs /\ k.docs[k.free[i]] = NoDoc
              /\ \A s \in DOMAIN k.docs : k.docs[s] = NoDoc => \E i \in DOMAIN k.free : k.free[i] = s
              /\ \A i, h \in DOMAIN k.free : k.free[i] = k.free[h] => i = h
          BY <1>2 DEF FreeRight, IsInjective
        <5>3. \A i \in DOMAIN free2 : free2[i] \in DOMAIN docs2 /\ docs2[free2[i]] = NoDoc
          BY <4>1, <4>5, <5>1, <5>2
        <5>4. ASSUME NEW s \in DOMAIN docs2, docs2[s] = NoDoc PROVE \E i \in DOMAIN free2 : free2[i] = s
          <6>1. s # slot /\ k.docs[s] = NoDoc
            BY <1>1, <4>5, <5>4
          <6>2. PICK i \in DOMAIN k.free : k.free[i] = s
            BY <4>5, <5>2, <5>4, <6>1
          <6>3. i \in DOMAIN free2
            BY <4>1, <6>1, <6>2
          <6>. QED BY <4>1, <6>2, <6>3
        <5>5. IsInjective(free2)
          BY <4>1, <5>2 DEF IsInjective
        <5>. QED BY <5>3, <5>4, <5>5 DEF FreeRight
      <4>8. DOMAIN k.docs = DOMAIN k.docs \cup {slot}
        BY <4>3
      <4>. QED BY <4>1, <4>4, <4>5, <4>6, <4>7, <4>8
    <3>2. CASE ~reuse
      <4>1. slot = Len(k.docs) + 1 /\ docs2 = Append(k.docs, doc) /\ lens2 = Append(k.doc_len, len) /\ free2 = k.free
        BY <3>2
      <4>. HIDE DEF slot, free2, docs2, lens2
      <4>2. /\ docs2 \in Seq(Doc \cup {NoDoc}) /\ DOMAIN docs2 = DOMAIN k.docs \cup {slot} /\ docs2[slot] = doc
            /\ \A s \in DOMAIN k.docs : docs2[s] = k.docs[s]
            /\ slot \in Nat /\ slot \notin DOMAIN k.docs
        BY <1>1, <1>2, <4>1, VecPush
      <4>3. slot = Len(k.doc_len) + 1
        BY <1>2, <4>1
      <4>4. /\ lens2 \in Seq(Int) /\ DOMAIN lens2 = DOMAIN k.docs \cup {slot} /\ lens2[slot] = len
            /\ \A s \in DOMAIN k.docs : lens2[s] = k.doc_len[s]
        BY <1>2, <1>3, <4>1, <4>3, VecPush DEF len
      <4>5. FreeRight(docs2, free2)
        BY <1>1, <1>2, <4>1, <4>2 DEF FreeRight
      <4>. QED BY <1>2, <4>1, <4>2, <4>4, <4>5 DEF LiveSlots
    <3>. QED BY <3>1, <3>2
  <2>. HIDE DEF slot, docs2, lens2, free2, reuse, j, len
  <2>3. KeysRight(docs2, keys2) /\ LiveSlots(docs2) = L \cup {slot}
    <3>1. /\ KeysRight(k.docs, k.by_key) /\ doc \in Doc /\ doc.key \notin DOMAIN k.by_key
          /\ slot \notin LiveSlots(k.docs) /\ DOMAIN docs2 = DOMAIN k.docs \cup {slot} /\ docs2[slot] = doc
          /\ \A s \in DOMAIN k.docs : s # slot => docs2[s] = k.docs[s]
          /\ keys2 = [x \in DOMAIN k.by_key \cup {doc.key} |-> IF x = doc.key THEN slot ELSE k.by_key[x]]
      BY <1>2, <1>5, <2>2
    <3>. HIDE DEF keys2
    <3>2. KeysRight(docs2, keys2) /\ LiveSlots(docs2) = LiveSlots(k.docs) \cup {slot}
      BY ONLY <3>1, KeysAdd
    <3>. QED BY <3>2
  <2>4. keys2 \in Maps
    <3>1. /\ k.by_key \in Maps /\ doc.key \in Nat /\ slot \in Nat
          /\ keys2 = [x \in DOMAIN k.by_key \cup {doc.key} |-> IF x = doc.key THEN slot ELSE k.by_key[x]]
      BY <1>1, <1>2, <2>2
    <3>. HIDE DEF keys2
    <3>. QED BY ONLY <3>1, MapAdd
  <2>. HIDE DEF keys2
  <2>5. \A s \in L : docs2[s] = k.docs[s] /\ lens2[s] = k.doc_len[s]
    BY <2>2 DEF LiveSlots
  <2>. HIDE DEF L
  <2>6. PostingsOf(new, docs2, L \cup {slot})
    <3>1. /\ L \subseteq Nat /\ Texted(k.docs, L) /\ PostingsOf(k.postings, k.docs, L)
          /\ slot \in Nat /\ doc.text \in Texts /\ slot \notin L
          /\ docs2[slot] = doc /\ \A s \in L : docs2[s] = k.docs[s]
      BY <1>1, <1>2, <1>3, <2>2, <2>5
    <3>. QED BY ONLY <3>1, PostingsAdd
  <2>. HIDE DEF new
  <2>7. LengthOf(docs2, L \cup {slot}) = LengthOf(k.docs, L) + len
    <3>1. /\ IsFiniteSet(L) /\ Texted(k.docs, L) /\ doc.text \in Texts /\ slot \notin L
          /\ docs2[slot] = doc /\ \A s \in L : docs2[s] = k.docs[s]
      BY <1>1, <1>3, <2>2, <2>5
    <3>2. LengthOf(docs2, L \cup {slot}) = LengthOf(k.docs, L) + DocLen(doc.text)
      BY ONLY <3>1, LengthAdd
    <3>. QED BY <3>2 DEF len
  <2>8. j \in KeywordState
    <3>1. new \in [Terms -> SUBSET [doc_id : Nat, term_freq : Nat]] /\ k.total_len + len \in Int
      BY <1>2, <1>3, <2>6 DEF PostingsOf
    <3>. QED BY <2>1, <2>2, <2>4, <3>1 DEF KeywordState
  <2>9. \A s \in L \cup {slot} : lens2[s] = DocLen(docs2[s].text)
    BY <1>2, <2>2, <2>5 DEF len
  <2>10. KeywordInv(j)
    BY <1>2, <2>1, <2>2, <2>3, <2>6, <2>7, <2>8, <2>9 DEF KeywordInv
  <2>11. Documents(j) = {d \in Documents(k) : d.key # doc.key} \cup {doc}
    <3>1. j.docs = docs2
      BY <2>1
    <3>2. /\ KeywordInv(k) /\ doc \in Doc /\ DOMAIN j.docs = DOMAIN k.docs \cup {slot} /\ j.docs[slot] = doc
          /\ \A s \in DOMAIN k.docs : s # slot => j.docs[s] = k.docs[s]
          /\ IF doc.key \in DOMAIN k.by_key THEN slot = k.by_key[doc.key] ELSE slot \notin LiveSlots(k.docs)
      BY <1>5, <2>2, <3>1 DEF L
    <3>. QED BY ONLY <3>2, DocumentsPut
  <2>. QED BY <2>10, <2>11 DEF j
<1>. QED BY <1>4, <1>5

LEMMA EmptyKeywordFacts ==
  KeywordInv(EmptyKeyword) /\ Documents(EmptyKeyword) = {}
<1>. DEFINE e == EmptyKeyword
            none == <<>>
<1>1. /\ e.docs = none /\ e.by_key = none /\ e.free = none /\ e.doc_len = none /\ e.total_len = 0
      /\ e.postings = [t \in Terms |-> {}] /\ DOMAIN none = {}
  BY DEF EmptyKeyword
<1>2. LiveSlots(e.docs) = {}
  BY <1>1 DEF LiveSlots
<1>3. LengthOf(e.docs, {}) = 0
  <2>. DEFINE f == [s \in {} |-> DocLen(e.docs[s].text)]
  <2>1. DOMAIN f = {}
    OBVIOUS
  <2>. HIDE DEF f
  <2>2. SumFunction(f) = 0
    BY <2>1, SumNone
  <2>. QED BY <2>2 DEF f, LengthOf
<1>4. e \in KeywordState
  <2>1. none \in [{} -> Nat]
    OBVIOUS
  <2>2. none \in Maps
    BY <2>1 DEF Maps
  <2>. QED BY <2>2 DEF EmptyKeyword, KeywordState
<1>5. KeysRight(e.docs, e.by_key) /\ FreeRight(e.docs, e.free)
  BY <1>1, <1>2 DEF KeysRight, FreeRight, IsInjective
<1>6. PostingsOf(e.postings, e.docs, {})
  BY <1>1 DEF PostingsOf
<1>7. KeywordInv(e)
  BY <1>1, <1>2, <1>3, <1>4, <1>5, <1>6 DEF KeywordInv
<1>8. Documents(e) = {}
  BY <1>1 DEF Documents
<1>. QED BY <1>7, <1>8

LEMMA KeywordRemoveFacts ==
  ASSUME NEW k, KeywordInv(k), NEW key
  PROVE  /\ KeywordInv(KeywordRemove(k, key))
         /\ Documents(KeywordRemove(k, key)) = {d \in Documents(k) : d.key # key}
<1>. DEFINE j == KeywordRemove(k, key)
            L == LiveSlots(k.docs)
<1>2. /\ k.docs \in Seq(Doc \cup {NoDoc}) /\ k.by_key \in Maps /\ k.free \in Seq(Nat)
      /\ k.doc_len \in Seq(Int) /\ k.total_len \in Int
      /\ KeysRight(k.docs, k.by_key) /\ FreeRight(k.docs, k.free)
      /\ PostingsOf(k.postings, k.docs, L) /\ DOMAIN k.doc_len = DOMAIN k.docs
      /\ \A s \in L : k.doc_len[s] = DocLen(k.docs[s].text)
      /\ k.total_len = LengthOf(k.docs, L)
  BY DEF KeywordInv, KeywordState
<1>3. L \subseteq Nat /\ IsFiniteSet(L) /\ Texted(k.docs, L)
  BY <1>2, LiveFacts
<1>4. \A d : d \in Documents(k) <=> \E s \in L : d = k.docs[s]
  BY DEF Documents, LiveSlots
<1>5. CASE key \notin DOMAIN k.by_key
  <2>1. j = k
    BY <1>5 DEF KeywordRemove
  <2>2. \A s \in L : k.docs[s].key # key
    BY <1>2, <1>5 DEF KeysRight
  <2>3. Documents(k) = {d \in Documents(k) : d.key # key}
    BY <1>4, <2>2
  <2>. QED BY <2>1, <2>3
<1>6. CASE key \in DOMAIN k.by_key
  <2>. DEFINE slot == k.by_key[key]
              docs2 == [k.docs EXCEPT ![slot] = NoDoc]
              lens2 == [k.doc_len EXCEPT ![slot] = 0]
              new == remove_postings(k.postings, slot, k.docs[slot])
              keys2 == Restrict(k.by_key, DOMAIN k.by_key \ {key})
              free2 == Append(k.free, slot)
              M == L \ {slot}
  <2>1. slot \in L /\ slot \in DOMAIN k.docs /\ slot \in Nat /\ k.docs[slot].key = key /\ k.docs[slot] # NoDoc
    BY <1>2, <1>3, <1>6 DEF KeysRight, LiveSlots
  <2>2. j = [docs |-> docs2, postings |-> new, by_key |-> keys2, free |-> free2,
             doc_len |-> lens2, total_len |-> k.total_len - k.doc_len[slot]]
    BY <1>6 DEF KeywordRemove
  <2>. HIDE DEF j
  <2>3. /\ docs2 \in Seq(Doc \cup {NoDoc}) /\ DOMAIN docs2 = DOMAIN k.docs /\ docs2[slot] = NoDoc
        /\ \A s \in DOMAIN k.docs : s # slot => docs2[s] = k.docs[s]
    <3>1. NoDoc \in Doc \cup {NoDoc}
      OBVIOUS
    <3>. HIDE DEF slot
    <3>. QED BY <1>2, <2>1, <3>1, VecSet
  <2>4. /\ lens2 \in Seq(Int) /\ DOMAIN lens2 = DOMAIN k.docs
        /\ \A s \in DOMAIN k.docs : s # slot => lens2[s] = k.doc_len[s]
    <3>. HIDE DEF slot
    <3>. QED BY <1>2, <2>1
  <2>5. /\ keys2 \in Maps /\ DOMAIN keys2 = DOMAIN k.by_key \ {key}
        /\ \A x \in DOMAIN keys2 : keys2[x] = k.by_key[x]
    <3>. DEFINE m == k.by_key
    <3>1. m \in Maps
      BY <1>2
    <3>. HIDE DEF m
    <3>2. /\ Restrict(m, DOMAIN m \ {key}) \in Maps /\ DOMAIN Restrict(m, DOMAIN m \ {key}) = DOMAIN m \ {key}
          /\ \A x \in DOMAIN m \ {key} : Restrict(m, DOMAIN m \ {key})[x] = m[x]
      BY ONLY <3>1, MapRemove
    <3>. QED BY <3>2 DEF m
  <2>. DEFINE n == Len(k.free) + 1
  <2>6. /\ free2 \in Seq(Nat) /\ DOMAIN free2 = DOMAIN k.free \cup {n} /\ free2[n] = slot
        /\ \A i \in DOMAIN k.free : free2[i] = k.free[i]
    <3>1. k.free \in Seq(Nat) /\ slot \in Nat /\ free2 = Append(k.free, slot) /\ n = Len(k.free) + 1
      BY <1>2, <2>1
    <3>. HIDE DEF slot, free2, n
    <3>. QED BY ONLY <3>1, VecPush
  <2>. HIDE DEF docs2, lens2, keys2, free2, n
  <2>7. /\ \A x \in DOMAIN k.by_key : k.by_key[x] = slot => x = key
        /\ \A s \in L : k.docs[s].key = key => s = slot
    BY <1>2, <1>6 DEF KeysRight
  <2>. HIDE DEF slot
  <2>8. LiveSlots(docs2) = M /\ L = M \cup {slot} /\ slot \notin M /\ M \subseteq L
    BY <2>1, <2>3 DEF LiveSlots
  <2>9. \A s \in M : docs2[s] = k.docs[s] /\ lens2[s] = k.doc_len[s]
    BY <2>3, <2>4 DEF LiveSlots
  <2>10. /\ \A x \in DOMAIN k.by_key : k.by_key[x] \in L /\ k.docs[k.by_key[x]].key = x
         /\ \A s \in L : k.docs[s].key \in DOMAIN k.by_key /\ k.by_key[k.docs[s].key] = s
    BY <1>2 DEF KeysRight
  <2>11. M \subseteq Nat /\ IsFiniteSet(M) /\ Texted(k.docs, M)
    BY <1>3, FS_Subset DEF Texted
  <2>. HIDE DEF L, M
  <2>12. KeysRight(docs2, keys2)
    <3>1. \A x \in DOMAIN keys2 : keys2[x] \in M /\ docs2[keys2[x]].key = x
      BY <2>5, <2>7, <2>8, <2>9, <2>10
    <3>2. \A s \in M : docs2[s].key \in DOMAIN keys2 /\ keys2[docs2[s].key] = s
      BY <2>5, <2>7, <2>8, <2>9, <2>10
    <3>. QED BY <2>8, <3>1, <3>2 DEF KeysRight
  <2>13. FreeRight(docs2, free2)
    <3>1. /\ \A i \in DOMAIN k.free : k.free[i] \in DOMAIN k.docs /\ k.docs[k.free[i]] = NoDoc
          /\ \A s \in DOMAIN k.docs : k.docs[s] = NoDoc => \E i \in DOMAIN k.free : k.free[i] = s
          /\ \A i, h \in DOMAIN k.free : k.free[i] = k.free[h] => i = h
      BY <1>2 DEF FreeRight, IsInjective
    <3>2. \A i \in DOMAIN k.free : k.free[i] # slot
      BY <2>1, <3>1
    <3>3. \A i \in DOMAIN free2 : free2[i] \in DOMAIN docs2 /\ docs2[free2[i]] = NoDoc
      BY <2>1, <2>3, <2>6, <3>1
    <3>4. \A s \in DOMAIN docs2 : docs2[s] = NoDoc => \E i \in DOMAIN free2 : free2[i] = s
      BY <2>1, <2>3, <2>6, <3>1
    <3>5. IsInjective(free2)
      BY <2>6, <3>1, <3>2 DEF IsInjective
    <3>. QED BY <3>3, <3>4, <3>5 DEF FreeRight
  <2>14. PostingsOf(new, docs2, M)
    <3>1. \A s \in L \ {slot} : docs2[s] = k.docs[s]
      BY <2>8, <2>9
    <3>2. PostingsOf(new, docs2, L \ {slot})
      BY <1>2, <1>3, <2>1, <3>1, PostingsRemove
    <3>. QED BY <2>8, <3>2 DEF M
  <2>. HIDE DEF new
  <2>15. LengthOf(docs2, M) = LengthOf(k.docs, M)
    <3>1. [s \in M |-> DocLen(docs2[s].text)] = [s \in M |-> DocLen(k.docs[s].text)]
      BY <2>9
    <3>. QED BY <3>1 DEF LengthOf
  <2>16. /\ LengthOf(k.docs, M \cup {slot}) = LengthOf(k.docs, M) + DocLen(k.docs[slot].text)
         /\ LengthOf(k.docs, M) \in Int /\ DocLen(k.docs[slot].text) \in Int
    <3>1. /\ IsFiniteSet(M) /\ Texted(k.docs, M) /\ k.docs[slot].text \in Texts /\ slot \notin M
      BY <1>3, <2>1, <2>8, <2>11 DEF Texted
    <3>2. \A s \in M : k.docs[s] = k.docs[s]
      OBVIOUS
    <3>. QED BY ONLY <3>1, <3>2, LengthAdd
  <2>17. k.total_len - k.doc_len[slot] = LengthOf(docs2, M) /\ LengthOf(docs2, M) \in Int
    BY <1>2, <2>1, <2>8, <2>15, <2>16
  <2>18. j \in KeywordState
    <3>1. new \in [Terms -> SUBSET [doc_id : Nat, term_freq : Nat]]
      BY <2>14 DEF PostingsOf
    <3>. QED BY <2>2, <2>3, <2>4, <2>5, <2>6, <2>17, <3>1 DEF KeywordState
  <2>19. \A s \in M : lens2[s] = DocLen(docs2[s].text)
    BY <1>2, <2>8, <2>9
  <2>20. KeywordInv(j)
    BY <2>2, <2>3, <2>4, <2>8, <2>12, <2>13, <2>14, <2>17, <2>18, <2>19 DEF KeywordInv
  <2>21. Documents(j) = {d \in Documents(k) : d.key # key}
    <3>1. \A d : d \in Documents(j) <=> \E s \in M : d = docs2[s]
      BY <2>2, <2>8 DEF Documents, LiveSlots
    <3>. QED BY <1>4, <2>1, <2>7, <2>8, <2>9, <3>1
  <2>. QED BY <2>20, <2>21 DEF j
<1>. QED BY <1>5, <1>6

-----------------------------------------------------------------------------
(* The vector index                                                        *)

Written == [text : Texts, order : UNION {Orders[t] : t \in Texts}]
Point == [slot : Nat, text : Texts]

VectorState ==
  [docs : Seq(Doc), texts : Seq(Written), by_key : Maps, tombstoned : SUBSET Nat,
   graph : Seq(Point), vectors_total : Nat]

VectorDocs(x) == {x.docs[s] : s \in Live(x)}

\* by_key names the live slot of every aircraft, and nothing else.
Keyed(docs, L, by_key) ==
  /\ \A key \in DOMAIN by_key : by_key[key] \in L /\ docs[by_key[key]].key = key
  /\ \A s \in L : docs[s].key \in DOMAIN by_key /\ by_key[docs[s].key] = s

\* A document's text is the one it was embedded with, and its vector is in the graph.
Embedded(docs, texts, graph, s) ==
  /\ texts[s].text = docs[s].text
  /\ \E i \in DOMAIN graph : graph[i] = [slot |-> s, text |-> docs[s].text]

VectorInv(x) ==
  /\ x \in VectorState
  /\ DOMAIN x.texts = DOMAIN x.docs
  /\ x.tombstoned \subseteq DOMAIN x.docs
  /\ Keyed(x.docs, Live(x), x.by_key)
  /\ \A s \in Live(x) : Embedded(x.docs, x.texts, x.graph, s)
  /\ x.vectors_total = Len(x.graph)
  /\ \A i \in DOMAIN x.graph : x.graph[i].slot \in DOMAIN x.docs

\* What a document put into a slot does, whether the slot is new or replaced,
\* and whether its vector is new or kept
LEMMA VectorPut ==
  ASSUME NEW x, VectorInv(x), NEW y \in VectorState, NEW doc \in Doc, NEW slot \in Nat,
         DOMAIN y.docs = DOMAIN x.docs \cup {slot}, y.docs[slot] = doc,
         \A s \in DOMAIN x.docs : s # slot => y.docs[s] = x.docs[s],
         DOMAIN y.texts = DOMAIN x.texts \cup {slot}, y.texts[slot].text = doc.text,
         \A s \in DOMAIN x.texts : s # slot => y.texts[s] = x.texts[s],
         DOMAIN y.by_key = DOMAIN x.by_key \cup {doc.key}, y.by_key[doc.key] = slot,
         \A key \in DOMAIN x.by_key : key # doc.key => y.by_key[key] = x.by_key[key],
         y.tombstoned = x.tombstoned,
         \A i \in DOMAIN x.graph : i \in DOMAIN y.graph /\ y.graph[i] = x.graph[i],
         \E i \in DOMAIN y.graph : y.graph[i] = [slot |-> slot, text |-> doc.text],
         \A i \in DOMAIN y.graph : i \in DOMAIN x.graph \/ y.graph[i].slot = slot,
         y.vectors_total = Len(y.graph),
         IF doc.key \in DOMAIN x.by_key THEN slot = x.by_key[doc.key] ELSE slot \notin DOMAIN x.docs
  PROVE  /\ VectorInv(y)
         /\ VectorDocs(y) = {d \in VectorDocs(x) : d.key # doc.key} \cup {doc}
<1>1. /\ \A key \in DOMAIN x.by_key : x.by_key[key] \in Live(x) /\ x.docs[x.by_key[key]].key = key
      /\ \A s \in Live(x) : x.docs[s].key \in DOMAIN x.by_key /\ x.by_key[x.docs[s].key] = s
  BY DEF VectorInv, Keyed
<1>2. /\ DOMAIN x.texts = DOMAIN x.docs /\ x.tombstoned \subseteq DOMAIN x.docs
      /\ \A s \in Live(x) : Embedded(x.docs, x.texts, x.graph, s)
  BY DEF VectorInv
<1>3. slot \notin x.tombstoned
  BY <1>1, <1>2 DEF Live
<1>4. Live(y) = Live(x) \cup {slot} /\ \A s \in Live(x) : s \in DOMAIN x.docs
  BY <1>3 DEF Live
<1>5. \A s \in Live(x) : x.docs[s].key = doc.key <=> s = slot
  BY <1>1, <1>4
<1>6. \A s \in Live(y) : s # slot => s \in Live(x) /\ y.docs[s] = x.docs[s] /\ y.texts[s] = x.texts[s]
  BY <1>2, <1>4
<1>7. Keyed(y.docs, Live(y), y.by_key)
  <2>1. ASSUME NEW key \in DOMAIN y.by_key PROVE y.by_key[key] \in Live(y) /\ y.docs[y.by_key[key]].key = key
    <3>1. CASE key = doc.key
      BY <1>4, <3>1
    <3>2. CASE key # doc.key
      <4>1. key \in DOMAIN x.by_key /\ y.by_key[key] = x.by_key[key] /\ x.by_key[key] \in Live(x)
        BY <1>1, <3>2
      <4>2. x.by_key[key] # slot
        BY <1>1, <1>5, <3>2, <4>1
      <4>. QED BY <1>1, <1>4, <1>6, <4>1, <4>2
    <3>. QED BY <3>1, <3>2
  <2>2. ASSUME NEW s \in Live(y) PROVE y.docs[s].key \in DOMAIN y.by_key /\ y.by_key[y.docs[s].key] = s
    <3>1. CASE s = slot
      BY <3>1
    <3>2. CASE s # slot
      BY <1>1, <1>5, <1>6, <3>2
    <3>. QED BY <3>1, <3>2
  <2>. QED BY <2>1, <2>2 DEF Keyed
<1>8. \A s \in Live(y) : Embedded(y.docs, y.texts, y.graph, s)
  BY <1>2, <1>6 DEF Embedded
<1>9. VectorInv(y)
  <2>1. \A i \in DOMAIN y.graph : y.graph[i].slot \in DOMAIN y.docs
    BY DEF VectorInv
  <2>. QED BY <1>2, <1>7, <1>8, <2>1 DEF VectorInv
<1>10. \A d : d \in VectorDocs(y) <=> \E s \in Live(y) : d = y.docs[s]
  BY DEF VectorDocs
<1>11. \A d : d \in VectorDocs(x) <=> \E s \in Live(x) : d = x.docs[s]
  BY DEF VectorDocs
<1>12. VectorDocs(y) = {d \in VectorDocs(x) : d.key # doc.key} \cup {doc}
  <2>1. ASSUME NEW d \in VectorDocs(y) PROVE d = doc \/ (d \in VectorDocs(x) /\ d.key # doc.key)
    <3>1. PICK s \in Live(y) : d = y.docs[s]
      BY <1>10, <2>1
    <3>. QED BY <1>5, <1>6, <1>11, <3>1
  <2>2. ASSUME NEW d \in VectorDocs(x), d.key # doc.key PROVE d \in VectorDocs(y)
    <3>1. PICK s \in Live(x) : d = x.docs[s]
      BY <1>11, <2>2
    <3>. QED BY <1>4, <1>5, <1>6, <1>10, <2>2, <3>1
  <2>3. doc \in VectorDocs(y)
    BY <1>4, <1>10
  <2>. QED BY <2>1, <2>2, <2>3
<1>. QED BY <1>9, <1>12

LEMMA VectorInsertFacts ==
  ASSUME NEW x, VectorInv(x), NEW doc \in Doc, NEW order \in UNION {Orders[t] : t \in Texts}
  PROVE  /\ VectorInv(VectorInsert(x, doc, order))
         /\ VectorDocs(VectorInsert(x, doc, order)) = {d \in VectorDocs(x) : d.key # doc.key} \cup {doc}
         /\ VectorInsert(x, doc, order).tombstoned = x.tombstoned
         /\ DOMAIN x.by_key \subseteq DOMAIN VectorInsert(x, doc, order).by_key
<1>. DEFINE y == VectorInsert(x, doc, order)
            text == embeddable_text(doc, order)
            point(s) == [slot |-> s, text |-> doc.text]
<1>1. doc.key \in Nat /\ doc.text \in Texts
  BY DocFacts
<1>2. text \in Written /\ text.text = doc.text /\ \A s \in Nat : point(s) \in Point
  BY <1>1 DEF embeddable_text, Written, Point
<1>3. /\ x \in VectorState /\ x.docs \in Seq(Doc) /\ x.texts \in Seq(Written) /\ x.by_key \in Maps
      /\ x.tombstoned \in SUBSET Nat /\ x.graph \in Seq(Point) /\ x.vectors_total \in Nat
      /\ DOMAIN x.texts = DOMAIN x.docs /\ x.vectors_total + 1 \in Nat
      /\ x = [docs |-> x.docs, texts |-> x.texts, by_key |-> x.by_key, tombstoned |-> x.tombstoned,
              graph |-> x.graph, vectors_total |-> x.vectors_total]
      /\ x.vectors_total = Len(x.graph)
  BY DEF VectorInv, VectorState
<1>. HIDE DEF text
<1>4. ASSUME NEW slot \in Nat
      PROVE  /\ Append(x.graph, point(slot)) \in Seq(Point)
             /\ \A i \in DOMAIN x.graph : /\ i \in DOMAIN Append(x.graph, point(slot))
                                          /\ Append(x.graph, point(slot))[i] = x.graph[i]
             /\ \E i \in DOMAIN Append(x.graph, point(slot)) : Append(x.graph, point(slot))[i] = point(slot)
             /\ \A i \in DOMAIN Append(x.graph, point(slot)) :
                  i \in DOMAIN x.graph \/ Append(x.graph, point(slot))[i].slot = slot
             /\ x.vectors_total + 1 = Len(Append(x.graph, point(slot)))
  <2>. DEFINE g == Append(x.graph, point(slot))
              n == Len(x.graph) + 1
  <2>1. point(slot) \in Point
    BY <1>2, <1>4
  <2>. HIDE DEF point
  <2>2. /\ g \in Seq(Point) /\ DOMAIN g = DOMAIN x.graph \cup {n} /\ g[n] = point(slot)
        /\ \A i \in DOMAIN x.graph : g[i] = x.graph[i]
        /\ Len(g) = n
    BY <1>3, <2>1, VecPush
  <2>3. point(slot).slot = slot /\ x.vectors_total + 1 = n
    BY DEF point, VectorInv
  <2>. QED BY <2>2, <2>3
<1>5. CASE doc.key \notin DOMAIN x.by_key
  <2>. DEFINE slot == Len(x.docs) + 1
              docs2 == Append(x.docs, doc)
              texts2 == Append(x.texts, text)
              keys2 == [k \in DOMAIN x.by_key \cup {doc.key} |-> IF k = doc.key THEN slot ELSE x.by_key[k]]
              graph2 == Append(x.graph, point(slot))
  <2>1. y = [docs |-> docs2, texts |-> texts2, by_key |-> keys2, tombstoned |-> x.tombstoned,
             graph |-> graph2, vectors_total |-> x.vectors_total + 1]
    BY <1>3, <1>5 DEF VectorInsert, text
  <2>2. /\ docs2 \in Seq(Doc) /\ DOMAIN docs2 = DOMAIN x.docs \cup {slot} /\ docs2[slot] = doc
        /\ \A s \in DOMAIN x.docs : docs2[s] = x.docs[s]
        /\ slot \in Nat /\ slot \notin DOMAIN x.docs
    BY <1>3, VecPush
  <2>3. slot = Len(x.texts) + 1
    BY <1>3
  <2>. HIDE DEF slot
  <2>4. /\ texts2 \in Seq(Written) /\ DOMAIN texts2 = DOMAIN x.texts \cup {slot} /\ texts2[slot] = text
        /\ \A s \in DOMAIN x.texts : texts2[s] = x.texts[s]
    BY <1>2, <1>3, <2>3, VecPush
  <2>5. graph2 \in Seq(Point) /\ (\A i \in DOMAIN x.graph : i \in DOMAIN graph2 /\ graph2[i] = x.graph[i])
        /\ (\E i \in DOMAIN graph2 : graph2[i] = [slot |-> slot, text |-> doc.text])
        /\ (\A i \in DOMAIN graph2 : i \in DOMAIN x.graph \/ graph2[i].slot = slot)
        /\ x.vectors_total + 1 = Len(graph2)
    BY <1>4, <2>2
  <2>6. /\ DOMAIN keys2 = DOMAIN x.by_key \cup {doc.key} /\ keys2[doc.key] = slot
        /\ \A k \in DOMAIN x.by_key : k # doc.key => keys2[k] = x.by_key[k]
    OBVIOUS
  <2>7. keys2 \in Maps
    <3>. DEFINE m == x.by_key
                key == doc.key
    <3>1. /\ m \in Maps /\ key \in Nat /\ slot \in Nat
          /\ keys2 = [k \in DOMAIN m \cup {key} |-> IF k = key THEN slot ELSE m[k]]
      BY <1>1, <1>3, <2>2
    <3>. HIDE DEF keys2, m, key
    <3>. QED BY ONLY <3>1, MapAdd
  <2>. HIDE DEF docs2, texts2, keys2, graph2, y
  <2>8. /\ y.docs = docs2 /\ y.texts = texts2 /\ y.by_key = keys2 /\ y.tombstoned = x.tombstoned /\ y.graph = graph2
        /\ y.vectors_total = x.vectors_total + 1
    BY <2>1
  <2>9. y \in VectorState
    BY <1>3, <2>1, <2>2, <2>4, <2>5, <2>7 DEF VectorState
  <2>10. /\ VectorInv(y) /\ VectorDocs(y) = {d \in VectorDocs(x) : d.key # doc.key} \cup {doc}
    <3>1. /\ DOMAIN y.docs = DOMAIN x.docs \cup {slot} /\ y.docs[slot] = doc
          /\ \A s \in DOMAIN x.docs : s # slot => y.docs[s] = x.docs[s]
      BY <2>2, <2>8
    <3>2. /\ DOMAIN y.texts = DOMAIN x.texts \cup {slot} /\ y.texts[slot].text = doc.text
          /\ \A s \in DOMAIN x.texts : s # slot => y.texts[s] = x.texts[s]
      BY <1>2, <2>4, <2>8
    <3>3. /\ DOMAIN y.by_key = DOMAIN x.by_key \cup {doc.key} /\ y.by_key[doc.key] = slot
          /\ \A key \in DOMAIN x.by_key : key # doc.key => y.by_key[key] = x.by_key[key]
      BY <2>6, <2>8
    <3>4. /\ \A i \in DOMAIN x.graph : i \in DOMAIN y.graph /\ y.graph[i] = x.graph[i]
          /\ \E i \in DOMAIN y.graph : y.graph[i] = [slot |-> slot, text |-> doc.text]
          /\ \A i \in DOMAIN y.graph : i \in DOMAIN x.graph \/ y.graph[i].slot = slot
          /\ y.vectors_total = Len(y.graph)
      BY <2>5, <2>8
    <3>5. IF doc.key \in DOMAIN x.by_key THEN slot = x.by_key[doc.key] ELSE slot \notin DOMAIN x.docs
      BY <1>5, <2>2
    <3>6. VectorInv(x) /\ doc \in Doc /\ slot \in Nat /\ y.tombstoned = x.tombstoned
      BY <2>2, <2>8
    <3>. QED BY ONLY <2>9, <3>1, <3>2, <3>3, <3>4, <3>5, <3>6, VectorPut
  <2>. QED BY <2>6, <2>8, <2>10 DEF y
<1>6. CASE doc.key \in DOMAIN x.by_key
  <2>. DEFINE slot == x.by_key[doc.key]
              docs2 == [x.docs EXCEPT ![slot] = doc]
  <2>1. slot \in Live(x) /\ slot \in DOMAIN x.docs /\ slot \in DOMAIN x.texts /\ slot \in Nat /\ Embedded(x.docs, x.texts, x.graph, slot)
    <3>1. slot \in Live(x)
      BY <1>6 DEF VectorInv, Keyed
    <3>2. slot \in DOMAIN x.docs
      BY <3>1 DEF Live
    <3>. HIDE DEF slot
    <3>. QED BY <1>3, <3>1, <3>2, VecDomain DEF VectorInv
  <2>2. /\ docs2 \in Seq(Doc) /\ DOMAIN docs2 = DOMAIN x.docs /\ docs2[slot] = doc
        /\ \A s \in DOMAIN x.docs : s # slot => docs2[s] = x.docs[s]
    <3>. HIDE DEF slot
    <3>. QED BY <1>3, <2>1, VecSet
  <2>. HIDE DEF docs2
  <2>3. /\ DOMAIN docs2 = DOMAIN x.docs \cup {slot} /\ DOMAIN x.texts = DOMAIN x.texts \cup {slot}
        /\ DOMAIN x.by_key = DOMAIN x.by_key \cup {doc.key} /\ x.by_key[doc.key] = slot
    BY <1>6, <2>1, <2>2
  <2>4. CASE x.texts[slot] = text
    <3>1. y = [x EXCEPT !.docs[slot] = doc]
      BY <1>6, <2>4 DEF VectorInsert, text
    <3>2. y = [docs |-> docs2, texts |-> x.texts, by_key |-> x.by_key, tombstoned |-> x.tombstoned,
               graph |-> x.graph, vectors_total |-> x.vectors_total]
      BY <1>3, <3>1 DEF docs2
    <3>. HIDE DEF y, slot
    <3>3. /\ y.docs = docs2 /\ y.texts = x.texts /\ y.by_key = x.by_key /\ y.tombstoned = x.tombstoned /\ y.graph = x.graph
          /\ y.vectors_total = x.vectors_total
      BY <3>2
    <3>4. y \in VectorState
      BY <1>3, <2>2, <3>2 DEF VectorState
    <3>5. \E i \in DOMAIN x.graph : x.graph[i] = [slot |-> slot, text |-> doc.text]
      BY <1>2, <2>1, <2>4 DEF Embedded
    <3>6. /\ DOMAIN y.docs = DOMAIN x.docs \cup {slot} /\ y.docs[slot] = doc
          /\ \A s \in DOMAIN x.docs : s # slot => y.docs[s] = x.docs[s]
      BY <2>2, <2>3, <3>3
    <3>7. /\ DOMAIN y.texts = DOMAIN x.texts \cup {slot} /\ y.texts[slot].text = doc.text
          /\ \A s \in DOMAIN x.texts : s # slot => y.texts[s] = x.texts[s]
      BY <1>2, <2>3, <2>4, <3>3
    <3>8. /\ DOMAIN y.by_key = DOMAIN x.by_key \cup {doc.key} /\ y.by_key[doc.key] = slot
          /\ \A key \in DOMAIN x.by_key : key # doc.key => y.by_key[key] = x.by_key[key]
      BY <2>3, <3>3
    <3>9. /\ \A i \in DOMAIN x.graph : i \in DOMAIN y.graph /\ y.graph[i] = x.graph[i]
          /\ \E i \in DOMAIN y.graph : y.graph[i] = [slot |-> slot, text |-> doc.text]
          /\ \A i \in DOMAIN y.graph : i \in DOMAIN x.graph \/ y.graph[i].slot = slot
          /\ y.vectors_total = Len(y.graph)
      BY <1>3, <3>3, <3>5
    <3>10. IF doc.key \in DOMAIN x.by_key THEN slot = x.by_key[doc.key] ELSE slot \notin DOMAIN x.docs
      BY <1>6, <2>3
    <3>11. VectorInv(x) /\ doc \in Doc /\ slot \in Nat /\ y.tombstoned = x.tombstoned
      BY <2>1, <3>3
    <3>12. VectorInv(y) /\ VectorDocs(y) = {d \in VectorDocs(x) : d.key # doc.key} \cup {doc}
      BY ONLY <3>4, <3>6, <3>7, <3>8, <3>9, <3>10, <3>11, VectorPut
    <3>. QED BY <3>3, <3>12 DEF y
  <2>5. CASE x.texts[slot] # text
    <3>. DEFINE texts2 == [x.texts EXCEPT ![slot] = text]
                graph2 == Append(x.graph, point(slot))
    <3>1. y = [x EXCEPT !.docs[slot] = doc, !.texts[slot] = text, !.graph = Append(@, point(slot)),
                        !.vectors_total = @ + 1]
      BY <1>6, <2>5 DEF VectorInsert, text
    <3>2. y = [docs |-> docs2, texts |-> texts2, by_key |-> x.by_key, tombstoned |-> x.tombstoned,
               graph |-> graph2, vectors_total |-> x.vectors_total + 1]
      BY <1>3, <3>1 DEF docs2
    <3>. HIDE DEF y, slot
    <3>3. /\ texts2 \in Seq(Written) /\ DOMAIN texts2 = DOMAIN x.texts /\ texts2[slot] = text
          /\ \A s \in DOMAIN x.texts : s # slot => texts2[s] = x.texts[s]
      BY <1>2, <1>3, <2>1, VecSet
    <3>4. graph2 \in Seq(Point) /\ (\A i \in DOMAIN x.graph : i \in DOMAIN graph2 /\ graph2[i] = x.graph[i])
          /\ (\E i \in DOMAIN graph2 : graph2[i] = [slot |-> slot, text |-> doc.text])
          /\ (\A i \in DOMAIN graph2 : i \in DOMAIN x.graph \/ graph2[i].slot = slot)
          /\ x.vectors_total + 1 = Len(graph2)
      BY <1>4, <2>1
    <3>. HIDE DEF texts2, graph2
    <3>5. /\ y.docs = docs2 /\ y.texts = texts2 /\ y.by_key = x.by_key /\ y.tombstoned = x.tombstoned /\ y.graph = graph2
          /\ y.vectors_total = x.vectors_total + 1
      BY <3>2
    <3>6. y \in VectorState
      BY <1>3, <2>2, <3>2, <3>3, <3>4 DEF VectorState
    <3>7. /\ DOMAIN y.docs = DOMAIN x.docs \cup {slot} /\ y.docs[slot] = doc
          /\ \A s \in DOMAIN x.docs : s # slot => y.docs[s] = x.docs[s]
      BY <2>2, <2>3, <3>5
    <3>8. /\ DOMAIN y.texts = DOMAIN x.texts \cup {slot} /\ y.texts[slot].text = doc.text
          /\ \A s \in DOMAIN x.texts : s # slot => y.texts[s] = x.texts[s]
      BY <1>2, <2>3, <3>3, <3>5
    <3>9. /\ DOMAIN y.by_key = DOMAIN x.by_key \cup {doc.key} /\ y.by_key[doc.key] = slot
          /\ \A key \in DOMAIN x.by_key : key # doc.key => y.by_key[key] = x.by_key[key]
      BY <2>3, <3>5
    <3>10. /\ \A i \in DOMAIN x.graph : i \in DOMAIN y.graph /\ y.graph[i] = x.graph[i]
           /\ \E i \in DOMAIN y.graph : y.graph[i] = [slot |-> slot, text |-> doc.text]
           /\ \A i \in DOMAIN y.graph : i \in DOMAIN x.graph \/ y.graph[i].slot = slot
           /\ y.vectors_total = Len(y.graph)
      BY <3>4, <3>5
    <3>11. IF doc.key \in DOMAIN x.by_key THEN slot = x.by_key[doc.key] ELSE slot \notin DOMAIN x.docs
      BY <1>6, <2>3
    <3>12. VectorInv(x) /\ doc \in Doc /\ slot \in Nat /\ y.tombstoned = x.tombstoned
      BY <2>1, <3>5
    <3>13. VectorInv(y) /\ VectorDocs(y) = {d \in VectorDocs(x) : d.key # doc.key} \cup {doc}
      BY ONLY <3>6, <3>7, <3>8, <3>9, <3>10, <3>11, <3>12, VectorPut
    <3>. QED BY <3>5, <3>13 DEF y
  <2>. QED BY <2>4, <2>5
<1>. QED BY <1>5, <1>6

LEMMA EmptyVectorFacts ==
  VectorInv(EmptyVector) /\ VectorDocs(EmptyVector) = {} /\ EmptyVector.tombstoned = {}
<1>. DEFINE e == EmptyVector
            none == <<>>
<1>1. /\ e.docs = none /\ e.texts = none /\ e.by_key = none /\ e.tombstoned = {} /\ e.graph = none
      /\ DOMAIN none = {} /\ e.vectors_total = 0 /\ Len(none) = 0
  BY DEF EmptyVector
<1>2. Live(e) = {}
  BY <1>1 DEF Live
<1>3. e \in VectorState
  <2>1. none \in [{} -> Nat]
    OBVIOUS
  <2>2. none \in Maps
    BY <2>1 DEF Maps
  <2>. QED BY <2>2 DEF EmptyVector, VectorState
<1>4. VectorInv(e)
  BY <1>1, <1>2, <1>3 DEF VectorInv, Keyed
<1>5. VectorDocs(e) = {}
  BY <1>2 DEF VectorDocs
<1>. QED BY <1>1, <1>4, <1>5

\* A rebuilt index has the live documents and no tombstone.
LEMMA RebuildFacts ==
  ASSUME NEW x, VectorInv(x)
  PROVE  VectorInv(rebuild(x)) /\ VectorDocs(rebuild(x)) = VectorDocs(x) /\ rebuild(x).tombstoned = {}
<1>. DEFINE n == Len(x.docs)
            Part(i) == {s \in 1 .. i : s \notin x.tombstoned}
            Good(i, v) == /\ VectorInv(v) /\ v.tombstoned = {}
                          /\ VectorDocs(v) = {x.docs[s] : s \in Part(i)}
            Turn(i, v) == IF i \in x.tombstoned THEN v ELSE VectorInsert(v, x.docs[i], x.texts[i].order)
            P == [i \in 0 .. n |-> {v \in VectorState : Good(i, v)}]
            g == [i \in 1 .. n |-> [v \in P[i - 1] |-> Turn(i, v)]]
            Is(f) == f = [s \in 0 .. n |-> IF s = 0 THEN EmptyVector ELSE Turn(s, f[s - 1])]
<1>1. /\ n \in Nat /\ DOMAIN x.docs = 1 .. n /\ DOMAIN x.texts = 1 .. n
      /\ \A s \in 1 .. n : x.docs[s] \in Doc /\ x.texts[s].order \in UNION {Orders[t] : t \in Texts}
  <2>1. x.docs \in Seq(Doc) /\ x.texts \in Seq(Written) /\ DOMAIN x.texts = DOMAIN x.docs
    BY DEF VectorInv, VectorState
  <2>2. n \in Nat /\ DOMAIN x.docs = 1 .. n /\ \A s \in 1 .. n : x.docs[s] \in Doc /\ x.texts[s] \in Written
    BY <2>1
  <2>. QED BY <2>1, <2>2 DEF Written
<1>2. Live(x) = Part(n)
  BY <1>1 DEF Live
<1>3. \A s, r \in Part(n) : x.docs[s].key = x.docs[r].key => s = r
  BY <1>2 DEF VectorInv, Keyed
<1>4. EmptyVector \in P[0]
  <2>1. Part(0) = {}
    OBVIOUS
  <2>2. Good(0, EmptyVector) /\ EmptyVector \in VectorState
    BY <2>1, EmptyVectorFacts DEF VectorInv
  <2>. QED BY <1>1, <2>2
<1>5. ASSUME NEW i \in 1 .. n, NEW v \in P[i - 1] PROVE Turn(i, v) \in P[i]
  <2>1. i - 1 \in 0 .. n /\ i \in 0 .. n /\ i \in Nat /\ i - 1 \in Nat
    BY <1>1
  <2>2. Good(i - 1, v) /\ v \in VectorState
    BY <2>1
  <2>3. CASE i \in x.tombstoned
    <3>1. Part(i) = Part(i - 1)
      BY <2>1, <2>3
    <3>2. Good(i, v) /\ Turn(i, v) = v
      BY <2>2, <2>3, <3>1
    <3>. QED BY <2>1, <2>2, <3>2
  <2>4. CASE i \notin x.tombstoned
    <3>. DEFINE doc == x.docs[i]
                w == VectorInsert(v, doc, x.texts[i].order)
    <3>1. doc \in Doc /\ x.texts[i].order \in UNION {Orders[t] : t \in Texts}
      BY <1>1
    <3>2. /\ VectorInv(w) /\ w.tombstoned = {} /\ VectorDocs(w) = {d \in VectorDocs(v) : d.key # doc.key} \cup {doc}
      BY <2>2, <3>1, VectorInsertFacts
    <3>3. Part(i) = Part(i - 1) \cup {i} /\ i \notin Part(i - 1) /\ Part(i) \subseteq Part(n)
      BY <1>1, <2>1, <2>4
    <3>. HIDE DEF w, Part
    <3>4. \A s \in Part(i - 1) : x.docs[s].key # doc.key
      BY <1>3, <3>3
    <3>5. VectorDocs(w) = {x.docs[s] : s \in Part(i)}
      BY <2>2, <3>2, <3>3, <3>4
    <3>6. Good(i, w) /\ w \in VectorState
      BY <3>2, <3>5 DEF VectorInv
    <3>. HIDE DEF Good
    <3>7. Turn(i, v) = w
      BY <2>4 DEF w
    <3>. QED BY <2>1, <3>6, <3>7
  <2>. QED BY <2>3, <2>4
<1>. HIDE DEF Turn, Good
<1>6. \A i \in 1 .. n : \A v \in P[i - 1] : g[i][v] = Turn(i, v) /\ Turn(i, v) \in P[i]
  BY <1>5
<1>. HIDE DEF P, g
<1>7. \E h : Is(h)
  <2>1. \A i \in 1 .. n : \A v \in P[i - 1] : g[i][v] \in P[i]
    BY <1>6
  <2>2. PICK h : Loops(h, g, EmptyVector, n) /\ \A i \in 0 .. n : h[i] \in P[i]
    <3>. HIDE DEF n
    <3>. QED BY ONLY <1>1, <1>4, <2>1, LoopEnds
  <2>3. \A i \in 0 .. n : i # 0 => i \in 1 .. n /\ i - 1 \in 0 .. n
    BY <1>1
  <2>4. \A i \in 0 .. n : i # 0 => g[i][h[i - 1]] = Turn(i, h[i - 1])
    BY <1>6, <2>2, <2>3
  <2>5. Is(h)
    BY <2>2, <2>4 DEF Loops
  <2>. QED BY <2>5
<1>. DEFINE built == CHOOSE f : Is(f)
<1>8. rebuild(x) = built[n]
  BY DEF rebuild, Turn
<1>9. Is(built)
  BY <1>7
<1>. HIDE DEF built
<1>10. built[0] \in P[0] /\ \A i \in 1 .. n : built[i - 1] \in P[i - 1] => built[i] \in P[i]
  BY <1>1, <1>4, <1>6, <1>9
<1>11. \A i \in 0 .. n : built[i] \in P[i]
  <2>. HIDE DEF n, Is
  <2>. QED BY ONLY <1>1, <1>10, LoopKeeps
<1>12. Good(n, built[n])
  <2>1. n \in 0 .. n
    BY <1>1
  <2>. HIDE DEF n
  <2>2. built[n] \in P[n] /\ P[n] = {v \in VectorState : Good(n, v)}
    BY <1>11, <2>1 DEF P
  <2>. QED BY <2>2
<1>. QED BY <1>2, <1>8, <1>12 DEF Good, VectorDocs

-----------------------------------------------------------------------------
(* Removal, tombstones and the threshold                                   *)

Bounded(x) ==
  LET dead == Cardinality(x.tombstoned)
  IN dead < RebuildMin \/ 4 * dead < Max2(Cardinality(DOMAIN x.by_key), 1)

LEMMA KeysFinite ==
  ASSUME NEW x, VectorInv(x)
  PROVE  /\ IsFiniteSet(DOMAIN x.by_key) /\ Cardinality(DOMAIN x.by_key) \in Nat
         /\ IsFiniteSet(x.tombstoned) /\ Cardinality(x.tombstoned) \in Nat
<1>. DEFINE f == x.by_key
            S == DOMAIN x.by_key
            T == DOMAIN x.docs
<1>1. x.docs \in Seq(Doc) /\ f \in Maps /\ x.tombstoned \subseteq T
  BY DEF VectorInv, VectorState
<1>2. IsFiniteSet(T)
  BY <1>1, VecDomain
<1>3. \A key \in S : f[key] \in T /\ x.docs[f[key]].key = key
  BY DEF VectorInv, Keyed, Live
<1>4. f \in [S -> T]
  <2>1. PICK D \in SUBSET Nat : f \in [D -> Nat]
    BY <1>1 DEF Maps
  <2>. QED BY <1>3, <2>1
<1>5. \A a, b \in S : f[a] = f[b] => a = b
  BY <1>3
<1>6. f \in Injection(S, T)
  BY <1>4, <1>5 DEF Injection, IsInjective
<1>7. IsFiniteSet(x.tombstoned)
  BY <1>1, <1>2, FS_Subset
<1>. HIDE DEF f, S, T
<1>8. IsFiniteSet(S)
  BY <1>2, <1>6, FS_Injection
<1>. QED BY <1>7, <1>8, FS_CardinalityType DEF S

\* Documents that are only added keep the tombstones bounded.
LEMMA BoundedInsert ==
  ASSUME NEW x, VectorInv(x), Bounded(x), NEW y, VectorInv(y),
         y.tombstoned = x.tombstoned, DOMAIN x.by_key \subseteq DOMAIN y.by_key
  PROVE  Bounded(y)
<1>. DEFINE a == Cardinality(DOMAIN x.by_key)
            b == Cardinality(DOMAIN y.by_key)
<1>1. IsFiniteSet(DOMAIN y.by_key) /\ a \in Nat /\ b \in Nat /\ Cardinality(x.tombstoned) \in Nat
  BY KeysFinite
<1>2. a <= b
  BY <1>1, FS_Subset
<1>. HIDE DEF a, b
<1>3. Max2(a, 1) <= Max2(b, 1) /\ Max2(a, 1) \in Nat /\ Max2(b, 1) \in Nat
  BY <1>1, <1>2 DEF Max2
<1>4. Cardinality(x.tombstoned) < RebuildMin \/ 4 * Cardinality(x.tombstoned) < Max2(a, 1)
  BY DEF Bounded, a
<1>5. Cardinality(x.tombstoned) < RebuildMin \/ 4 * Cardinality(x.tombstoned) < Max2(b, 1)
  BY <1>1, <1>3, <1>4
<1>. QED BY <1>5 DEF Bounded, b

LEMMA BoundedNone ==
  ASSUME NEW x, VectorInv(x), x.tombstoned = {}
  PROVE  Bounded(x)
<1>. DEFINE a == Cardinality(DOMAIN x.by_key)
<1>1. a \in Nat /\ Cardinality(x.tombstoned) = 0
  BY KeysFinite, FS_EmptySet
<1>. HIDE DEF a
<1>2. 4 * Cardinality(x.tombstoned) < Max2(a, 1)
  BY <1>1 DEF Max2
<1>. QED BY <1>2 DEF Bounded, a

LEMMA VectorRemoveFacts ==
  ASSUME NEW x, VectorInv(x), Bounded(x), NEW key
  PROVE  /\ VectorInv(VectorRemove(x, key)) /\ Bounded(VectorRemove(x, key))
         /\ VectorDocs(VectorRemove(x, key)) = {d \in VectorDocs(x) : d.key # key}
<1>1. /\ \A k \in DOMAIN x.by_key : x.by_key[k] \in Live(x) /\ x.docs[x.by_key[k]].key = k
      /\ \A s \in Live(x) : x.docs[s].key \in DOMAIN x.by_key /\ x.by_key[x.docs[s].key] = s
  BY DEF VectorInv, Keyed
<1>2. \A d : d \in VectorDocs(x) <=> \E s \in Live(x) : d = x.docs[s]
  BY DEF VectorDocs
<1>3. CASE key \notin DOMAIN x.by_key
  <2>1. VectorRemove(x, key) = x
    BY <1>3 DEF VectorRemove
  <2>2. VectorDocs(x) = {d \in VectorDocs(x) : d.key # key}
    BY <1>1, <1>2, <1>3
  <2>. QED BY <2>1, <2>2
<1>4. CASE key \in DOMAIN x.by_key
  <2>. DEFINE slot == x.by_key[key]
              keys2 == Restrict(x.by_key, DOMAIN x.by_key \ {key})
              y == [x EXCEPT !.by_key = Restrict(@, DOMAIN @ \ {key}),
                             !.tombstoned = @ \cup {x.by_key[key]}]
              dead == Cardinality(y.tombstoned)
              live == Cardinality(DOMAIN y.by_key)
  <2>1. /\ x \in VectorState /\ x.by_key \in Maps /\ x.docs \in Seq(Doc) /\ x.tombstoned \in SUBSET Nat
        /\ DOMAIN x.texts = DOMAIN x.docs /\ x.tombstoned \subseteq DOMAIN x.docs
        /\ \A s \in Live(x) : Embedded(x.docs, x.texts, x.graph, s)
        /\ x.vectors_total = Len(x.graph) /\ \A i \in DOMAIN x.graph : x.graph[i].slot \in DOMAIN x.docs
    BY DEF VectorInv, VectorState
  <2>2. slot \in Live(x) /\ slot \in DOMAIN x.docs /\ x.docs[slot].key = key
    BY <1>1, <1>4 DEF Live
  <2>3. slot \in Nat
    <3>. HIDE DEF slot
    <3>. QED BY <2>1, <2>2, VecDomain
  <2>4. /\ keys2 \in Maps /\ DOMAIN keys2 = DOMAIN x.by_key \ {key}
        /\ \A k \in DOMAIN keys2 : keys2[k] = x.by_key[k]
    <3>. DEFINE m == x.by_key
    <3>1. m \in Maps
      BY <2>1
    <3>. HIDE DEF m
    <3>2. /\ Restrict(m, DOMAIN m \ {key}) \in Maps /\ DOMAIN Restrict(m, DOMAIN m \ {key}) = DOMAIN m \ {key}
          /\ \A k \in DOMAIN m \ {key} : Restrict(m, DOMAIN m \ {key})[k] = m[k]
      BY ONLY <3>1, MapRemove
    <3>. QED BY <3>2 DEF m
  <2>5. /\ y.docs = x.docs /\ y.texts = x.texts /\ y.by_key = keys2 /\ y.graph = x.graph
        /\ y.vectors_total = x.vectors_total
        /\ y.tombstoned = x.tombstoned \cup {slot}
        /\ y = [docs |-> x.docs, texts |-> x.texts, by_key |-> keys2, tombstoned |-> x.tombstoned \cup {slot},
                graph |-> x.graph, vectors_total |-> x.vectors_total]
    <3>1. y = [x EXCEPT !.by_key = keys2, !.tombstoned = x.tombstoned \cup {slot}]
      OBVIOUS
    <3>. HIDE DEF y, keys2, slot
    <3>2. x = [docs |-> x.docs, texts |-> x.texts, by_key |-> x.by_key, tombstoned |-> x.tombstoned,
               graph |-> x.graph, vectors_total |-> x.vectors_total]
      BY <2>1 DEF VectorState
    <3>3. y = [docs |-> x.docs, texts |-> x.texts, by_key |-> keys2, tombstoned |-> x.tombstoned \cup {slot},
               graph |-> x.graph, vectors_total |-> x.vectors_total]
      BY <3>1, <3>2
    <3>. QED BY <3>3
  <2>. HIDE DEF keys2
  <2>6. y \in VectorState
    <3>1. x.tombstoned \cup {slot} \in SUBSET Nat
      BY <2>1, <2>3
    <3>. QED BY <2>1, <2>4, <2>5, <3>1 DEF VectorState
  <2>7. VectorRemove(x, key) = IF dead >= RebuildMin /\ 4 * dead >= Max2(live, 1) THEN rebuild(y) ELSE y
    BY <1>4 DEF VectorRemove
  <2>. HIDE DEF y, dead, live
  <2>8. Live(y) = Live(x) \ {slot}
    BY <2>5 DEF Live
  <2>9. /\ \A k \in DOMAIN x.by_key : x.by_key[k] = slot => k = key
        /\ \A s \in Live(x) : x.docs[s].key = key => s = slot
    BY <1>1, <1>4
  <2>. HIDE DEF slot
  <2>10. Keyed(y.docs, Live(y), y.by_key)
    <3>1. \A k \in DOMAIN keys2 : keys2[k] \in Live(y) /\ x.docs[keys2[k]].key = k
      BY <1>1, <2>4, <2>8, <2>9
    <3>2. \A s \in Live(y) : x.docs[s].key \in DOMAIN keys2 /\ keys2[x.docs[s].key] = s
      BY <1>1, <2>4, <2>8, <2>9
    <3>. QED BY <2>5, <3>1, <3>2 DEF Keyed
  <2>11. VectorInv(y)
    BY <2>1, <2>2, <2>5, <2>6, <2>8, <2>10 DEF VectorInv
  <2>12. VectorDocs(y) = {d \in VectorDocs(x) : d.key # key}
    <3>1. \A d : d \in VectorDocs(y) <=> \E s \in Live(y) : d = x.docs[s]
      BY <2>5 DEF VectorDocs
    <3>. QED BY <1>2, <2>2, <2>8, <2>9, <3>1
  <2>13. CASE dead >= RebuildMin /\ 4 * dead >= Max2(live, 1)
    <3>1. VectorInv(rebuild(y)) /\ VectorDocs(rebuild(y)) = VectorDocs(y) /\ rebuild(y).tombstoned = {}
      BY <2>11, RebuildFacts
    <3>. QED BY <2>7, <2>12, <2>13, <3>1, BoundedNone
  <2>14. CASE ~(dead >= RebuildMin /\ 4 * dead >= Max2(live, 1))
    <3>1. dead \in Nat /\ live \in Nat
      BY <2>11, KeysFinite DEF dead, live
    <3>2. Max2(live, 1) \in Nat
      BY <3>1 DEF Max2
    <3>3. dead < RebuildMin \/ 4 * dead < Max2(live, 1)
      BY <2>14, <3>1, <3>2, RebuildAssumption
    <3>4. Bounded(y)
      BY <3>3 DEF Bounded, dead, live
    <3>. QED BY <2>7, <2>11, <2>12, <2>14, <3>4
  <2>. QED BY <2>13, <2>14
<1>. QED BY <1>3, <1>4

-----------------------------------------------------------------------------
(* Both indexes                                                            *)

StoreState == [keyword : KeywordState, vector : VectorState]

\* What the lock protects: two exact indexes of the same documents
StoreInv(st) ==
  /\ KeywordInv(st.keyword)
  /\ VectorInv(st.vector) /\ Bounded(st.vector)
  /\ Documents(st.keyword) = VectorDocs(st.vector)

LEMMA StoreInsert ==
  ASSUME NEW st, StoreInv(st), NEW doc \in Doc, NEW order \in UNION {Orders[t] : t \in Texts},
         NEW after, after.keyword = KeywordInsert(st.keyword, doc),
         after.vector = VectorInsert(st.vector, doc, order)
  PROVE  /\ StoreInv(after)
         /\ Documents(after.keyword) = {d \in Documents(st.keyword) : d.key # doc.key} \cup {doc}
<1>1. KeywordInv(st.keyword) /\ VectorInv(st.vector) /\ Bounded(st.vector) /\ Documents(st.keyword) = VectorDocs(st.vector)
  BY DEF StoreInv
<1>2. KeywordInv(after.keyword) /\ Documents(after.keyword) = {d \in Documents(st.keyword) : d.key # doc.key} \cup {doc}
  BY <1>1, KeywordInsertFacts
<1>3. /\ VectorInv(after.vector) /\ VectorDocs(after.vector) = {d \in VectorDocs(st.vector) : d.key # doc.key} \cup {doc}
      /\ after.vector.tombstoned = st.vector.tombstoned /\ DOMAIN st.vector.by_key \subseteq DOMAIN after.vector.by_key
  BY <1>1, VectorInsertFacts
<1>4. Bounded(after.vector)
  BY <1>1, <1>3, BoundedInsert
<1>. QED BY <1>1, <1>2, <1>3, <1>4 DEF StoreInv

LEMMA StoreRemove ==
  ASSUME NEW st, StoreInv(st), NEW key
  PROVE  /\ StoreInv(remove(st, key)) /\ remove(st, key) \in StoreState
         /\ Documents(remove(st, key).keyword) = {d \in Documents(st.keyword) : d.key # key}
<1>. DEFINE after == remove(st, key)
<1>1. KeywordInv(st.keyword) /\ VectorInv(st.vector) /\ Bounded(st.vector) /\ Documents(st.keyword) = VectorDocs(st.vector)
  BY DEF StoreInv
<1>2. after.keyword = KeywordRemove(st.keyword, key) /\ after.vector = VectorRemove(st.vector, key)
      /\ after = [keyword |-> after.keyword, vector |-> after.vector]
  BY DEF remove
<1>. HIDE DEF after
<1>3. KeywordInv(after.keyword) /\ Documents(after.keyword) = {d \in Documents(st.keyword) : d.key # key}
  BY <1>1, <1>2, KeywordRemoveFacts
<1>4. VectorInv(after.vector) /\ Bounded(after.vector) /\ VectorDocs(after.vector) = {d \in VectorDocs(st.vector) : d.key # key}
  BY <1>1, <1>2, VectorRemoveFacts
<1>5. after \in StoreState
  BY <1>2, <1>3, <1>4 DEF StoreState, KeywordInv, VectorInv
<1>6. StoreInv(after)
  BY <1>1, <1>3, <1>4 DEF StoreInv
<1>. QED BY <1>3, <1>5, <1>6 DEF after

\* An eviction removes the documents of the virtual shard, and no other.
LEMMA EvictedFacts ==
  ASSUME StoreInv(Both), NEW v
  PROVE  /\ StoreInv(Evicted(v, Len(keyword.docs)))
         /\ Documents(Evicted(v, Len(keyword.docs)).keyword) = {d \in Documents(keyword) : vshard_for(d.key) # v}
<1>. DEFINE n == Len(keyword.docs)
            Leaving(i) == keyword.docs[i] # NoDoc /\ vshard_for(keyword.docs[i].key) = v
            Gone(i) == {keyword.docs[s].key : s \in {r \in 1 .. i : Leaving(r)}}
            Good(i, st) == StoreInv(st) /\ Documents(st.keyword) = {d \in Documents(keyword) : d.key \notin Gone(i)}
            Turn(i, st) == IF Leaving(i) THEN remove(st, keyword.docs[i].key) ELSE st
            P == [i \in 0 .. n |-> {st \in StoreState : Good(i, st)}]
            g == [i \in 1 .. n |-> [st \in P[i - 1] |-> Turn(i, st)]]
            Is(f) == f = [s \in 0 .. n |-> IF s = 0 THEN Both ELSE Turn(s, f[s - 1])]
<1>1. n \in Nat /\ DOMAIN keyword.docs = 1 .. n
  <2>1. keyword.docs \in Seq(Doc \cup {NoDoc})
    BY DEF StoreInv, Both, KeywordInv, KeywordState
  <2>. QED BY <2>1
<1>2. Both \in P[0]
  <2>1. Gone(0) = {}
    OBVIOUS
  <2>2. Good(0, Both) /\ Both \in StoreState
    BY <2>1 DEF StoreInv, Both, StoreState, KeywordInv, VectorInv
  <2>. QED BY <1>1, <2>2
<1>3. ASSUME NEW i \in 1 .. n, NEW st \in P[i - 1] PROVE Turn(i, st) \in P[i]
  <2>1. i - 1 \in 0 .. n /\ i \in 0 .. n /\ i \in Nat /\ i - 1 \in Nat
    BY <1>1
  <2>2. Good(i - 1, st) /\ st \in StoreState
    BY <2>1
  <2>3. CASE ~Leaving(i)
    <3>1. {r \in 1 .. i : Leaving(r)} = {r \in 1 .. i - 1 : Leaving(r)}
      <4>. HIDE DEF Leaving
      <4>. QED BY <2>1, <2>3
    <3>2. Gone(i) = Gone(i - 1)
      BY <3>1
    <3>. HIDE DEF Gone, Leaving
    <3>3. Good(i, st) /\ Turn(i, st) = st
      BY <2>2, <2>3, <3>2
    <3>. QED BY <2>1, <2>2, <3>3
  <2>4. CASE Leaving(i)
    <3>. DEFINE key == keyword.docs[i].key
    <3>1. {r \in 1 .. i : Leaving(r)} = {r \in 1 .. i - 1 : Leaving(r)} \cup {i}
      <4>. HIDE DEF Leaving
      <4>. QED BY <2>1, <2>4
    <3>2. Gone(i) = Gone(i - 1) \cup {key}
      BY <3>1
    <3>3. StoreInv(remove(st, key)) /\ remove(st, key) \in StoreState
          /\ Documents(remove(st, key).keyword) = {d \in Documents(st.keyword) : d.key # key}
      <4>1. StoreInv(st)
        BY <2>2
      <4>. HIDE DEF key
      <4>. QED BY ONLY <4>1, StoreRemove
    <3>. HIDE DEF Gone, Leaving
    <3>4. Good(i, remove(st, key)) /\ Turn(i, st) = remove(st, key)
      BY <2>2, <2>4, <3>2, <3>3
    <3>. HIDE DEF Good, Turn
    <3>. QED BY <2>1, <3>3, <3>4
  <2>. QED BY <2>3, <2>4
<1>. HIDE DEF Turn, Good
<1>4. \A i \in 1 .. n : \A st \in P[i - 1] : g[i][st] = Turn(i, st) /\ Turn(i, st) \in P[i]
  BY <1>3
<1>. HIDE DEF P, g
<1>5. \E h : Is(h)
  <2>1. \A i \in 1 .. n : \A st \in P[i - 1] : g[i][st] \in P[i]
    BY <1>4
  <2>2. PICK h : Loops(h, g, Both, n) /\ \A i \in 0 .. n : h[i] \in P[i]
    <3>. HIDE DEF n
    <3>. QED BY ONLY <1>1, <1>2, <2>1, LoopEnds
  <2>3. \A i \in 0 .. n : i # 0 => i \in 1 .. n /\ i - 1 \in 0 .. n
    BY <1>1
  <2>4. \A i \in 0 .. n : i # 0 => g[i][h[i - 1]] = Turn(i, h[i - 1])
    BY <1>4, <2>2, <2>3
  <2>5. Is(h)
    BY <2>2, <2>4 DEF Loops
  <2>. QED BY <2>5
<1>. DEFINE left == CHOOSE f : Is(f)
<1>6. Evicted(v, n) = left[n]
  BY DEF Evicted, Turn
<1>7. Is(left)
  BY <1>5
<1>. HIDE DEF left
<1>8. left[0] \in P[0] /\ \A i \in 1 .. n : left[i - 1] \in P[i - 1] => left[i] \in P[i]
  BY <1>1, <1>2, <1>4, <1>7
<1>9. \A i \in 0 .. n : left[i] \in P[i]
  <2>. HIDE DEF n, Is
  <2>. QED BY ONLY <1>1, <1>8, LoopKeeps
<1>10. Good(n, left[n])
  <2>1. n \in 0 .. n
    BY <1>1
  <2>. HIDE DEF n
  <2>2. left[n] \in P[n] /\ P[n] = {st \in StoreState : Good(n, st)}
    BY <1>9, <2>1 DEF P
  <2>. QED BY <2>2
<1>11. \A d \in Documents(keyword) : d.key \in Gone(n) <=> vshard_for(d.key) = v
  <2>1. ASSUME NEW d \in Documents(keyword) PROVE \E s \in 1 .. n : d = keyword.docs[s] /\ d # NoDoc
    BY <1>1, <2>1 DEF Documents
  <2>2. ASSUME NEW d \in Documents(keyword), vshard_for(d.key) = v PROVE d.key \in Gone(n)
    BY <2>1, <2>2
  <2>3. ASSUME NEW d \in Documents(keyword), d.key \in Gone(n) PROVE vshard_for(d.key) = v
    BY <2>3
  <2>. QED BY <2>2, <2>3
<1>. QED BY <1>6, <1>10, <1>11 DEF Good

\* Indexes filled from a snapshot have its documents.
LEMMA RefilledFacts ==
  ASSUME NEW docs \in Seq(Doc), \A i, j \in DOMAIN docs : docs[i].key = docs[j].key => i = j,
         NEW order, \A i \in DOMAIN docs : order[i] \in UNION {Orders[t] : t \in Texts}
  PROVE  /\ StoreInv(Refilled(docs, order))
         /\ Documents(Refilled(docs, order).keyword) = ToSet(docs)
<1>. DEFINE n == Len(docs)
            start == [keyword |-> EmptyKeyword, vector |-> EmptyVector]
            Good(i, st) == StoreInv(st) /\ Documents(st.keyword) = {docs[s] : s \in 1 .. i}
            Turn(i, st) == [keyword |-> KeywordInsert(st.keyword, docs[i]),
                            vector  |-> VectorInsert(st.vector, docs[i], order[i])]
            P == [i \in 0 .. n |-> {st \in StoreState : Good(i, st)}]
            g == [i \in 1 .. n |-> [st \in P[i - 1] |-> Turn(i, st)]]
            Is(f) == f = [i \in 0 .. n |-> IF i = 0 THEN start ELSE Turn(i, f[i - 1])]
<1>1. n \in Nat /\ DOMAIN docs = 1 .. n /\ \A i \in 1 .. n : docs[i] \in Doc
  OBVIOUS
<1>2. start \in P[0]
  <2>1. {docs[s] : s \in 1 .. 0} = {}
    OBVIOUS
  <2>2. Bounded(EmptyVector)
    BY EmptyVectorFacts, BoundedNone
  <2>3. Good(0, start) /\ start \in StoreState
    BY <2>1, <2>2, EmptyKeywordFacts, EmptyVectorFacts DEF StoreInv, StoreState, KeywordInv, VectorInv
  <2>. QED BY <1>1, <2>3
<1>3. ASSUME NEW i \in 1 .. n, NEW st \in P[i - 1] PROVE Turn(i, st) \in P[i]
  <2>. DEFINE after == Turn(i, st)
              doc == docs[i]
  <2>1. i - 1 \in 0 .. n /\ i \in 0 .. n /\ i \in Nat /\ i - 1 \in Nat
    BY <1>1
  <2>2. Good(i - 1, st) /\ st \in StoreState /\ doc \in Doc /\ order[i] \in UNION {Orders[t] : t \in Texts}
    BY <1>1, <2>1
  <2>3. /\ after.keyword = KeywordInsert(st.keyword, doc)
        /\ after.vector = VectorInsert(st.vector, doc, order[i])
        /\ after = [keyword |-> after.keyword, vector |-> after.vector]
    OBVIOUS
  <2>4. 1 .. i = (1 .. i - 1) \cup {i} /\ i \notin 1 .. i - 1 /\ 1 .. i \subseteq 1 .. n
    BY <1>1, <2>1
  <2>. HIDE DEF after, Turn
  <2>5. StoreInv(after) /\ Documents(after.keyword) = {d \in Documents(st.keyword) : d.key # doc.key} \cup {doc}
    <3>. DEFINE o == order[i]
    <3>1. /\ StoreInv(st) /\ doc \in Doc /\ o \in UNION {Orders[t] : t \in Texts}
          /\ after.keyword = KeywordInsert(st.keyword, doc) /\ after.vector = VectorInsert(st.vector, doc, o)
      BY <2>2, <2>3
    <3>. HIDE DEF o, doc
    <3>. QED BY ONLY <3>1, StoreInsert
  <2>6. \A s \in 1 .. i - 1 : docs[s].key # doc.key
    BY <1>1, <2>4
  <2>7. Documents(after.keyword) = {docs[s] : s \in 1 .. i}
    BY <2>2, <2>4, <2>5, <2>6
  <2>8. after \in StoreState
    BY <2>3, <2>5 DEF StoreState, StoreInv, KeywordInv, VectorInv
  <2>9. after \in P[i]
    BY <2>1, <2>5, <2>7, <2>8
  <2>. QED BY <2>9 DEF after
<1>. HIDE DEF Turn, Good, start
<1>4. \A i \in 1 .. n : \A st \in P[i - 1] : g[i][st] = Turn(i, st) /\ Turn(i, st) \in P[i]
  BY <1>3
<1>. HIDE DEF P, g
<1>5. \E h : Is(h)
  <2>1. \A i \in 1 .. n : \A st \in P[i - 1] : g[i][st] \in P[i]
    BY <1>4
  <2>2. PICK h : Loops(h, g, start, n) /\ \A i \in 0 .. n : h[i] \in P[i]
    <3>. HIDE DEF n
    <3>. QED BY ONLY <1>1, <1>2, <2>1, LoopEnds
  <2>3. \A i \in 0 .. n : i # 0 => i \in 1 .. n /\ i - 1 \in 0 .. n
    BY <1>1
  <2>4. \A i \in 0 .. n : i # 0 => g[i][h[i - 1]] = Turn(i, h[i - 1])
    BY <1>4, <2>2, <2>3
  <2>5. Is(h)
    BY <2>2, <2>4 DEF Loops
  <2>. QED BY <2>5
<1>. DEFINE filled == CHOOSE f : Is(f)
<1>6. Refilled(docs, order) = filled[n]
  BY DEF Refilled, Turn, start
<1>7. Is(filled)
  BY <1>5
<1>. HIDE DEF filled
<1>8. filled[0] \in P[0] /\ \A i \in 1 .. n : filled[i - 1] \in P[i - 1] => filled[i] \in P[i]
  BY <1>1, <1>2, <1>4, <1>7
<1>9. \A i \in 0 .. n : filled[i] \in P[i]
  <2>. HIDE DEF n, Is
  <2>. QED BY ONLY <1>1, <1>8, LoopKeeps
<1>10. Good(n, filled[n])
  <2>1. n \in 0 .. n
    BY <1>1
  <2>. HIDE DEF n
  <2>2. filled[n] \in P[n] /\ P[n] = {st \in StoreState : Good(n, st)}
    BY <1>9, <2>1 DEF P
  <2>. QED BY <2>2
<1>. QED BY <1>1, <1>6, <1>10 DEF Good, ToSet

-----------------------------------------------------------------------------
(* The store's specification                                               *)

StoreHolds == StoreInv(Both) /\ mode \in BOOLEAN

LEMMA StoreInitial == Init => StoreHolds
<1>. SUFFICES ASSUME Init PROVE StoreHolds
  OBVIOUS
<1>1. keyword = EmptyKeyword /\ vector = EmptyVector /\ mode \in BOOLEAN
  BY DEF Init
<1>2. Bounded(EmptyVector)
  BY EmptyVectorFacts, BoundedNone
<1>3. Both.keyword = EmptyKeyword /\ Both.vector = EmptyVector
  BY <1>1 DEF Both
<1>. QED BY <1>1, <1>2, <1>3, EmptyKeywordFacts, EmptyVectorFacts DEF StoreHolds, StoreInv

LEMMA InsertStep ==
  ASSUME StoreHolds, NEW doc \in Doc, NEW order \in Orders[doc.text], insert(doc, order)
  PROVE  /\ StoreHolds'
         /\ Documents(keyword)' = {d \in Documents(keyword) : d.key # doc.key} \cup {doc}
<1>. DEFINE after == [keyword |-> KeywordInsert(keyword, doc), vector |-> VectorInsert(vector, doc, order)]
<1>1. order \in UNION {Orders[t] : t \in Texts}
  BY DocFacts
<1>2. StoreInv(Both) /\ Both.keyword = keyword /\ Both.vector = vector
  BY DEF StoreHolds, Both
<1>3. after.keyword = KeywordInsert(Both.keyword, doc) /\ after.vector = VectorInsert(Both.vector, doc, order)
  BY <1>2
<1>4. after = Both' /\ after.keyword = keyword' /\ mode' = mode
  BY DEF insert, Both
<1>. HIDE DEF after
<1>5. /\ StoreInv(after)
      /\ Documents(after.keyword) = {d \in Documents(Both.keyword) : d.key # doc.key} \cup {doc}
  BY <1>1, <1>2, <1>3, StoreInsert
<1>6. StoreInv(Both') /\ Documents(keyword') = {d \in Documents(keyword) : d.key # doc.key} \cup {doc}
  BY <1>2, <1>4, <1>5
<1>. QED BY <1>4, <1>6 DEF StoreHolds

LEMMA EvictStep ==
  ASSUME StoreHolds, NEW v, evict_vshard(v)
  PROVE  StoreHolds' /\ Documents(keyword)' = {d \in Documents(keyword) : vshard_for(d.key) # v}
<1>. DEFINE left == Evicted(v, Len(keyword.docs))
<1>1. StoreInv(left) /\ Documents(left.keyword) = {d \in Documents(keyword) : vshard_for(d.key) # v}
  BY EvictedFacts DEF StoreHolds
<1>2. keyword' = left.keyword /\ vector' = left.vector /\ mode' = mode
  BY DEF evict_vshard
<1>. HIDE DEF left
<1>3. Both'.keyword = left.keyword /\ Both'.vector = left.vector
  BY <1>2 DEF Both
<1>4. StoreInv(Both') /\ Documents(keyword') = {d \in Documents(keyword) : vshard_for(d.key) # v}
  BY <1>1, <1>2, <1>3 DEF StoreInv
<1>. QED BY <1>2, <1>4 DEF StoreHolds

LEMMA ReplaceStep ==
  ASSUME NEW docs \in Snapshots, NEW order, \A i \in DOMAIN docs : order[i] \in Orders[docs[i].text],
         replace_all(docs, order)
  PROVE  /\ StoreHolds' /\ Documents(keyword)' = ToSet(docs)
         /\ ToSet(docs) \in SUBSET Doc /\ \A a, b \in ToSet(docs) : a.key = b.key => a = b
<1>. DEFINE filled == Refilled(docs, order)
<1>1. PICK n \in 0 .. MaxSnapshot : docs \in [1 .. n -> Doc]
  BY DEF Snapshots
<1>2. docs \in Seq(Doc) /\ \A i \in DOMAIN docs : docs[i] \in Doc
  <2>1. n \in Nat
    BY <1>1
  <2>. QED BY <1>1, <2>1
<1>3. \A i, j \in DOMAIN docs : docs[i].key = docs[j].key => i = j
  BY DEF Snapshots
<1>4. \A i \in DOMAIN docs : order[i] \in UNION {Orders[t] : t \in Texts}
  BY <1>2, DocFacts
<1>5. StoreInv(filled) /\ Documents(filled.keyword) = ToSet(docs)
  BY <1>2, <1>3, <1>4, RefilledFacts
<1>6. keyword' = filled.keyword /\ vector' = filled.vector /\ mode' = FALSE
  BY DEF replace_all
<1>. HIDE DEF filled
<1>7. Both'.keyword = filled.keyword /\ Both'.vector = filled.vector
  BY <1>6 DEF Both
<1>8. StoreInv(Both') /\ Documents(keyword') = ToSet(docs)
  BY <1>5, <1>6, <1>7 DEF StoreInv
<1>9. \A a \in ToSet(docs) : \E i \in DOMAIN docs : a = docs[i]
  BY DEF ToSet
<1>10. ToSet(docs) \in SUBSET Doc /\ \A a, b \in ToSet(docs) : a.key = b.key => a = b
  BY <1>2, <1>3, <1>9
<1>. QED BY <1>6, <1>8, <1>10 DEF StoreHolds

LEMMA StoreStep == StoreHolds /\ [Next]_vars => StoreHolds'
<1>. SUFFICES ASSUME StoreHolds, [Next]_vars PROVE StoreHolds'
  OBVIOUS
<1>1. ASSUME NEW doc \in Doc, NEW order \in Orders[doc.text], insert(doc, order) PROVE StoreHolds'
  BY <1>1, InsertStep
<1>2. ASSUME NEW v \in VShards, evict_vshard(v) PROVE StoreHolds'
  BY <1>2, EvictStep
<1>3. ASSUME NEW docs \in Snapshots,
             NEW order \in {f \in [DOMAIN docs -> UNION Range(Orders)] :
                              \A i \in DOMAIN docs : f[i] \in Orders[docs[i].text]},
             replace_all(docs, order)
      PROVE  StoreHolds'
  BY <1>3, ReplaceStep
<1>4. CASE UNCHANGED vars
  <2>1. Both' = Both /\ mode' = mode
    BY <1>4 DEF vars, Both
  <2>. QED BY <2>1 DEF StoreHolds
<1>. QED BY <1>1, <1>2, <1>3, <1>4 DEF Next

LEMMA StoreAlways == Spec => []StoreHolds
<1>. QED BY StoreInitial, StoreStep, PTL DEF Spec

\* The lengths are naturals, so what is left of them after a removal is one too.
LEMMA SumNat ==
  ASSUME NEW f, Integers(f, DOMAIN f), \A x \in DOMAIN f : f[x] \in Nat
  PROVE  SumFunction(f) \in Nat
<1>. DEFINE S == DOMAIN f
<1>1. PICK h, c : Chooses(c, S) /\ Sums(h, f, c, S) /\ SumFunctionOnSet(f, S) = h[S]
  BY SumIsSums
<1>2. \A s \in SUBSET S : /\ h[s] \in Int
                          /\ s = {} => h[s] = 0
                          /\ \A x \in s : h[s] = f[x] + h[s \ {x}]
  <2>1. IsFiniteSet(S) /\ (\A x \in S : f[x] \in Int) /\ Chooses(c, S) /\ Sums(h, f, c, S)
    BY <1>1 DEF Integers
  <2>. HIDE DEF S
  <2>2. \A s \in SUBSET S : h[s] \in Int
    BY ONLY <2>1, SumsTake
  <2>3. \A s \in SUBSET S : s = {} => h[s] = 0
    BY ONLY <2>1, SumsTake
  <2>4. ASSUME NEW s \in SUBSET S, NEW x \in s PROVE h[s] = f[x] + h[s \ {x}]
    BY <2>1, SumsTake
  <2>. QED BY <2>2, <2>3, <2>4
<1>. DEFINE F == {s \in SUBSET S : ~(h[s] >= 0)}
<1>3. F = {}
  <2>. SUFFICES ASSUME F # {} PROVE FALSE
    OBVIOUS
  <2>1. PICK s \in F : \A t \in F : ~(t \subseteq s /\ t # s)
    <3>1. \A t \in F : IsFiniteSet(t)
      BY FS_Subset DEF Integers
    <3>. HIDE DEF F
    <3>. QED BY <3>1, SmallestSet
  <2>2. s \in SUBSET S /\ ~(h[s] >= 0)
    OBVIOUS
  <2>3. PICK x \in s : TRUE
    BY <1>2, <2>2
  <2>4. s \ {x} \in SUBSET S /\ s \ {x} \notin F
    BY <2>1, <2>2, <2>3
  <2>5. h[s \ {x}] >= 0 /\ h[s \ {x}] \in Int /\ h[s] = f[x] + h[s \ {x}] /\ f[x] \in Nat
    BY <1>2, <2>2, <2>3, <2>4
  <2>. QED BY <2>2, <2>5
<1>4. h[S] \in Int /\ h[S] >= 0
  BY <1>2, <1>3
<1>. QED BY <1>1, <1>4 DEF SumFunction

LEMMA DocLenNat ==
  ASSUME NEW x \in Texts
  PROVE  DocLen(x) \in Nat
<1>. DEFINE f == [t \in Posted(x) |-> Freq[x][t]]
<1>1. Integers(f, Posted(x)) /\ DOMAIN f = Posted(x) /\ \A t \in Posted(x) : f[t] \in Nat
  BY FreqAssumption DEF Integers, Posted
<1>. HIDE DEF f
<1>2. SumFunction(f) \in Nat
  BY <1>1, SumNat
<1>. QED BY <1>2 DEF f, DocLen

LEMMA LengthNat ==
  ASSUME NEW docs, NEW L, IsFiniteSet(L), Texted(docs, L)
  PROVE  LengthOf(docs, L) \in Nat
<1>. DEFINE f == [s \in L |-> DocLen(docs[s].text)]
<1>1. Integers(f, L) /\ DOMAIN f = L /\ \A s \in L : f[s] \in Nat
  BY DocLenNat DEF Integers, Texted
<1>. HIDE DEF f
<1>2. SumFunction(f) \in Nat
  BY <1>1, SumNat
<1>. QED BY <1>2 DEF f, LengthOf

\* The state of both indexes is well typed: slots are in range, and the summed
\* length of the documents never goes below zero.
THEOREM StoreTypeCorrect == Spec => []TypeOK
<1>1. StoreHolds => TypeOK
  <2>. SUFFICES ASSUME StoreHolds PROVE TypeOK
    OBVIOUS
  <2>1. KeywordInv(keyword) /\ VectorInv(vector) /\ mode \in BOOLEAN
    BY DEF StoreHolds, StoreInv, Both
  <2>2. keyword.docs \in Seq(Doc \cup {NoDoc}) /\ keyword.by_key \in Maps /\ vector.docs \in Seq(Doc)
        /\ vector.by_key \in Maps /\ vector.vectors_total \in Nat
    BY <2>1 DEF KeywordInv, KeywordState, VectorInv, VectorState
  <2>3. keyword.total_len \in Nat
    <3>. DEFINE docs == keyword.docs
                L == LiveSlots(keyword.docs)
    <3>1. docs \in Seq(Doc \cup {NoDoc})
      BY <2>2
    <3>2. keyword.total_len = LengthOf(docs, L)
      BY <2>1 DEF KeywordInv
    <3>3. IsFiniteSet(L) /\ Texted(docs, L)
      BY <3>1, LiveFacts
    <3>. HIDE DEF docs, L
    <3>. QED BY <3>2, <3>3, LengthNat
  <2>4. \A m \in Maps : \A D : (\A key \in DOMAIN m : m[key] \in D) => m \in [DOMAIN m -> D]
    BY DEF Maps
  <2>5. keyword.by_key \in [DOMAIN keyword.by_key -> DOMAIN keyword.docs]
    <3>1. \A key \in DOMAIN keyword.by_key : keyword.by_key[key] \in DOMAIN keyword.docs
      BY <2>1 DEF KeywordInv, KeysRight, LiveSlots
    <3>. QED BY <2>2, <2>4, <3>1
  <2>6. vector.by_key \in [DOMAIN vector.by_key -> DOMAIN vector.docs]
    <3>1. \A key \in DOMAIN vector.by_key : vector.by_key[key] \in DOMAIN vector.docs
      BY <2>1 DEF VectorInv, Keyed, Live
    <3>. QED BY <2>2, <2>4, <3>1
  <2>7. DOMAIN vector.texts = DOMAIN vector.docs /\ vector.tombstoned \subseteq DOMAIN vector.docs
    BY <2>1 DEF VectorInv
  <2>. QED BY <2>1, <2>2, <2>3, <2>5, <2>6, <2>7 DEF TypeOK
<1>. QED BY <1>1, StoreAlways, PTL

\* After any mix of upserts, evictions and snapshots the postings, the free list,
\* the key map and the BM25 lengths are exactly those of the live documents, and
\* every live document's current vector is in the graph.
THEOREM IndexesExactAlways == Spec => []IndexesExact
<1>1. StoreHolds => IndexesExact
  <2>. SUFFICES ASSUME StoreHolds PROVE IndexesExact
    OBVIOUS
  <2>1. KeywordInv(keyword) /\ VectorInv(vector)
    BY DEF StoreHolds, StoreInv, Both
  <2>2. KeywordExact
    <3>. DEFINE L == LiveSlots(keyword.docs)
    <3>1. /\ KeysRight(keyword.docs, keyword.by_key) /\ FreeRight(keyword.docs, keyword.free)
          /\ PostingsOf(keyword.postings, keyword.docs, L)
          /\ \A s \in L : keyword.doc_len[s] = DocLen(keyword.docs[s].text)
          /\ keyword.total_len = LengthOf(keyword.docs, L)
      BY <2>1 DEF KeywordInv
    <3>2. Range(keyword.by_key) = L
      BY <3>1 DEF Range, KeysRight
    <3>3. \A s \in DOMAIN keyword.docs : keyword.docs[s] # NoDoc <=> s \in L
      BY DEF LiveSlots
    <3>4. \A key \in DOMAIN keyword.by_key : keyword.docs[keyword.by_key[key]].key = key
      BY <3>1 DEF KeysRight
    <3>5. ToSet(keyword.free) = DOMAIN keyword.docs \ L /\ IsInjective(keyword.free)
      BY <3>1 DEF FreeRight, ToSet, LiveSlots
    <3>. HIDE DEF L
    <3>6. \A t \in Terms : keyword.postings[t] =
            {[doc_id |-> s, term_freq |-> Freq[keyword.docs[s].text][t]] :
               s \in {r \in L : Freq[keyword.docs[r].text][t] > 0}}
      <4>. SUFFICES ASSUME NEW t \in Terms
                    PROVE  keyword.postings[t] =
                             {[doc_id |-> s, term_freq |-> Freq[keyword.docs[s].text][t]] :
                                s \in {r \in L : Freq[keyword.docs[r].text][t] > 0}}
        OBVIOUS
      <4>1. \A p : p \in keyword.postings[t] <=>
              \E s \in L : /\ Freq[keyword.docs[s].text][t] > 0
                           /\ p = [doc_id |-> s, term_freq |-> Freq[keyword.docs[s].text][t]]
        BY <3>1 DEF PostingsOf
      <4>. QED BY <4>1
    <3>. QED BY <3>1, <3>2, <3>3, <3>4, <3>5, <3>6 DEF KeywordExact, LengthOf
  <2>3. VectorExact
    <3>1. Keyed(vector.docs, Live(vector), vector.by_key)
      BY <2>1 DEF VectorInv
    <3>2. Range(vector.by_key) = Live(vector)
      BY <3>1 DEF Range, Keyed
    <3>3. ASSUME NEW key \in DOMAIN vector.by_key, NEW s, s = vector.by_key[key]
          PROVE  /\ vector.docs[s].key = key /\ vector.texts[s].text = vector.docs[s].text
                 /\ [slot |-> s, text |-> vector.docs[s].text] \in ToSet(vector.graph)
      <4>1. s \in Live(vector) /\ vector.docs[s].key = key
        BY <3>1, <3>3 DEF Keyed
      <4>2. Embedded(vector.docs, vector.texts, vector.graph, s)
        BY <2>1, <4>1 DEF VectorInv
      <4>. QED BY <4>1, <4>2 DEF Embedded, ToSet
    <3>. QED BY <3>2, <3>3 DEF VectorExact
  <2>. QED BY <2>2, <2>3 DEF IndexesExact
<1>. QED BY <1>1, StoreAlways, PTL

\* Removals never leave more tombstones than the rebuild threshold allows.
THEOREM GarbageBoundedAlways == Spec => []GarbageBounded
<1>1. StoreHolds => GarbageBounded
  BY DEF StoreHolds, StoreInv, Both, Bounded, GarbageBounded
<1>. QED BY <1>1, StoreAlways, PTL

\* Each of the two indexes implements the map from aircraft to latest document.
THEOREM StoreImplements == Spec => Implements
<1>1. Init => KeywordMap!Init /\ VectorMap!Init
  <2>. SUFFICES ASSUME Init PROVE KeywordMap!Init /\ VectorMap!Init
    OBVIOUS
  <2>1. Documents(keyword) = {} /\ VectorDocs(vector) = {} /\ call = [op |-> "new"]
    BY EmptyKeywordFacts, EmptyVectorFacts DEF Init
  <2>. QED BY <2>1 DEF KeywordMap!Init, VectorMap!Init, KeywordContent, VectorContent, VectorDocs
<1>2. StoreHolds => KeywordContent = VectorContent
  BY DEF StoreHolds, StoreInv, Both, KeywordContent, VectorContent, VectorDocs
<1>3. StoreHolds /\ StoreHolds' /\ [Next]_vars =>
        /\ [KeywordMap!Next]_<<KeywordContent, call>> /\ [VectorMap!Next]_<<VectorContent, call>>
  <2>. SUFFICES ASSUME StoreHolds, StoreHolds', [Next]_vars
                PROVE  /\ [KeywordMap!Next]_<<KeywordContent, call>> /\ [VectorMap!Next]_<<VectorContent, call>>
    OBVIOUS
  <2>1. KeywordContent = VectorContent /\ KeywordContent' = VectorContent'
    <3>1. StoreHolds' => KeywordContent' = VectorContent'
      BY DEF StoreHolds, StoreInv, Both, KeywordContent, VectorContent, VectorDocs, Documents, Live
    <3>. QED BY <1>2, <3>1
  <2>2. ASSUME NEW doc \in Doc, NEW order \in Orders[doc.text], insert(doc, order)
        PROVE  KeywordMap!Next /\ VectorMap!Next
    <3>1. KeywordContent' = {d \in KeywordContent : d.key # doc.key} \cup {doc}
      BY <2>2, InsertStep DEF KeywordContent
    <3>2. call' = [op |-> "insert", doc |-> doc]
      BY <2>2 DEF insert
    <3>. HIDE DEF KeywordContent, VectorContent
    <3>3. KeywordMap!Upsert(doc) /\ VectorMap!Upsert(doc)
      BY <2>1, <3>1, <3>2 DEF KeywordMap!Upsert, VectorMap!Upsert
    <3>. QED BY <3>3 DEF KeywordMap!Next, VectorMap!Next
  <2>3. ASSUME NEW v \in VShards, evict_vshard(v)
        PROVE  KeywordMap!Next /\ VectorMap!Next
    <3>1. KeywordContent' = {d \in KeywordContent : vshard_for(d.key) # v}
      BY <2>3, EvictStep DEF KeywordContent
    <3>2. call' = [op |-> "evict", vshard |-> v]
      BY <2>3 DEF evict_vshard
    <3>3. KeywordMap!Evict(v) /\ VectorMap!Evict(v)
      BY <2>1, <3>1, <3>2 DEF KeywordMap!Evict, VectorMap!Evict
    <3>. QED BY <3>3 DEF KeywordMap!Next, VectorMap!Next
  <2>4. ASSUME NEW docs \in Snapshots,
               NEW order \in {f \in [DOMAIN docs -> UNION Range(Orders)] :
                                \A i \in DOMAIN docs : f[i] \in Orders[docs[i].text]},
               replace_all(docs, order)
        PROVE  KeywordMap!Next /\ VectorMap!Next
    <3>1. /\ KeywordContent' = ToSet(docs) /\ ToSet(docs) \in SUBSET Doc
          /\ \A a, b \in ToSet(docs) : a.key = b.key => a = b
      BY <2>4, ReplaceStep DEF KeywordContent
    <3>2. call' = [op |-> "replace", docs |-> ToSet(docs)]
      BY <2>4 DEF replace_all
    <3>3. KeywordMap!Replace(ToSet(docs)) /\ VectorMap!Replace(ToSet(docs))
      BY <2>1, <3>1, <3>2 DEF KeywordMap!Replace, VectorMap!Replace, KeywordMap!OnePerKey, VectorMap!OnePerKey
    <3>. QED BY <3>1, <3>3 DEF KeywordMap!Next, VectorMap!Next
  <2>5. CASE UNCHANGED vars
    BY <2>5 DEF vars, KeywordContent, VectorContent, Live
  <2>. QED BY <2>2, <2>3, <2>4, <2>5 DEF Next
<1>. QED BY <1>1, <1>3, StoreAlways, PTL DEF Spec, Implements, KeywordMap!Spec, VectorMap!Spec

-----------------------------------------------------------------------------
(* Counting                                                                *)

LEMMA ImageFinite ==
  ASSUME NEW S, IsFiniteSet(S), NEW f
  PROVE  /\ IsFiniteSet({f[x] : x \in S}) /\ Cardinality({f[x] : x \in S}) <= Cardinality(S)
         /\ Cardinality({f[x] : x \in S}) \in Nat
<1>. DEFINE T == {f[x] : x \in S}
            g == [x \in S |-> f[x]]
<1>1. g \in Surjection(S, T)
  BY DEF Surjection
<1>. HIDE DEF g, T
<1>2. IsFiniteSet(T) /\ Cardinality(T) <= Cardinality(S)
  BY <1>1, FS_Surjection
<1>. QED BY <1>2, FS_CardinalityType DEF T

\* One to one, as many
LEMMA ImageCount ==
  ASSUME NEW S, IsFiniteSet(S), NEW f, \A x, y \in S : f[x] = f[y] => x = y
  PROVE  Cardinality({f[x] : x \in S}) = Cardinality(S)
<1>. DEFINE T == {f[x] : x \in S}
            g == [x \in S |-> f[x]]
<1>1. g \in Surjection(S, T) /\ g \in Injection(S, T)
  BY DEF Surjection, Injection, IsInjective
<1>. HIDE DEF g, T
<1>2. Cardinality(T) = Cardinality(S)
  BY <1>1, FS_Surjection
<1>. QED BY <1>2 DEF T

LEMMA SmallerFacts ==
  ASSUME NEW a \in Int, NEW b \in Int
  PROVE  /\ Smaller(a, b) \in Int /\ Smaller(a, b) <= a /\ Smaller(a, b) <= b
         /\ Smaller(a, b) = a \/ Smaller(a, b) = b
BY DEF Smaller

\* A list cut at n: as many of its hits as fit
LEMMA CutFacts ==
  ASSUME NEW S, IsFiniteSet(S), NEW n \in Nat, NEW T \in Cut(S, n)
  PROVE  /\ T \subseteq S /\ Cardinality(T) \in Nat /\ Cardinality(S) \in Nat
         /\ Cardinality(T) = IF n = 0 THEN Cardinality(S) ELSE Smaller(n, Cardinality(S))
<1>1. Cardinality(S) \in Nat
  BY FS_CardinalityType
<1>2. CASE n = 0 \/ Cardinality(S) <= n
  BY <1>1, <1>2 DEF Cut, Smaller
<1>3. CASE ~(n = 0 \/ Cardinality(S) <= n)
  BY <1>1, <1>3 DEF Cut, Smaller
<1>. QED BY <1>2, <1>3

-----------------------------------------------------------------------------
(* The first k of a strict order                                           *)

Ahead(R, S, x) == {y \in S : <<y, x>> \in R}

\* R orders S strictly.
Strict(R, S) ==
  /\ \A x \in S : <<x, x>> \notin R
  /\ \A x, y, z \in S : <<x, y>> \in R /\ <<y, z>> \in R => <<x, z>> \in R
  /\ \A x, y \in S : x # y => <<x, y>> \in R \/ <<y, x>> \in R

First(R, S, k) == {x \in S : Cardinality(Ahead(R, S, x)) < k}

\* In a finite set ordered by R someone has nobody of the set ahead.
LEMMA Foremost ==
  ASSUME NEW R, NEW S, Strict(R, S), IsFiniteSet(S), NEW T, T \subseteq S, T # {}
  PROVE  \E x \in T : \A y \in T : <<y, x>> \notin R
<1>. DEFINE F == {Ahead(R, T, x) : x \in T}
<1>1. \A x \in T : Ahead(R, T, x) \subseteq S
  BY DEF Ahead
<1>2. F # {} /\ \A B \in F : IsFiniteSet(B)
  BY <1>1, FS_Subset
<1>3. PICK B \in F : \A C \in F : ~(C \subseteq B /\ C # B)
  <2>. HIDE DEF F
  <2>. QED BY <1>2, SmallestSet
<1>4. PICK x \in T : B = Ahead(R, T, x)
  OBVIOUS
<1>5. ASSUME NEW y \in T, <<y, x>> \in R PROVE FALSE
  <2>1. Ahead(R, T, y) \subseteq B /\ y \in B /\ y \notin Ahead(R, T, y)
    BY <1>4, <1>5 DEF Ahead, Strict
  <2>2. Ahead(R, T, y) \in F
    OBVIOUS
  <2>. HIDE DEF F
  <2>. QED BY <1>3, <2>1, <2>2
<1>. QED BY <1>5

LEMMA Hindmost ==
  ASSUME NEW R, NEW S, Strict(R, S), IsFiniteSet(S), NEW T, T \subseteq S, T # {}
  PROVE  \E x \in T : \A y \in T : <<x, y>> \notin R
<1>. DEFINE Q == {p \in S \X S : <<p[2], p[1]>> \in R}
<1>1. \A x, y \in S : <<x, y>> \in Q <=> <<y, x>> \in R
  OBVIOUS
<1>. HIDE DEF Q
<1>2. Strict(Q, S)
  BY <1>1 DEF Strict
<1>3. PICK x \in T : \A y \in T : <<y, x>> \notin Q
  BY <1>2, Foremost
<1>. QED BY <1>1, <1>3

LEMMA FirstFacts ==
  ASSUME NEW R, NEW S, Strict(R, S), IsFiniteSet(S), NEW k \in Nat
  PROVE  /\ First(R, S, k) \subseteq S /\ IsFiniteSet(First(R, S, k))
         /\ Cardinality(First(R, S, k)) = Smaller(k, Cardinality(S))
         /\ \A x \in First(R, S, k) : \A y \in S \ First(R, S, k) : <<x, y>> \in R
<1>. DEFINE K == First(R, S, k)
<1>1. \A x \in S : /\ Ahead(R, S, x) \subseteq S /\ IsFiniteSet(Ahead(R, S, x))
                   /\ Cardinality(Ahead(R, S, x)) \in Nat
  <2>1. \A x \in S : Ahead(R, S, x) \subseteq S
    BY DEF Ahead
  <2>2. \A x \in S : IsFiniteSet(Ahead(R, S, x))
    BY <2>1, FS_Subset
  <2>. QED BY <2>1, <2>2, FS_CardinalityType
<1>2. K \subseteq S /\ \A x \in S : x \in K <=> Cardinality(Ahead(R, S, x)) < k
  BY DEF First
<1>3. IsFiniteSet(K) /\ Cardinality(K) \in Nat /\ Cardinality(S) \in Nat /\ Cardinality(K) <= Cardinality(S)
  BY <1>2, FS_Subset, FS_CardinalityType
<1>. HIDE DEF K
<1>4. ASSUME NEW x \in K, NEW y \in S \ K PROVE <<x, y>> \in R
  <2>1. x \in S /\ y \in S /\ x # y
    BY <1>2
  <2>2. ASSUME <<y, x>> \in R PROVE FALSE
    <3>1. Ahead(R, S, y) \subseteq Ahead(R, S, x)
      BY <2>1, <2>2 DEF Ahead, Strict
    <3>2. Cardinality(Ahead(R, S, y)) <= Cardinality(Ahead(R, S, x))
      BY <1>1, <2>1, <3>1, FS_Subset
    <3>. QED BY <1>1, <1>2, <2>1, <3>2
  <2>. QED BY <2>1, <2>2 DEF Strict
<1>5. Cardinality(K) <= k
  <2>. SUFFICES ASSUME K # {} PROVE Cardinality(K) <= k
    BY FS_EmptySet
  <2>1. PICK w \in K : \A y \in K : <<w, y>> \notin R
    BY <1>2, Hindmost
  <2>2. K \ {w} \subseteq Ahead(R, S, w)
    BY <1>2, <2>1 DEF Ahead, Strict
  <2>3. Cardinality(K \ {w}) = Cardinality(K) - 1
    BY <1>3, <2>1, FS_RemoveElement
  <2>4. w \in S /\ Cardinality(Ahead(R, S, w)) < k /\ Cardinality(Ahead(R, S, w)) \in Nat
    BY <1>1, <1>2, <2>1
  <2>5. Cardinality(K \ {w}) <= Cardinality(Ahead(R, S, w))
    BY <1>1, <2>2, <2>4, FS_Subset
  <2>. QED BY <1>3, <2>3, <2>4, <2>5
<1>6. Cardinality(K) = Smaller(k, Cardinality(S))
  <2>1. CASE K = S
    BY <1>3, <1>5, <2>1 DEF Smaller
  <2>2. CASE K # S
    <3>1. S \ K # {} /\ S \ K \subseteq S
      BY <1>2, <2>2
    <3>2. PICK y \in S \ K : \A z \in S \ K : <<z, y>> \notin R
      BY <3>1, Foremost
    <3>3. Ahead(R, S, y) \subseteq K /\ ~(Cardinality(Ahead(R, S, y)) < k)
      BY <1>2, <3>2 DEF Ahead
    <3>4. Cardinality(Ahead(R, S, y)) <= Cardinality(K)
      BY <1>3, <3>3, FS_Subset
    <3>5. Cardinality(Ahead(R, S, y)) \in Nat
      BY <1>1, <3>2
    <3>. QED BY <1>3, <1>5, <3>3, <3>4, <3>5 DEF Smaller
  <2>. QED BY <2>1, <2>2
<1>. QED BY <1>2, <1>3, <1>4, <1>6 DEF K

-----------------------------------------------------------------------------
(* Keyword search                                                          *)

\* What the postings of some terms lead to are the live documents with one of them.
LEMMA MatchedFacts ==
  ASSUME StoreHolds, NEW terms \in SUBSET Terms
  PROVE  /\ Matched(terms) = {d \in Documents(keyword) : Posted(d.text) \cap terms # {}}
         /\ IsFiniteSet(Matched(terms))
         /\ \A d \in Documents(keyword) : d.rev \in Revs
         /\ \A t \in Terms : Cardinality(keyword.postings[t]) <= Cardinality(DOMAIN keyword.by_key)
<1>. DEFINE docs == keyword.docs
            L == LiveSlots(keyword.docs)
<1>1. KeywordInv(keyword)
  BY DEF StoreHolds, StoreInv, Both
<1>2. docs \in Seq(Doc \cup {NoDoc}) /\ KeysRight(docs, keyword.by_key) /\ PostingsOf(keyword.postings, docs, L)
  BY <1>1 DEF KeywordInv, KeywordState
<1>3. IsFiniteSet(L) /\ \A s \in L : docs[s] \in Doc
  BY <1>2, LiveFacts
<1>4. \A d : d \in Documents(keyword) <=> \E s \in L : d = docs[s]
  BY DEF Documents, LiveSlots
<1>5. \A t \in Terms : \A p : p \in keyword.postings[t] <=>
        \E s \in L : Freq[docs[s].text][t] > 0 /\ p = [doc_id |-> s, term_freq |-> Freq[docs[s].text][t]]
  BY <1>2 DEF PostingsOf
<1>11. /\ \A s \in L : docs[s].key \in DOMAIN keyword.by_key /\ keyword.by_key[docs[s].key] = s
       /\ \A key \in DOMAIN keyword.by_key : keyword.by_key[key] \in L /\ docs[keyword.by_key[key]].key = key
  BY <1>2 DEF KeysRight
<1>. HIDE DEF docs, L
<1>6. \A d \in Doc : d.rev \in Revs
  BY DocAssumption
<1>7. \A d \in Documents(keyword) : d.rev \in Revs
  BY <1>3, <1>4, <1>6
<1>8. Matched(terms) = {d \in Documents(keyword) : Posted(d.text) \cap terms # {}}
  <2>1. \A d : d \in Matched(terms) <=> \E t \in terms : \E p \in keyword.postings[t] : d = docs[p.doc_id]
    BY DEF Matched, docs
  <2>2. ASSUME NEW d \in Matched(terms) PROVE d \in Documents(keyword) /\ Posted(d.text) \cap terms # {}
    <3>1. PICK t \in terms : \E p \in keyword.postings[t] : d = docs[p.doc_id]
      BY <2>1, <2>2
    <3>2. PICK p \in keyword.postings[t] : d = docs[p.doc_id]
      BY <3>1
    <3>3. PICK s \in L : Freq[docs[s].text][t] > 0 /\ p = [doc_id |-> s, term_freq |-> Freq[docs[s].text][t]]
      BY <1>5, <3>2
    <3>4. d = docs[s]
      BY <3>2, <3>3
    <3>5. t \in Posted(d.text)
      BY <3>3, <3>4 DEF Posted
    <3>. QED BY <1>4, <3>4, <3>5
  <2>3. ASSUME NEW d \in Documents(keyword), Posted(d.text) \cap terms # {} PROVE d \in Matched(terms)
    <3>1. PICK s \in L : d = docs[s]
      BY <1>4, <2>3
    <3>2. PICK t \in terms : t \in Posted(d.text)
      BY <2>3
    <3>3. t \in Terms /\ Freq[docs[s].text][t] > 0
      BY <3>1, <3>2 DEF Posted
    <3>. DEFINE p == [doc_id |-> s, term_freq |-> Freq[docs[s].text][t]]
    <3>4. p \in keyword.postings[t] /\ p.doc_id = s
      BY <1>5, <3>3
    <3>. HIDE DEF p
    <3>. QED BY <2>1, <3>1, <3>2, <3>4
  <2>. QED BY <2>2, <2>3
<1>9. IsFiniteSet(Matched(terms))
  <2>1. IsFiniteSet({docs[s] : s \in L})
    BY <1>3, ImageFinite
  <2>2. Matched(terms) \subseteq {docs[s] : s \in L}
    BY <1>4, <1>8
  <2>. QED BY <2>1, <2>2, FS_Subset
<1>10. ASSUME NEW t \in Terms PROVE Cardinality(keyword.postings[t]) <= Cardinality(DOMAIN keyword.by_key)
  <2>. DEFINE P == keyword.postings[t]
              K == DOMAIN keyword.by_key
              f == [p \in P |-> docs[p.doc_id].key]
  <2>1. \A p \in P : p.doc_id \in L /\ p = [doc_id |-> p.doc_id, term_freq |-> Freq[docs[p.doc_id].text][t]]
    <3>. SUFFICES ASSUME NEW p \in P
                  PROVE  p.doc_id \in L /\ p = [doc_id |-> p.doc_id, term_freq |-> Freq[docs[p.doc_id].text][t]]
      OBVIOUS
    <3>1. PICK s \in L : p = [doc_id |-> s, term_freq |-> Freq[docs[s].text][t]]
      BY <1>5
    <3>2. p.doc_id = s
      BY <3>1
    <3>. QED BY <3>1, <3>2
  <2>2. /\ \A s \in L : docs[s].key \in K /\ keyword.by_key[docs[s].key] = s
        /\ \A key \in K : keyword.by_key[key] \in L /\ docs[keyword.by_key[key]].key = key
    BY <1>11
  <2>3. f \in [P -> K]
    BY <2>1, <2>2
  <2>4. \A p, q \in P : f[p] = f[q] => p = q
    <3>. SUFFICES ASSUME NEW p \in P, NEW q \in P, f[p] = f[q] PROVE p = q
      OBVIOUS
    <3>1. p.doc_id = q.doc_id
      BY <2>1, <2>2
    <3>. QED BY <2>1, <3>1
  <2>5. IsFiniteSet(K)
    <3>. DEFINE g == [s \in L |-> docs[s].key]
    <3>1. IsFiniteSet({g[s] : s \in L})
      BY <1>3, ImageFinite
    <3>2. K \subseteq {g[s] : s \in L}
      BY <2>2
    <3>. QED BY <3>1, <3>2, FS_Subset
  <2>6. f \in Injection(P, K)
    BY <2>3, <2>4 DEF Injection, IsInjective
  <2>. HIDE DEF f, P, K
  <2>7. Cardinality(P) <= Cardinality(K)
    BY <2>5, <2>6, FS_Injection
  <2>. QED BY <2>7 DEF P, K
<1>. QED BY <1>7, <1>8, <1>9, <1>10

LEMMA KeywordSearches ==
  ASSUME StoreHolds
  PROVE  KeywordSearchExact
<1>1. /\ \A terms \in SUBSET Terms :
           /\ Matched(terms) = {d \in Documents(keyword) : Posted(d.text) \cap terms # {}}
           /\ IsFiniteSet(Matched(terms))
      /\ \A d \in Documents(keyword) : d.rev \in Revs
      /\ \A t \in Terms : Cardinality(keyword.postings[t]) <= Cardinality(DOMAIN keyword.by_key)
  BY MatchedFacts
<1>2. \A terms \in SUBSET Terms : \A filter : Passing(Matched(terms), filter) = Wanted(terms, filter)
  BY <1>1 DEF Passing, Wanted, KeywordContent
<1>3. ASSUME NEW terms \in SUBSET Terms, NEW filter \in SUBSET Revs \ {{}}, NEW most \in ShardLimits,
             NEW r \in shard_search(terms, most, filter)
      PROVE  /\ r.hits \subseteq Wanted(terms, filter) /\ r.total = Cardinality(Wanted(terms, filter))
             /\ Cardinality(r.hits) = IF most = 0 THEN r.total ELSE Smaller(most, r.total)
  <2>. DEFINE M == Matched(terms)
              W == Wanted(terms, filter)
  <2>1. most \in Nat /\ IsFiniteSet(M) /\ Passing(M, filter) = W
    BY <1>1, <1>2, SearchAssumption
  <2>2. W \subseteq M /\ IsFiniteSet(W)
    <3>1. Passing(M, filter) \subseteq M
      BY DEF Passing
    <3>. HIDE DEF M, W
    <3>. QED BY <2>1, <3>1, FS_Subset
  <2>3. CASE filter = NoFilter
    <3>1. M = W
      BY <1>1, <2>1, <2>3 DEF Passing, NoFilter
    <3>2. r \in index_search(terms, most)
      BY <1>3, <2>3 DEF shard_search
    <3>3. PICK T \in Cut(M, most) : r = [hits |-> T, total |-> Cardinality(M)]
      BY <3>2 DEF index_search
    <3>. HIDE DEF M, W
    <3>4. T \subseteq M /\ Cardinality(T) = IF most = 0 THEN Cardinality(M) ELSE Smaller(most, Cardinality(M))
      BY <2>1, CutFacts
    <3>5. r.hits = T /\ r.total = Cardinality(W)
      BY <3>1, <3>3
    <3>6. /\ r.hits \subseteq W /\ r.total = Cardinality(W)
          /\ Cardinality(r.hits) = IF most = 0 THEN r.total ELSE Smaller(most, r.total)
      BY <3>1, <3>4, <3>5
    <3>. QED BY <3>6 DEF W
  <2>4. CASE filter # NoFilter
    <3>1. PICK q \in index_search(terms, 0) :
            \E T \in Cut(Passing(q.hits, filter), most) : r = [hits |-> T, total |-> Cardinality(Passing(q.hits, filter))]
      BY <1>3, <2>4 DEF shard_search
    <3>2. q.hits = M
      BY <3>1 DEF index_search, Cut
    <3>3. PICK T \in Cut(W, most) : r = [hits |-> T, total |-> Cardinality(W)]
      BY <2>1, <3>1, <3>2
    <3>. HIDE DEF M, W
    <3>4. T \subseteq W /\ Cardinality(T) = IF most = 0 THEN Cardinality(W) ELSE Smaller(most, Cardinality(W))
      BY <2>1, <2>2, CutFacts
    <3>5. r.hits = T /\ r.total = Cardinality(W)
      BY <3>3
    <3>6. /\ r.hits \subseteq W /\ r.total = Cardinality(W)
          /\ Cardinality(r.hits) = IF most = 0 THEN r.total ELSE Smaller(most, r.total)
      BY <3>4, <3>5
    <3>. QED BY <3>6 DEF W
  <2>. QED BY <2>3, <2>4
<1>4. ASSUME NEW terms \in SUBSET Terms, NEW filter
      PROVE  matching(FALSE, terms, filter) = Wanted(terms, filter)
  BY <1>2 DEF matching
<1>5. matching(TRUE, {}, NoFilter) = VectorContent
  <2>1. Documents(keyword) = VectorDocs(vector)
    BY DEF StoreHolds, StoreInv, Both
  <2>2. matching(TRUE, {}, NoFilter) = Documents(keyword)
    BY <1>1 DEF matching, Passing, NoFilter
  <2>. QED BY <2>1, <2>2 DEF VectorDocs, VectorContent
<1>. QED BY <1>1, <1>3, <1>4, <1>5 DEF KeywordSearchExact

-----------------------------------------------------------------------------
(* Vector search                                                           *)

LEMMA LiveVector ==
  ASSUME StoreHolds
  PROVE  /\ IsFiniteSet(Live(vector)) /\ Cardinality(Live(vector)) \in Nat
         /\ \A s \in Live(vector) : vector.docs[s] \in Doc /\ vector.docs[s].key \in Nat /\ vector.docs[s].text \in Texts
         /\ \A r, s \in Live(vector) : vector.docs[r].key = vector.docs[s].key => r = s
         /\ DOMAIN vector.by_key = {} => Live(vector) = {}
<1>. DEFINE docs == vector.docs
            L == Live(vector)
<1>1. docs \in Seq(Doc) /\ Keyed(docs, L, vector.by_key)
  BY DEF StoreHolds, StoreInv, Both, VectorInv, VectorState
<1>2. IsFiniteSet(DOMAIN docs) /\ L \subseteq DOMAIN docs /\ \A s \in DOMAIN docs : docs[s] \in Doc
  BY <1>1, VecDomain DEF Live
<1>3. \A s \in L : docs[s].key \in DOMAIN vector.by_key /\ vector.by_key[docs[s].key] = s
  BY <1>1 DEF Keyed
<1>. HIDE DEF docs, L
<1>4. IsFiniteSet(L) /\ Cardinality(L) \in Nat
  BY <1>2, FS_Subset, FS_CardinalityType
<1>5. \A s \in L : docs[s] \in Doc /\ docs[s].key \in Nat /\ docs[s].text \in Texts
  BY <1>2, DocFacts
<1>6. (\A r, s \in L : docs[r].key = docs[s].key => r = s) /\ (DOMAIN vector.by_key = {} => L = {})
  BY <1>3
<1>. QED BY <1>4, <1>5, <1>6 DEF docs, L

\* The k nearest of some live slots are k of them or all, and none is farther
\* than one left out.
LEMMA NearestFacts ==
  ASSUME StoreHolds, NEW query \in Texts, NEW S, S \subseteq Live(vector), NEW k \in Nat
  PROVE  /\ Nearest(query, S, k) \subseteq S /\ IsFiniteSet(Nearest(query, S, k)) /\ IsFiniteSet(S)
         /\ Cardinality(Nearest(query, S, k)) = Smaller(k, Cardinality(S))
         /\ \A s \in Nearest(query, S, k) : \A r \in S \ Nearest(query, S, k) :
              SlotDistance(query, s) <= SlotDistance(query, r)
<1>. DEFINE d == [s \in S |-> SlotDistance(query, s)]
            y == [s \in S |-> vector.docs[s].key]
            R == {p \in S \X S : d[p[1]] < d[p[2]] \/ (d[p[1]] = d[p[2]] /\ y[p[1]] < y[p[2]])}
            N == Nearest(query, S, k)
<1>1. IsFiniteSet(S)
  BY LiveVector, FS_Subset
<1>2. \A s \in S : d[s] \in Nat /\ y[s] \in Nat
  <2>1. \A s \in S : vector.docs[s].text \in Texts /\ y[s] \in Nat
    BY LiveVector
  <2>2. \A t \in Texts : Distance[query][t] \in Nat
    BY DistanceAssumption
  <2>3. \A s \in S : d[s] = Distance[query][vector.docs[s].text]
    BY DEF SlotDistance
  <2>. HIDE DEF d, y
  <2>. QED BY <2>1, <2>2, <2>3
<1>3. \A r, s \in S : y[r] = y[s] => r = s
  BY LiveVector
<1>4. \A r, s \in S : <<r, s>> \in R <=> d[r] < d[s] \/ (d[r] = d[s] /\ y[r] < y[s])
  <2>. HIDE DEF d, y
  <2>. QED OBVIOUS
<1>5. N = First(R, S, k)
  <2>1. \A s \in S : {r \in S : \/ SlotDistance(query, r) < SlotDistance(query, s)
                                \/ /\ SlotDistance(query, r) = SlotDistance(query, s)
                                   /\ vector.docs[r].key < vector.docs[s].key} = Ahead(R, S, s)
    <3>. SUFFICES ASSUME NEW s \in S
                  PROVE  {r \in S : \/ SlotDistance(query, r) < SlotDistance(query, s)
                                    \/ /\ SlotDistance(query, r) = SlotDistance(query, s)
                                       /\ vector.docs[r].key < vector.docs[s].key} = Ahead(R, S, s)
      OBVIOUS
    <3>1. \A r \in S : d[r] = SlotDistance(query, r) /\ y[r] = vector.docs[r].key
      OBVIOUS
    <3>. HIDE DEF d, y, R
    <3>. QED BY <1>4, <3>1 DEF Ahead
  <2>. HIDE DEF R
  <2>. QED BY <2>1 DEF Nearest, First
<1>. HIDE DEF y, R, N
<1>6. Strict(R, S)
  <2>. HIDE DEF d
  <2>1. \A x \in S : <<x, x>> \notin R
    BY <1>2, <1>4
  <2>2. \A x, z, w \in S : <<x, z>> \in R /\ <<z, w>> \in R => <<x, w>> \in R
    BY <1>2, <1>4
  <2>3. \A x, z \in S : x # z => <<x, z>> \in R \/ <<z, x>> \in R
    <3>. SUFFICES ASSUME NEW x \in S, NEW z \in S, x # z PROVE <<x, z>> \in R \/ <<z, x>> \in R
      OBVIOUS
    <3>1. y[x] # y[z]
      BY <1>3
    <3>. QED BY <1>2, <1>4, <3>1
  <2>. QED BY <2>1, <2>2, <2>3 DEF Strict
<1>7. /\ N \subseteq S /\ IsFiniteSet(N) /\ Cardinality(N) = Smaller(k, Cardinality(S))
      /\ \A x \in N : \A z \in S \ N : <<x, z>> \in R
  <2>. HIDE DEF d
  <2>. QED BY <1>1, <1>5, <1>6, FirstFacts
<1>8. \A s \in N : \A r \in S \ N : SlotDistance(query, s) <= SlotDistance(query, r)
  <2>. SUFFICES ASSUME NEW s \in N, NEW r \in S \ N PROVE SlotDistance(query, s) <= SlotDistance(query, r)
    OBVIOUS
  <2>1. s \in S /\ r \in S /\ <<s, r>> \in R
    BY <1>7
  <2>2. d[s] = SlotDistance(query, s) /\ d[r] = SlotDistance(query, r)
    BY <2>1
  <2>. HIDE DEF d
  <2>3. d[s] <= d[r]
    BY <1>2, <1>4, <2>1
  <2>. QED BY <2>2, <2>3
<1>. QED BY <1>1, <1>7, <1>8 DEF N

\* A list of a set has each element once.
LEMMA ListFacts ==
  ASSUME NEW S, IsFiniteSet(S), NEW p \in SetToSeqs(S)
  PROVE  /\ p \in [1 .. Cardinality(S) -> S] /\ Len(p) = Cardinality(S) /\ p \in Seq(S)
         /\ \A i, j \in 1 .. Cardinality(S) : p[i] = p[j] => i = j
<1>1. p \in [1 .. Cardinality(S) -> S] /\ \A i, j \in 1 .. Cardinality(S) : p[i] = p[j] => i = j
  BY DEF SetToSeqs
<1>2. Cardinality(S) \in Nat
  BY FS_CardinalityType
<1>. QED BY <1>1, <1>2

\* The first m of it: so many elements of it, all of them if m is their number.
LEMMA ListPrefix ==
  ASSUME NEW S, IsFiniteSet(S), NEW p \in SetToSeqs(S),
         NEW m \in Nat, m <= Cardinality(S), NEW C, \A x : x \in C <=> \E i \in 1 .. m : x = p[i]
  PROVE  /\ DOMAIN SubSeq(p, 1, m) = 1 .. m
         /\ \A i \in 1 .. m : SubSeq(p, 1, m)[i] = p[i] /\ p[i] \in S
         /\ C \subseteq S /\ Cardinality(C) = m /\ (m = Cardinality(S) => C = S)
<1>. DEFINE n == Cardinality(S)
            q == SubSeq(p, 1, m)
<1>1. p \in [1 .. n -> S] /\ Len(p) = n /\ p \in Seq(S) /\ n \in Nat /\ \A i, j \in 1 .. n : p[i] = p[j] => i = j
  BY ListFacts, FS_CardinalityType
<1>2. DOMAIN q = 1 .. m /\ \A i \in 1 .. m : q[i] = p[i]
  <2>. HIDE DEF n
  <2>. QED BY <1>1
<1>. HIDE DEF n, q
<1>3. \A i \in 1 .. m : i \in 1 .. n
  BY <1>1 DEF n
<1>4. C \subseteq S /\ \A i \in 1 .. m : p[i] \in S
  BY <1>1, <1>3
<1>6. Cardinality(C) = m
  <2>1. IsFiniteSet(1 .. m) /\ Cardinality(1 .. m) = m
    BY FS_Interval
  <2>2. \A i, j \in 1 .. m : p[i] = p[j] => i = j
    BY <1>1, <1>3
  <2>3. C = {p[i] : i \in 1 .. m}
    OBVIOUS
  <2>. QED BY <2>1, <2>2, <2>3, ImageCount
<1>7. m = n => C = S
  BY <1>4, <1>6, FS_Subset DEF n
<1>. QED BY <1>2, <1>4, <1>6, <1>7 DEF n, q

LEMMA QuantizedFacts ==
  ASSUME StoreHolds, NEW query \in Texts, NEW k \in Nat, NEW S \in search_quantized(query, k)
  PROVE  /\ S \subseteq Live(vector) /\ IsFiniteSet(S)
         /\ Cardinality(S) = Smaller(k, Cardinality(Live(vector)))
         /\ k * OVERSAMPLE >= Cardinality(Live(vector)) =>
              \A s \in S, r \in Live(vector) \ S : SlotDistance(query, s) <= SlotDistance(query, r)
<1>. DEFINE L == Live(vector)
            n == Cardinality(L)
            rank == [s \in L |-> Hamming[query][vector.docs[s].text]]
            kk == k * OVERSAMPLE
<1>1. IsFiniteSet(L) /\ n \in Nat
  BY LiveVector
<1>2. kk \in Nat /\ k <= kk
  BY SearchAssumption
<1>3. PICK p \in Sorted(rank) : S = Nearest(query, ToSet(SubSeq(p, 1, Smaller(kk, Len(p)))), k)
  BY DEF search_quantized
<1>0. p \in SetToSeqs(L)
  <2>1. DOMAIN rank = L
    OBVIOUS
  <2>. HIDE DEF rank, L
  <2>. QED BY <1>3, <2>1 DEF Sorted
<1>4. Len(p) = n
  <2>. HIDE DEF L
  <2>. QED BY <1>0, <1>1, ListFacts
<1>. DEFINE m == Smaller(kk, n)
            C == ToSet(SubSeq(p, 1, m))
<1>. HIDE DEF kk
<1>5. m \in Nat /\ m <= n /\ (kk >= n => m = n) /\ (m = n \/ m = kk)
  <2>. HIDE DEF n
  <2>. QED BY <1>1, <1>2 DEF Smaller
<1>6. C \subseteq L /\ Cardinality(C) = m /\ (m = n => C = L)
  <2>. DEFINE P == {p[i] : i \in 1 .. m}
  <2>2. /\ p \in SetToSeqs(L) /\ m \in Nat /\ m <= Cardinality(L) /\ IsFiniteSet(L)
        /\ \A x : x \in P <=> \E i \in 1 .. m : x = p[i]
    BY <1>0, <1>1, <1>5
  <2>. HIDE DEF rank, L, m, P
  <2>3. ToSet(SubSeq(p, 1, m)) = P
    <3>1. DOMAIN SubSeq(p, 1, m) = 1 .. m
      BY ONLY <2>2, ListPrefix
    <3>2. \A i \in 1 .. m : SubSeq(p, 1, m)[i] = p[i]
      BY ONLY <2>2, ListPrefix
    <3>. DEFINE q == SubSeq(p, 1, m)
    <3>. HIDE DEF q
    <3>3. DOMAIN q = 1 .. m /\ \A i \in 1 .. m : q[i] = p[i]
      BY <3>1, <3>2 DEF q
    <3>4. ToSet(q) = P
      BY <3>3 DEF ToSet, P
    <3>. QED BY <3>4 DEF q
  <2>4. P \subseteq L /\ Cardinality(P) = m /\ (m = Cardinality(L) => P = L)
    BY ONLY <2>2, ListPrefix
  <2>. QED BY <2>3, <2>4
<1>7. S = Nearest(query, C, k)
  BY <1>3, <1>4
<1>. HIDE DEF C, m, n
<1>8. /\ S \subseteq C /\ IsFiniteSet(S) /\ Cardinality(S) = Smaller(k, Cardinality(C))
      /\ \A s \in S : \A r \in C \ S : SlotDistance(query, s) <= SlotDistance(query, r)
  BY <1>6, <1>7, NearestFacts
<1>9. Smaller(k, m) = Smaller(k, n)
  BY <1>1, <1>2, <1>5 DEF Smaller
<1>10. Cardinality(S) = Smaller(k, n)
  BY <1>6, <1>8, <1>9
<1>. HIDE DEF L
<1>11. kk >= n => \A s \in S, r \in L \ S : SlotDistance(query, s) <= SlotDistance(query, r)
  BY <1>5, <1>6, <1>8
<1>. QED BY <1>6, <1>8, <1>10, <1>11 DEF L, n, kk

-----------------------------------------------------------------------------
(* The search of the graph                                                 *)

LEMMA MaxFacts ==
  ASSUME NEW S, S \subseteq Nat, IsFiniteSet(S), S # {}
  PROVE  Max(S) \in S
<1>. DEFINE R == {p \in S \X S : p[1] < p[2]}
<1>1. \A x, y \in S : <<x, y>> \in R <=> x < y
  OBVIOUS
<1>. HIDE DEF R
<1>2. Strict(R, S)
  BY <1>1 DEF Strict
<1>3. PICK x \in S : \A y \in S : <<x, y>> \notin R
  BY <1>2, Hindmost
<1>4. \A y \in S : x >= y
  <2>1. \A y \in S : x \in Nat /\ y \in Nat /\ ~(x < y)
    BY <1>1, <1>3
  <2>. QED BY <2>1
<1>. QED BY <1>4 DEF Max

\* h[s] is what is taken of the hits that s numbers, the least first.
Takes(h, g, T, q, k, S) ==
  h = [s \in SUBSET S |->
         IF s = {} THEN {}
         ELSE IF g[q[Max(s)]].slot \in T \/ Cardinality(h[s \ {Max(s)}]) = k
         THEN h[s \ {Max(s)}] ELSE h[s \ {Max(s)}] \cup {g[q[Max(s)]].slot}]

LEMMA TakesExist ==
  ASSUME NEW S, S \subseteq Nat, IsFiniteSet(S), NEW g, NEW T, NEW q, NEW k
  PROVE  \E h : Takes(h, g, T, q, k, S)
<1>. DEFINE sl == [i \in S |-> g[q[i]].slot]
            W == SUBSET {sl[i] : i \in S}
            G == [p \in S \X W |-> IF sl[p[1]] \in T \/ Cardinality(p[2]) = k THEN p[2] ELSE p[2] \cup {sl[p[1]]}]
            c == [s \in SUBSET S |-> Max(s)]
<1>1. Chooses(c, S)
  <2>1. \A s \in SUBSET S : s # {} => Max(s) \in s
    BY FS_Subset, MaxFacts
  <2>. QED BY <2>1 DEF Chooses
<1>2. G \in [S \X W -> W] /\ {} \in W
  <2>. HIDE DEF sl
  <2>. QED OBVIOUS
<1>3. PICK h \in [SUBSET S -> W] : Folds(h, G, {}, c, S)
  <2>. HIDE DEF G, W, c
  <2>. QED BY <1>1, <1>2, FoldExists
<1>4. ASSUME NEW s \in SUBSET S, s # {}
      PROVE  h[s] = IF g[q[Max(s)]].slot \in T \/ Cardinality(h[s \ {Max(s)}]) = k
                    THEN h[s \ {Max(s)}] ELSE h[s \ {Max(s)}] \cup {g[q[Max(s)]].slot}
  <2>. DEFINE x == Max(s)
              r == s \ {x}
  <2>1. x \in S /\ r \in SUBSET S /\ c[s] = x
    BY <1>1, <1>4 DEF Chooses
  <2>2. h[s] = G[<<x, h[r]>>] /\ h[r] \in W /\ sl[x] = g[q[x]].slot
    BY <1>3, <1>4, <2>1 DEF Folds
  <2>. HIDE DEF x, r, sl, W
  <2>3. h[s] = IF sl[x] \in T \/ Cardinality(h[r]) = k THEN h[r] ELSE h[r] \cup {sl[x]}
    BY <2>1, <2>2
  <2>. QED BY <2>2, <2>3 DEF x, r
<1>5. h[{}] = {}
  BY <1>3 DEF Folds
<1>. HIDE DEF W
<1>6. h = [s \in SUBSET S |->
         IF s = {} THEN {}
         ELSE IF g[q[Max(s)]].slot \in T \/ Cardinality(h[s \ {Max(s)}]) = k
         THEN h[s \ {Max(s)}] ELSE h[s \ {Max(s)}] \cup {g[q[Max(s)]].slot}]
  BY <1>4, <1>5
<1>. QED BY <1>6 DEF Takes

\* F are the slots of those hits that are no tombstones.
Fetched(F, g, T, q, S) == F = {g[q[i]].slot : i \in S} \ T

\* Whatever is taken is no tombstone, and it is k slots or every one there is.
LEMMA TakesFacts ==
  ASSUME NEW S, S \subseteq Nat, IsFiniteSet(S), NEW g, NEW T, NEW q, NEW k \in Nat,
         NEW h, Takes(h, g, T, q, k, S),
         NEW F, Fetched(F, g, T, q, S)
  PROVE  /\ h[S] \subseteq F /\ Cardinality(h[S]) <= k
         /\ Cardinality(h[S]) = k \/ h[S] = F
<1>. DEFINE sl == [i \in S |-> g[q[i]].slot]
            Among(s) == {sl[i] : i \in s} \ T
            Right(s) == /\ IsFiniteSet(h[s]) /\ h[s] \subseteq Among(s) /\ Cardinality(h[s]) <= k
                        /\ Cardinality(h[s]) = k \/ h[s] = Among(s)
            X == {s \in SUBSET S : ~Right(s)}
<1>1. ASSUME NEW s \in SUBSET S, s # {}
      PROVE  /\ Max(s) \in s
             /\ h[s] = IF sl[Max(s)] \in T \/ Cardinality(h[s \ {Max(s)}]) = k
                       THEN h[s \ {Max(s)}] ELSE h[s \ {Max(s)}] \cup {sl[Max(s)]}
  <2>1. Max(s) \in s
    BY <1>1, FS_Subset, MaxFacts
  <2>2. sl[Max(s)] = g[q[Max(s)]].slot
    BY <2>1
  <2>3. h[s] = IF g[q[Max(s)]].slot \in T \/ Cardinality(h[s \ {Max(s)}]) = k
               THEN h[s \ {Max(s)}] ELSE h[s \ {Max(s)}] \cup {g[q[Max(s)]].slot}
    <3>. HIDE DEF sl
    <3>. QED BY <1>1 DEF Takes
  <2>. QED BY <2>1, <2>2, <2>3
<1>2. h[{}] = {}
  BY DEF Takes
<1>3. Among(S) = F
  BY DEF Fetched
<1>. HIDE DEF sl
<1>4. X = {}
  <2>. SUFFICES ASSUME X # {} PROVE FALSE
    OBVIOUS
  <2>1. PICK s \in X : \A t \in X : ~(t \subseteq s /\ t # s)
    <3>1. \A t \in X : IsFiniteSet(t)
      BY FS_Subset
    <3>. HIDE DEF X
    <3>. QED BY <3>1, SmallestSet
  <2>2. s \in SUBSET S /\ ~Right(s)
    OBVIOUS
  <2>3. CASE s = {}
    <3>1. h[s] = {} /\ Among(s) = {}
      BY <1>2, <2>3
    <3>. QED BY <2>2, <3>1, FS_EmptySet
  <2>4. CASE s # {}
    <3>. DEFINE x == Max(s)
                r == s \ {x}
    <3>1. x \in s /\ h[s] = IF sl[x] \in T \/ Cardinality(h[r]) = k THEN h[r] ELSE h[r] \cup {sl[x]}
      BY <1>1, <2>2, <2>4
    <3>. HIDE DEF x
    <3>2. Right(r)
      <4>1. r \in SUBSET S /\ r \subseteq s /\ r # s
        BY <2>2, <3>1
      <4>2. r \notin X
        <5>. HIDE DEF X, r
        <5>. QED BY <2>1, <4>1
      <4>. HIDE DEF r, Right
      <4>. QED BY <4>1, <4>2
    <3>3. s = r \cup {x} /\ x \notin r
      BY <3>1
    <3>. HIDE DEF r, X
    <3>4. Among(s) = Among(r) \cup ({sl[x]} \ T)
      BY <3>3
    <3>. HIDE DEF Among
    <3>5. Cardinality(h[r]) \in Nat
      BY <3>2, FS_CardinalityType
    <3>6. CASE sl[x] \in T
      <4>1. Among(s) = Among(r) /\ h[s] = h[r]
        BY <3>1, <3>4, <3>6
      <4>. QED BY <2>2, <3>2, <4>1
    <3>7. CASE sl[x] \notin T /\ Cardinality(h[r]) = k
      <4>1. h[s] = h[r] /\ Among(r) \subseteq Among(s)
        BY <3>1, <3>4, <3>7
      <4>. QED BY <2>2, <3>2, <3>7, <4>1
    <3>8. CASE sl[x] \notin T /\ Cardinality(h[r]) # k
      <4>1. h[s] = h[r] \cup {sl[x]} /\ h[r] = Among(r) /\ Among(s) = Among(r) \cup {sl[x]}
        BY <3>1, <3>2, <3>4, <3>8
      <4>2. IsFiniteSet(h[s]) /\ Cardinality(h[s]) <= Cardinality(h[r]) + 1 /\ Cardinality(h[s]) \in Nat
        <5>1. IsFiniteSet(h[s]) /\ Cardinality(h[s]) = IF sl[x] \in h[r] THEN Cardinality(h[r]) ELSE Cardinality(h[r]) + 1
          <6>. DEFINE A == h[r]
                      B == h[s]
                      y == sl[x]
          <6>1. IsFiniteSet(A) /\ B = A \cup {y}
            BY <3>2, <4>1
          <6>. HIDE DEF A, B, y
          <6>2. IsFiniteSet(B) /\ Cardinality(B) = IF y \in A THEN Cardinality(A) ELSE Cardinality(A) + 1
            BY <6>1, FS_AddElement
          <6>. QED BY <6>2 DEF A, B, y
        <5>. QED BY <3>5, <5>1
      <4>3. Cardinality(h[s]) <= k
        BY <3>2, <3>5, <3>8, <4>2
      <4>. QED BY <2>2, <4>1, <4>2, <4>3
    <3>. QED BY <3>6, <3>7, <3>8
  <2>. QED BY <2>3, <2>4
<1>5. Right(S)
  BY <1>4
<1>. QED BY <1>3, <1>5

\* Every slot of L has a point; and F has all those of L that the points C have.
Covers(g, n, L) == \A s \in L : \E i \in 1 .. n : g[i].slot = s
Reaches(g, n, C, L, F) ==
  /\ C \subseteq 1 .. n /\ F \subseteq L
  /\ \A i \in C : g[i].slot \in L => g[i].slot \in F

\* Slots are missed only by the points that were not fetched, each by one.
LEMMA MissedFacts ==
  ASSUME NEW n \in Nat, NEW m \in Nat, m <= n, NEW g, NEW C, Cardinality(C) = m,
         NEW L, IsFiniteSet(L), Covers(g, n, L), NEW F, Reaches(g, n, C, L, F)
  PROVE  /\ Cardinality(F) \in Nat /\ Cardinality(L) \in Nat
         /\ Cardinality(F) <= Cardinality(L)
         /\ Cardinality(L) - Cardinality(F) <= n - m
         /\ Cardinality(F) = Cardinality(L) => F = L
<1>. DEFINE D == 1 .. n
            U == D \ C
            M == L \ F
            f == [s \in M |-> CHOOSE i \in U : g[i].slot = s]
<1>1. IsFiniteSet(D) /\ Cardinality(D) = n
  BY FS_Interval
<1>2. IsFiniteSet(U) /\ Cardinality(U) = n - m
  <2>1. IsFiniteSet(C) /\ IsFiniteSet(U)
    <3>. HIDE DEF D
    <3>1. C \subseteq D /\ U \subseteq D
      BY DEF D, Reaches
    <3>. HIDE DEF U
    <3>. QED BY <1>1, <3>1, FS_Subset
  <2>2. C \cup U = D /\ C \cap U = {}
    BY DEF Reaches
  <2>3. Cardinality(C \cup U) = Cardinality(C) + Cardinality(U) - Cardinality(C \cap U)
    <3>. HIDE DEF U
    <3>. QED BY <2>1, FS_Union
  <2>4. Cardinality(U) \in Nat
    BY <2>1, FS_CardinalityType
  <2>. HIDE DEF U, D
  <2>5. Cardinality(C \cup U) = n /\ Cardinality(C \cap U) = 0
    BY <1>1, <2>2, FS_EmptySet
  <2>. QED BY <2>1, <2>3, <2>4, <2>5
<1>3. \A s \in M : \E i \in U : g[i].slot = s
  BY DEF Covers, Reaches
<1>4. \A s \in M : f[s] \in U /\ g[f[s]].slot = s
  <2>. HIDE DEF U, M
  <2>. QED BY <1>3
<1>5. f \in [M -> U] /\ \A r, s \in M : f[r] = f[s] => r = s
  <2>. HIDE DEF U, M
  <2>. QED BY <1>4
<1>6. f \in Injection(M, U)
  <2>. HIDE DEF U, M
  <2>. QED BY <1>5 DEF Injection, IsInjective
<1>. HIDE DEF f, U
<1>7. Cardinality(M) <= n - m
  <2>. HIDE DEF M
  <2>. QED BY <1>2, <1>6, FS_Injection
<1>8. /\ IsFiniteSet(F) /\ Cardinality(F) \in Nat /\ Cardinality(L) \in Nat /\ Cardinality(F) <= Cardinality(L)
      /\ Cardinality(F) = Cardinality(L) => F = L
  BY FS_Subset, FS_CardinalityType DEF Reaches
<1>9. IsFiniteSet(M) /\ Cardinality(M) \in Nat /\ M \cup F = L /\ M \cap F = {}
  <2>1. M \subseteq L /\ M \cup F = L /\ M \cap F = {}
    BY DEF Reaches
  <2>. HIDE DEF M
  <2>. QED BY <2>1, FS_Subset, FS_CardinalityType
<1>. HIDE DEF M
<1>10. Cardinality(M \cup F) = Cardinality(M) + Cardinality(F) - Cardinality(M \cap F)
  BY <1>8, <1>9, FS_Union
<1>11. Cardinality(L) = Cardinality(M) + Cardinality(F)
  <2>1. Cardinality(M \cup F) = Cardinality(L) /\ Cardinality(M \cap F) = 0
    BY <1>9, FS_EmptySet
  <2>. QED BY <1>8, <1>9, <1>10, <2>1
<1>. QED BY <1>7, <1>8, <1>9, <1>11

\* How many points are fetched
LEMMA FetchFacts ==
  ASSUME StoreHolds, NEW k \in Nat
  PROVE  LET n == Len(vector.graph)
         IN /\ Fetch(k) \in Nat /\ Fetch(k) <= n /\ n \in Nat
            /\ Fetch(k) = n \/ Fetch(k) = k + Smaller(k, Headroom)
<1>1. vector.vectors_total = Len(vector.graph) /\ vector.vectors_total \in Nat
  BY DEF StoreHolds, StoreInv, Both, VectorInv, VectorState
<1>2. Headroom \in Nat
  BY SearchAssumption
<1>. DEFINE n == Len(vector.graph)
<1>3. n \in Nat /\ Fetch(k) = Max2(Smaller(Smaller(2 * k, k + Headroom), n), Smaller(k, n))
  BY <1>1 DEF Fetch
<1>. HIDE DEF n
<1>4. /\ Fetch(k) \in Nat /\ Fetch(k) <= n
      /\ Fetch(k) = n \/ Fetch(k) = k + Smaller(k, Headroom)
  BY <1>2, <1>3 DEF Max2, Smaller
<1>. QED BY <1>3, <1>4 DEF n

LEMMA GraphFacts ==
  ASSUME StoreHolds, NEW query \in Texts, NEW k \in Nat, NEW m \in 0 .. Fetch(k),
         NEW S \in search_hnsw(query, k, m)
  PROVE  /\ S \subseteq Live(vector) /\ Cardinality(S) <= k
         /\ m = Fetch(k) /\ Garbage <= Smaller(k, Headroom) =>
              Cardinality(S) = Smaller(k, Cardinality(Live(vector)))
<1>. DEFINE g == vector.graph
            T == vector.tombstoned
            L == Live(vector)
            n == Len(vector.graph)
<1>1. /\ DOMAIN g = 1 .. n /\ n \in Nat
      /\ \A i \in 1 .. n : g[i].slot \in DOMAIN vector.docs
      /\ \A s \in L : \E i \in 1 .. n : g[i].slot = s
  <2>1. VectorInv(vector)
    BY DEF StoreHolds, StoreInv, Both
  <2>2. vector.graph \in Seq(Point)
    BY <2>1 DEF VectorInv, VectorState
  <2>3. DOMAIN g = 1 .. n /\ n \in Nat
    BY <2>2
  <2>4. \A i \in DOMAIN g : g[i].slot \in DOMAIN vector.docs
    BY <2>1 DEF VectorInv
  <2>5. \A s \in L : \E i \in DOMAIN g : g[i].slot = s
    <3>. SUFFICES ASSUME NEW s \in L PROVE \E i \in DOMAIN g : g[i].slot = s
      OBVIOUS
    <3>1. PICK i \in DOMAIN g : g[i] = [slot |-> s, text |-> vector.docs[s].text]
      BY <2>1 DEF VectorInv, Embedded
    <3>. QED BY <3>1
  <2>. HIDE DEF n, g
  <2>. QED BY <2>3, <2>4, <2>5
<1>2. PICK p \in SetToSeqs(DOMAIN g) :
        S = FoldLeft(LAMBDA acc, i : IF g[i].slot \in T \/ Cardinality(acc) = k
                                     THEN acc ELSE acc \cup {g[i].slot}, {}, SubSeq(p, 1, m))
  BY DEF search_hnsw
<1>3. m \in Nat /\ m <= n /\ (m = Fetch(k) => m = n \/ m = k + Smaller(k, Headroom))
  <2>1. Fetch(k) \in Nat /\ Fetch(k) <= n /\ n \in Nat /\ (Fetch(k) = n \/ Fetch(k) = k + Smaller(k, Headroom))
    BY FetchFacts
  <2>. HIDE DEF n
  <2>. QED BY <2>1
<1>5. IsFiniteSet(L) /\ Cardinality(L) \in Nat /\ L = DOMAIN vector.docs \ T
  BY LiveVector DEF Live
<1>6. IsFiniteSet(1 .. n) /\ Cardinality(1 .. n) = n
  <2>. HIDE DEF n
  <2>. QED BY <1>1, FS_Interval
<1>. DEFINE q == SubSeq(p, 1, m)
            C == {p[i] : i \in 1 .. m}
            F == {g[q[i]].slot : i \in 1 .. m} \ T
<1>7. /\ DOMAIN q = 1 .. m /\ \A i \in 1 .. m : q[i] = p[i] /\ p[i] \in 1 .. n
      /\ C \subseteq 1 .. n /\ Cardinality(C) = m
  <2>1. /\ \A x : x \in C <=> \E i \in 1 .. m : x = p[i]
        /\ m <= Cardinality(1 .. n)
    BY <1>3, <1>6
  <2>. DEFINE D == 1 .. n
  <2>5. m \in Nat /\ m <= Cardinality(D) /\ IsFiniteSet(D) /\ p \in SetToSeqs(D)
    BY <1>1, <1>2, <1>3, <1>6, <2>1
  <2>. HIDE DEF n, C, D
  <2>2. DOMAIN SubSeq(p, 1, m) = 1 .. m
    BY ONLY <2>1, <2>5, ListPrefix
  <2>3. \A i \in 1 .. m : SubSeq(p, 1, m)[i] = p[i]
    BY ONLY <2>1, <2>5, ListPrefix
  <2>4. C \subseteq D /\ Cardinality(C) = m
    <3>1. /\ IsFiniteSet(D) /\ p \in SetToSeqs(D) /\ m \in Nat /\ m <= Cardinality(D)
          /\ \A x : x \in C <=> \E i \in 1 .. m : x = p[i]
      BY ONLY <2>1, <2>5
    <3>. QED BY ONLY <3>1, ListPrefix
  <2>6. \A i \in 1 .. m : p[i] \in D
    BY ONLY <2>1, <2>4
  <2>. QED BY <2>2, <2>3, <2>4, <2>6 DEF D
<1>8. S \subseteq F /\ Cardinality(S) <= k /\ (Cardinality(S) = k \/ S = F)
  <2>. DEFINE H == CHOOSE h : h = [s \in SUBSET (DOMAIN q) |->
                     IF s = {} THEN {}
                     ELSE IF g[q[Max(s)]].slot \in T \/ Cardinality(h[s \ {Max(s)}]) = k
                     THEN h[s \ {Max(s)}] ELSE h[s \ {Max(s)}] \cup {g[q[Max(s)]].slot}]
              D == DOMAIN q
  <2>. HIDE DEF g, T, q
  <2>1. S = H[DOMAIN q]
    BY ONLY <1>2 DEF FoldLeft, MapThenFoldSet, q
  <2>2. \A h : Takes(h, g, T, q, k, DOMAIN q) <=> h = [s \in SUBSET (DOMAIN q) |->
                     IF s = {} THEN {}
                     ELSE IF g[q[Max(s)]].slot \in T \/ Cardinality(h[s \ {Max(s)}]) = k
                     THEN h[s \ {Max(s)}] ELSE h[s \ {Max(s)}] \cup {g[q[Max(s)]].slot}]
    BY ONLY DEF Takes
  <2>3. D \subseteq Nat /\ IsFiniteSet(D)
    <3>1. IsFiniteSet(1 .. m) /\ 1 .. m \subseteq Nat
      BY ONLY <1>3, FS_Interval
    <3>. QED BY ONLY <1>7, <3>1
  <2>4. \E h : Takes(h, g, T, q, k, D)
    <3>. HIDE DEF D
    <3>. QED BY ONLY <2>3, TakesExist
  <2>5. Takes(H, g, T, q, k, DOMAIN q)
    BY ONLY <2>2, <2>4
  <2>. HIDE DEF H
  <2>6. Takes(H, g, T, q, k, D) /\ S = H[D] /\ D = 1 .. m
    BY ONLY <1>7, <2>1, <2>5
  <2>. HIDE DEF D
  <2>7. Fetched(F, g, T, q, D)
    BY ONLY <2>6 DEF Fetched
  <2>. HIDE DEF F
  <2>8. H[D] \subseteq F /\ Cardinality(H[D]) <= k /\ (Cardinality(H[D]) = k \/ H[D] = F)
    BY ONLY <2>3, <2>6, <2>7, k \in Nat, TakesFacts
  <2>. QED BY ONLY <2>6, <2>8
<1>. HIDE DEF g, T, L, n, q
<1>9. F \subseteq L /\ \A i \in C : g[i].slot \in L => g[i].slot \in F
  BY <1>1, <1>5, <1>7
<1>. HIDE DEF F, C
<1>10. /\ Cardinality(F) \in Nat /\ Cardinality(F) <= Cardinality(L)
       /\ Cardinality(L) - Cardinality(F) <= n - m
       /\ Cardinality(F) = Cardinality(L) => F = L
  <2>1. /\ n \in Nat /\ m \in Nat /\ m <= n /\ C \subseteq 1 .. n /\ Cardinality(C) = m
        /\ IsFiniteSet(L) /\ Covers(g, n, L) /\ Reaches(g, n, C, L, F)
    BY <1>1, <1>3, <1>5, <1>7, <1>9 DEF Covers, Reaches
  <2>. QED BY ONLY <2>1, MissedFacts
<1>11. ASSUME m = Fetch(k), n - Cardinality(L) <= Smaller(k, Headroom)
       PROVE  Cardinality(S) = Smaller(k, Cardinality(L))
  <2>1. Headroom \in Nat /\ Smaller(k, Headroom) \in Nat
    BY SearchAssumption DEF Smaller
  <2>2. IsFiniteSet(S) /\ Cardinality(S) \in Nat /\ Cardinality(S) <= Cardinality(L)
    BY <1>5, <1>8, <1>9, FS_Subset, FS_CardinalityType
  <2>3. Cardinality(F) = Cardinality(L) \/ Cardinality(F) >= k
    <3>1. CASE m = n
      BY <1>1, <1>5, <1>10, <3>1
    <3>2. CASE m = k + Smaller(k, Headroom)
      BY <1>1, <1>3, <1>5, <1>10, <1>11, <2>1, <3>2
    <3>. QED BY <1>3, <1>11, <3>1, <3>2
  <2>4. CASE Cardinality(S) = k
    BY <1>5, <2>2, <2>4 DEF Smaller
  <2>5. CASE S = F /\ Cardinality(S) # k
    BY <1>5, <1>8, <1>10, <2>2, <2>3, <2>5 DEF Smaller
  <2>. QED BY <1>8, <2>4, <2>5
<1>12. Garbage = n - Cardinality(L)
  BY DEF Garbage, n, L
<1>. QED BY <1>8, <1>9, <1>11, <1>12 DEF L

-----------------------------------------------------------------------------
(* What the searches answer                                                *)

LEMMA AnswerFacts ==
  ASSUME StoreHolds, NEW query \in Texts, NEW k \in Nat, NEW S \in VectorIndexSearch(query, k)
  PROVE  /\ S \subseteq Live(vector) /\ IsFiniteSet(S) /\ Cardinality(S) <= k
         /\ k # 0 /\ (mode \/ Len(vector.docs) <= FlatMax) =>
              Cardinality(S) = Smaller(k, Cardinality(Live(vector)))
         /\ k # 0 /\ ((mode /\ k * OVERSAMPLE >= Cardinality(Live(vector)))
                        \/ (~mode /\ Len(vector.docs) <= FlatMax)) =>
              \A s \in S, r \in Live(vector) \ S : SlotDistance(query, s) <= SlotDistance(query, r)
<1>. DEFINE L == Live(vector)
            n == Cardinality(L)
            small == Len(vector.docs) <= FlatMax
<1>1. IsFiniteSet(L) /\ n \in Nat /\ (DOMAIN vector.by_key = {} => L = {})
  BY LiveVector
<1>2. Smaller(k, n) <= k
  <2>. HIDE DEF n
  <2>. QED BY <1>1 DEF Smaller
<1>3. CASE k = 0
  <2>1. S = {}
    BY <1>3 DEF VectorIndexSearch
  <2>. QED BY <1>3, <2>1, FS_EmptySet
<1>4. CASE k # 0 /\ DOMAIN vector.by_key = {}
  <2>1. S = {} /\ L = {}
    BY <1>1, <1>4 DEF VectorIndexSearch
  <2>2. n = 0 /\ Cardinality(S) = 0 /\ IsFiniteSet(S)
    BY <2>1, FS_EmptySet
  <2>3. Smaller(k, n) = 0
    BY <2>2 DEF Smaller
  <2>. QED BY <2>1, <2>2, <2>3
<1>5. CASE k # 0 /\ DOMAIN vector.by_key # {} /\ mode
  <2>1. S \in search_quantized(query, k)
    BY <1>5 DEF VectorIndexSearch
  <2>2. /\ S \subseteq L /\ IsFiniteSet(S) /\ Cardinality(S) = Smaller(k, n)
        /\ k * OVERSAMPLE >= n =>
             \A s \in S, r \in L \ S : SlotDistance(query, s) <= SlotDistance(query, r)
    BY <2>1, QuantizedFacts
  <2>. QED BY <1>2, <1>5, <2>2
<1>6. CASE k # 0 /\ DOMAIN vector.by_key # {} /\ ~mode /\ small
  <2>1. S = Nearest(query, L, k)
    BY <1>6 DEF VectorIndexSearch, search_flat
  <2>2. /\ S \subseteq L /\ IsFiniteSet(S) /\ Cardinality(S) = Smaller(k, n)
        /\ \A s \in S : \A r \in L \ S : SlotDistance(query, s) <= SlotDistance(query, r)
    <3>. HIDE DEF n, small
    <3>. QED BY <2>1, NearestFacts DEF n
  <2>. QED BY <1>2, <1>6, <2>2
<1>7. CASE k # 0 /\ DOMAIN vector.by_key # {} /\ ~mode /\ ~small
  <2>1. PICK m \in 0 .. Fetch(k) : S \in search_hnsw(query, k, m)
    BY <1>7 DEF VectorIndexSearch
  <2>2. S \subseteq L /\ Cardinality(S) <= k
    BY <2>1, GraphFacts
  <2>3. IsFiniteSet(S)
    BY <1>1, <2>2, FS_Subset
  <2>. QED BY <1>7, <2>2, <2>3
<1>. QED BY <1>3, <1>4, <1>5, <1>6, <1>7

LEMMA VectorSearches ==
  ASSUME StoreHolds
  PROVE  VectorSearchSound
<1>0. \A most \in ShardLimits : Knn(most) \in Nat /\ Knn(most) # 0
  BY SearchAssumption DEF Knn
<1>1. ASSUME NEW query \in Texts, NEW most \in ShardLimits, NEW filter \in SUBSET Revs \ {{}},
             NEW answer \in vector_search(query, most, filter)
      PROVE  answer \subseteq Passing(VectorContent, filter) /\ Cardinality(answer) <= Knn(most)
  <2>. DEFINE k == Knn(most)
              j == IF filter = NoFilter THEN k ELSE k * FilterOverfetch
  <2>1. k \in Nat /\ k # 0 /\ j \in Nat
    <3>1. k \in Nat /\ k # 0 /\ FilterOverfetch \in Nat
      BY <1>0, SearchAssumption
    <3>. HIDE DEF k
    <3>. QED BY <3>1
  <2>2. PICK S \in VectorIndexSearch(query, j) : answer \in Cut(Passing({vector.docs[s] : s \in S}, filter), k)
    BY DEF vector_search
  <2>. HIDE DEF j, k
  <2>3. S \subseteq Live(vector) /\ IsFiniteSet(S)
    BY <2>1, <2>2, AnswerFacts
  <2>. DEFINE H == {vector.docs[s] : s \in S}
              P == Passing(H, filter)
  <2>4. IsFiniteSet(H) /\ P \subseteq H /\ H \subseteq VectorContent
    <3>1. IsFiniteSet(H)
      BY <2>3, ImageFinite
    <3>2. H \subseteq VectorContent
      BY <2>3 DEF VectorContent
    <3>3. P \subseteq H
      BY DEF Passing
    <3>. QED BY <3>1, <3>2, <3>3
  <2>5. P \subseteq Passing(VectorContent, filter)
    <3>. HIDE DEF H
    <3>. QED BY <2>4 DEF Passing
  <2>6. answer \in Cut(P, k)
    BY <2>2
  <2>. HIDE DEF P, H
  <2>7. IsFiniteSet(P)
    BY <2>4, FS_Subset
  <2>8. answer \subseteq P /\ Cardinality(P) \in Nat /\ Cardinality(answer) = Smaller(k, Cardinality(P))
    BY <2>1, <2>6, <2>7, CutFacts
  <2>. QED BY <2>1, <2>5, <2>8, SmallerFacts DEF k
<1>2. ASSUME NEW query \in Texts, NEW k \in Nat \ {0}, NEW S \in VectorIndexSearch(query, k)
      PROVE  /\ mode \/ Len(vector.docs) <= FlatMax =>
                  Cardinality(S) = Smaller(k, Cardinality(Live(vector)))
             /\ (mode /\ k * OVERSAMPLE >= Cardinality(Live(vector)))
                  \/ (~mode /\ Len(vector.docs) <= FlatMax) =>
                  \A s \in S, r \in Live(vector) \ S :
                    SlotDistance(query, s) <= SlotDistance(query, r)
  <2>1. k \in Nat /\ k # 0
    OBVIOUS
  <2>2. mode \/ Len(vector.docs) <= FlatMax => Cardinality(S) = Smaller(k, Cardinality(Live(vector)))
    BY <2>1, AnswerFacts
  <2>3. (mode /\ k * OVERSAMPLE >= Cardinality(Live(vector))) \/ (~mode /\ Len(vector.docs) <= FlatMax) =>
          \A s \in S, r \in Live(vector) \ S : SlotDistance(query, s) <= SlotDistance(query, r)
    BY <2>1, AnswerFacts
  <2>. QED BY <2>2, <2>3
<1>3. ASSUME NEW query \in Texts, NEW k \in Nat \ {0}, Garbage <= Smaller(k, Headroom),
             NEW S \in search_hnsw(query, k, Fetch(k))
      PROVE  Cardinality(S) = Smaller(k, Cardinality(Live(vector)))
  <2>1. Fetch(k) \in 0 .. Fetch(k)
    BY FetchFacts
  <2>. QED BY <1>3, <2>1, GraphFacts
<1>. QED BY <1>0, <1>1, <1>2, <1>3 DEF VectorSearchSound

\* InvertedIndex::search, VectorIndex::search and the handlers of server.rs answer
\* from the live documents, whatever mix of upserts, evictions and snapshots went
\* before: keyword searches return and count exactly the matches that pass the
\* filter; vector hits are live, of an aircraft at most one, pass the filter, are as
\* many as asked for or all there are (from the graph, if it lists the points asked
\* for and replaced vectors stay within the headroom), and are the nearest where the
\* search is exact.
THEOREM SearchSoundAlways == Spec => []SearchSound
<1>1. StoreHolds => SearchSound
  BY KeywordSearches, VectorSearches DEF SearchSound
<1>. QED BY <1>1, StoreAlways, PTL

-----------------------------------------------------------------------------
(* Aggregates: counts and buckets                                          *)

NoPartial == [count |-> 0, buckets |-> <<>>, digest |-> Empty]

\* One step of merge_partials
Added(acc, p) ==
  [count   |-> acc.count + p.count,
   buckets |-> AddBuckets(acc.buckets, p.buckets),
   digest  |-> merge(acc.digest, from_parts(p.digest))]

\* h[s] merges the partials that s numbers, the least first.
Merges(h, P, S) ==
  h = [s \in SUBSET S |-> IF s = {} THEN NoPartial ELSE Added(h[s \ {Max(s)}], P[Max(s)])]

LEMMA MergesExist ==
  ASSUME NEW S, S \subseteq Nat, IsFiniteSet(S), NEW P
  PROVE  \E h : Merges(h, P, S)
<1>. DEFINE Upto(n) == {s \in SUBSET S : Cardinality(s) <= n}
            Value(h, s) == IF s = {} THEN NoPartial ELSE Added(h[s \ {Max(s)}], P[Max(s)])
            Partly(h, n) == h = [s \in Upto(n) |-> Value(h, s)]
            D == {n \in Nat : \E h : Partly(h, n)}
<1>0. \A s \in SUBSET S : IsFiniteSet(s) /\ Cardinality(s) \in Nat
  BY FS_Subset, FS_CardinalityType
<1>1. 0 \in D
  <2>. DEFINE h == [s \in Upto(0) |-> NoPartial]
  <2>1. \A s \in Upto(0) : s = {}
    BY <1>0, FS_EmptySet
  <2>2. Partly(h, 0)
    BY <2>1
  <2>. QED BY <2>2
<1>2. ASSUME NEW n \in Nat, n \in D
      PROVE  n + 1 \in D
  <2>1. PICK h : Partly(h, n)
    BY <1>2
  <2>. DEFINE k == [s \in Upto(n + 1) |-> Value(h, s)]
  <2>2. \A s \in Upto(n) : s \in Upto(n + 1) /\ k[s] = h[s]
    <3>1. \A s \in Upto(n) : s \in Upto(n + 1)
      BY <1>0
    <3>2. \A s \in Upto(n) : h[s] = Value(h, s)
      <4>. HIDE DEF Upto, Value
      <4>. QED BY <2>1
    <3>. HIDE DEF Upto, Value
    <3>. QED BY <3>1, <3>2
  <2>3. ASSUME NEW s \in Upto(n + 1), s # {}
        PROVE  s \ {Max(s)} \in Upto(n)
    <3>1. s \in SUBSET S /\ Max(s) \in s /\ Cardinality(s) <= n + 1
      BY <1>0, <2>3, MaxFacts
    <3>2. Cardinality(s \ {Max(s)}) = Cardinality(s) - 1
      BY <1>0, <3>1, FS_RemoveElement
    <3>. DEFINE r == s \ {Max(s)}
    <3>3. r \in SUBSET S /\ Cardinality(s) \in Nat /\ Cardinality(r) = Cardinality(s) - 1
      BY <1>0, <3>1, <3>2
    <3>. HIDE DEF r
    <3>4. r \in Upto(n)
      BY <3>1, <3>3
    <3>. QED BY <3>4 DEF r
  <2>4. \A s \in Upto(n + 1) : k[s] = Value(k, s)
    <3>. SUFFICES ASSUME NEW s \in Upto(n + 1) PROVE k[s] = Value(k, s)
      OBVIOUS
    <3>1. k[s] = Value(h, s)
      <4>. HIDE DEF Upto, Value
      <4>. QED OBVIOUS
    <3>2. s # {} => k[s \ {Max(s)}] = h[s \ {Max(s)}]
      <4>. HIDE DEF Upto, k
      <4>. QED BY <2>2, <2>3
    <3>. HIDE DEF k, Upto
    <3>. QED BY <3>1, <3>2
  <2>5. DOMAIN k = Upto(n + 1) /\ k = [s \in Upto(n + 1) |-> k[s]]
    <3>. HIDE DEF Upto, Value
    <3>. QED OBVIOUS
  <2>6. Partly(k, n + 1)
    <3>. HIDE DEF Upto, Value, k
    <3>. QED BY <2>4, <2>5
  <2>. HIDE DEF k, Partly
  <2>. QED BY <2>6
<1>3. Cardinality(S) \in D
  <2>. HIDE DEF D
  <2>. QED BY <1>0, <1>1, <1>2, AllNumbers
<1>4. Upto(Cardinality(S)) = SUBSET S
  BY <1>0, FS_Subset
<1>5. PICK h : Partly(h, Cardinality(S))
  BY <1>3
<1>6. h = [s \in SUBSET S |-> Value(h, s)]
  <2>. HIDE DEF Upto, Value
  <2>. QED BY <1>4, <1>5
<1>. QED BY <1>6 DEF Merges

\* The copies that the leaders of L hold
CopiesOf(L) == {c \in L \X Hit : c[2] \in matches[c[1]]}
InBucket(C, k) == {c \in C : bucket_key(c[2].observed_at) = k}
Keys(C) == {bucket_key(c[2].observed_at) : c \in C}

\* a counts the copies C.
Counts(a, C) ==
  /\ a.count = Cardinality(C)
  /\ DOMAIN a.buckets = Keys(C)
  /\ \A k \in Keys(C) : a.buckets[k] = Cardinality(InBucket(C, k))

LEMMA PairsCount ==
  ASSUME NEW l, NEW M, IsFiniteSet(M), NEW C, C = {c \in {l} \X M : TRUE}
  PROVE  IsFiniteSet(C) /\ Cardinality(C) = Cardinality(M)
<1>. DEFINE f == [h \in M |-> <<l, h>>]
<1>1. \A x, y \in M : f[x] = f[y] => x = y
  OBVIOUS
<1>2. C = {f[h] : h \in M}
  OBVIOUS
<1>. HIDE DEF f
<1>3. Cardinality({f[h] : h \in M}) = Cardinality(M)
  BY <1>1, ImageCount
<1>4. IsFiniteSet({f[h] : h \in M})
  BY ImageFinite
<1>. QED BY <1>2, <1>3, <1>4

\* A shard counts its own copies.
LEMMA PartialCounts ==
  ASSUME NEW l, IsFiniteSet(matches[l]), matches[l] \subseteq Hit
  PROVE  Counts(partial(l), CopiesOf({l})) /\ IsFiniteSet(CopiesOf({l}))
<1>. DEFINE M == matches[l]
            C == CopiesOf({l})
<1>1. C = {c \in {l} \X M : TRUE}
  BY DEF CopiesOf
<1>2. IsFiniteSet(C) /\ Cardinality(C) = Cardinality(M)
  <2>. HIDE DEF C, M
  <2>1. IsFiniteSet(M)
    BY DEF M
  <2>. QED BY <1>1, <2>1, PairsCount
<1>3. partial(l).count = Cardinality(M)
  BY DEF partial
<1>4. /\ DOMAIN partial(l).buckets = {bucket_key(h.observed_at) : h \in M}
      /\ \A k \in {bucket_key(h.observed_at) : h \in M} :
           partial(l).buckets[k] = Cardinality({h \in M : bucket_key(h.observed_at) = k})
  BY DEF partial
<1>5. Keys(C) = {bucket_key(h.observed_at) : h \in M}
  <2>1. \A c \in C : c[2] \in M
    BY <1>1
  <2>2. \A h \in M : <<l, h>> \in C /\ <<l, h>>[2] = h
    BY <1>1
  <2>. HIDE DEF C, M
  <2>. QED BY <2>1, <2>2 DEF Keys
<1>6. ASSUME NEW k PROVE Cardinality(InBucket(C, k)) = Cardinality({h \in M : bucket_key(h.observed_at) = k})
  <2>. DEFINE N == {h \in M : bucket_key(h.observed_at) = k}
              B == InBucket(C, k)
  <2>1. IsFiniteSet(N)
    BY FS_Subset
  <2>2. B = {c \in {l} \X N : TRUE}
    BY <1>1 DEF InBucket
  <2>. HIDE DEF N, B
  <2>3. Cardinality(B) = Cardinality(N)
    BY <2>1, <2>2, PairsCount
  <2>. QED BY <2>3 DEF N, B
<1>. QED BY <1>2, <1>3, <1>4, <1>5, <1>6 DEF Counts

\* Partials of different copies add up.
LEMMA CountsAdd ==
  ASSUME NEW B, NEW C, IsFiniteSet(B), IsFiniteSet(C), B \cap C = {},
         NEW a, Counts(a, B), NEW p, Counts(p, C)
  PROVE  Counts(Added(a, p), B \cup C) /\ IsFiniteSet(B \cup C)
<1>. DEFINE U == B \cup C
            n == Added(a, p)
            x == a.buckets
            y == p.buckets
<1>1. \A k : /\ IsFiniteSet(InBucket(B, k)) /\ IsFiniteSet(InBucket(C, k))
             /\ InBucket(B, k) \cup InBucket(C, k) = InBucket(U, k) /\ InBucket(B, k) \cap InBucket(C, k) = {}
             /\ k \notin Keys(B) => InBucket(B, k) = {}
             /\ k \notin Keys(C) => InBucket(C, k) = {}
  <2>1. \A k : InBucket(B, k) \subseteq B /\ InBucket(C, k) \subseteq C
    BY DEF InBucket
  <2>2. \A k : IsFiniteSet(InBucket(B, k)) /\ IsFiniteSet(InBucket(C, k))
    BY <2>1, FS_Subset
  <2>3. \A k : InBucket(B, k) \cup InBucket(C, k) = InBucket(U, k) /\ InBucket(B, k) \cap InBucket(C, k) = {}
    BY DEF InBucket
  <2>4. \A k : (k \notin Keys(B) => InBucket(B, k) = {}) /\ (k \notin Keys(C) => InBucket(C, k) = {})
    BY DEF InBucket, Keys
  <2>. QED BY <2>2, <2>3, <2>4
<1>2. Keys(U) = Keys(B) \cup Keys(C)
  BY DEF Keys
<1>3. IsFiniteSet(U) /\ Cardinality(U) = Cardinality(B) + Cardinality(C)
  <2>1. /\ IsFiniteSet(B \cup C) /\ Cardinality(B \cup C) = Cardinality(B) + Cardinality(C) - Cardinality(B \cap C)
        /\ Cardinality(B) \in Nat /\ Cardinality(C) \in Nat
    BY FS_Union, FS_CardinalityType
  <2>2. Cardinality(B \cap C) = 0
    BY FS_EmptySet
  <2>. QED BY <2>1, <2>2
<1>4. n.count = a.count + p.count /\ n.buckets = AddBuckets(x, y)
  BY DEF Added
<1>5. a.count = Cardinality(B) /\ p.count = Cardinality(C) /\ DOMAIN x = Keys(B) /\ DOMAIN y = Keys(C)
  BY DEF Counts
<1>. HIDE DEF U, n
<1>6. n.count = Cardinality(U)
  BY <1>3, <1>4, <1>5
<1>7. DOMAIN n.buckets = Keys(U)
  BY <1>2, <1>4, <1>5 DEF AddBuckets
<1>8. ASSUME NEW k \in Keys(U) PROVE n.buckets[k] = Cardinality(InBucket(U, k))
  <2>. DEFINE E == InBucket(B, k)
              F == InBucket(C, k)
  <2>1. (IF k \in DOMAIN x THEN x[k] ELSE 0) = Cardinality(E) /\ (IF k \in DOMAIN y THEN y[k] ELSE 0) = Cardinality(F)
    BY <1>1, <1>5, FS_EmptySet DEF Counts
  <2>2. k \in DOMAIN x \cup DOMAIN y
    BY <1>2, <1>5, <1>8
  <2>. HIDE DEF x, y
  <2>3. n.buckets[k] = (IF k \in DOMAIN x THEN x[k] ELSE 0) + (IF k \in DOMAIN y THEN y[k] ELSE 0)
    BY <1>4, <2>2 DEF AddBuckets
  <2>4. n.buckets[k] = Cardinality(E) + Cardinality(F)
    BY <2>1, <2>3
  <2>5. IsFiniteSet(E) /\ IsFiniteSet(F) /\ E \cup F = InBucket(U, k) /\ E \cap F = {}
    BY <1>1
  <2>. HIDE DEF E, F
  <2>6. /\ Cardinality(E \cup F) = Cardinality(E) + Cardinality(F) - Cardinality(E \cap F)
        /\ Cardinality(E) \in Nat /\ Cardinality(F) \in Nat
    BY <2>5, FS_Union, FS_CardinalityType
  <2>7. Cardinality(InBucket(U, k)) = Cardinality(E) + Cardinality(F)
    <3>1. Cardinality(E \cap F) = 0
      BY <2>5, FS_EmptySet
    <3>2. Cardinality(E \cup F) = Cardinality(E) + Cardinality(F)
      BY <2>6, <3>1
    <3>. QED BY <2>5, <3>2
  <2>. QED BY <2>4, <2>7
<1>9. Counts(n, U) /\ IsFiniteSet(U)
  BY <1>3, <1>6, <1>7, <1>8 DEF Counts
<1>. QED BY <1>9 DEF n, U

\* P[i] is the partial of the leader order[i], each leader's once.
Listed(order, S) == {order[i] : i \in S}
Partials(P, order, S) ==
  \A i \in S : /\ Counts(P[i], CopiesOf({order[i]})) /\ IsFiniteSet(CopiesOf({order[i]}))
               /\ \A j \in S : order[i] = order[j] => i = j

\* Whatever the order, merging partials counts the copies of their leaders.
LEMMA MergeCounts ==
  ASSUME NEW S, S \subseteq Nat, IsFiniteSet(S), NEW order, NEW P, Partials(P, order, S),
         NEW h, Merges(h, P, S)
  PROVE  Counts(h[S], CopiesOf(Listed(order, S)))
<1>. DEFINE K(s) == CopiesOf({order[i] : i \in s})
            Right(s) == Counts(h[s], K(s)) /\ IsFiniteSet(K(s))
            X == {s \in SUBSET S : ~Right(s)}
<1>1. ASSUME NEW s \in SUBSET S, s # {}
      PROVE  Max(s) \in s /\ h[s] = Added(h[s \ {Max(s)}], P[Max(s)])
  <2>1. Max(s) \in s
    BY <1>1, FS_Subset, MaxFacts
  <2>. QED BY <1>1, <2>1 DEF Merges
<1>2. h[{}] = NoPartial
  BY DEF Merges
<1>3. X = {}
  <2>. SUFFICES ASSUME X # {} PROVE FALSE
    OBVIOUS
  <2>1. PICK s \in X : \A t \in X : ~(t \subseteq s /\ t # s)
    <3>1. \A t \in X : IsFiniteSet(t)
      BY FS_Subset
    <3>. HIDE DEF X
    <3>. QED BY <3>1, SmallestSet
  <2>2. s \in SUBSET S /\ ~Right(s)
    OBVIOUS
  <2>3. CASE s = {}
    <3>1. K(s) = {}
      BY <2>3 DEF CopiesOf
    <3>2. Keys({}) = {} /\ Cardinality({}) = 0 /\ IsFiniteSet({})
      BY FS_EmptySet DEF Keys
    <3>3. Counts(NoPartial, {})
      BY <3>2 DEF Counts, NoPartial
    <3>. QED BY <1>2, <2>2, <2>3, <3>1, <3>2, <3>3
  <2>4. CASE s # {}
    <3>. DEFINE x == Max(s)
                r == s \ {x}
    <3>1. x \in s /\ h[s] = Added(h[r], P[x])
      BY <1>1, <2>2, <2>4
    <3>. HIDE DEF x
    <3>2. Right(r)
      <4>1. r \in SUBSET S /\ r \subseteq s /\ r # s
        BY <2>2, <3>1
      <4>2. r \notin X
        <5>. HIDE DEF X, r
        <5>. QED BY <2>1, <4>1
      <4>. HIDE DEF r, Right
      <4>. QED BY <4>1, <4>2
    <3>3. s = r \cup {x} /\ x \notin r /\ x \in S /\ r \subseteq S
      BY <2>2, <3>1
    <3>. HIDE DEF r, X
    <3>4. K(s) = K(r) \cup CopiesOf({order[x]}) /\ K(r) \cap CopiesOf({order[x]}) = {}
      <4>1. {order[i] : i \in s} = {order[i] : i \in r} \cup {order[x]}
        BY <3>3
      <4>2. order[x] \notin {order[i] : i \in r}
        BY <3>3 DEF Partials
      <4>. QED BY <4>1, <4>2 DEF CopiesOf
    <3>. HIDE DEF K
    <3>5. Counts(P[x], CopiesOf({order[x]})) /\ IsFiniteSet(CopiesOf({order[x]}))
      BY <3>3 DEF Partials
    <3>. DEFINE B == K(r)
                C == CopiesOf({order[x]})
                a == h[r]
                p == P[x]
    <3>6. IsFiniteSet(B) /\ IsFiniteSet(C) /\ B \cap C = {} /\ Counts(a, B) /\ Counts(p, C)
      BY <3>2, <3>4, <3>5
    <3>7. K(s) = B \cup C /\ h[s] = Added(a, p)
      BY <3>1, <3>4
    <3>. HIDE DEF B, C, a, p
    <3>8. Counts(Added(a, p), B \cup C) /\ IsFiniteSet(B \cup C)
      BY ONLY <3>6, CountsAdd
    <3>. QED BY <2>2, <3>7, <3>8
  <2>. QED BY <2>3, <2>4
<1>4. Right(S)
  BY <1>3
<1>. QED BY <1>4 DEF Listed

\* The partials of agg.rs, merged in whatever order the shards answered, count
\* every matching document of every shard that answered, bucket by bucket and
\* whatever the query's limit; and every aircraft once if none is on two shards.
THEOREM CountsExactAlways ==
  FanoutSpec => [](finished = "complete" => \A order \in AnsweredOrders : CountsExact(aggregate(order)))
<1>1. FanoutInv => (finished = "complete" => \A order \in AnsweredOrders : CountsExact(aggregate(order)))
  <2>. SUFFICES ASSUME FanoutInv, NEW order \in AnsweredOrders PROVE CountsExact(aggregate(order))
    OBVIOUS
  <2>. DEFINE L == With("answered")
              N == Cardinality(L)
              D == DOMAIN order
              P == [i \in DOMAIN order |-> partial(order[i])]
              agg == aggregate(order)
  <2>1. L \subseteq Leaders /\ IsFiniteSet(L) /\ N \in Nat
    BY LeadersAssumption, FS_Subset, FS_CardinalityType DEF With
  <2>2. \A l \in Leaders : IsFiniteSet(matches[l]) /\ matches[l] \subseteq Hit /\ OnePerAircraft(matches[l])
    BY DEF FanoutInv, Asked, Slices
  <2>3. order \in [1 .. N -> L] /\ \A i, j \in 1 .. N : order[i] = order[j] => i = j
    BY DEF AnsweredOrders, SetToSeqs
  <2>4. IsFiniteSet(1 .. N) /\ Cardinality(1 .. N) = N /\ 1 .. N \subseteq Nat
    <3>. HIDE DEF N
    <3>. QED BY <2>1, FS_Interval
  <2>. HIDE DEF N, L
  <2>5. {order[i] : i \in D} = L
    <3>. DEFINE I == {order[i] : i \in D}
    <3>1. D = 1 .. N /\ I \subseteq L
      BY <2>3
    <3>2. Cardinality(I) = Cardinality(D)
      <4>. HIDE DEF D
      <4>1. IsFiniteSet(D) /\ \A i, j \in D : order[i] = order[j] => i = j
        BY <2>3, <2>4, <3>1
      <4>. QED BY <4>1, ImageCount
    <3>. HIDE DEF I, D
    <3>3. I = L
      BY <2>1, <2>4, <3>1, <3>2, FS_Subset DEF N
    <3>. QED BY <3>3 DEF I
  <2>6. /\ D \subseteq Nat /\ IsFiniteSet(D) /\ DOMAIN P = D
        /\ \A i \in D : order[i] \in Leaders /\ P[i] = partial(order[i])
        /\ \A i, j \in D : order[i] = order[j] => i = j
    BY <2>1, <2>3, <2>4
  <2>7. Copies = CopiesOf(L)
    BY DEF Copies, CopiesOf, L
  <2>8. agg = merge_partials(P)
    BY DEF aggregate
  <2>. HIDE DEF P, D
  <2>. DEFINE H == CHOOSE h : h = [s \in SUBSET (DOMAIN P) |->
                     IF s = {} THEN [count |-> 0, buckets |-> <<>>, digest |-> Empty]
                     ELSE [count   |-> h[s \ {Max(s)}].count + P[Max(s)].count,
                           buckets |-> AddBuckets(h[s \ {Max(s)}].buckets, P[Max(s)].buckets),
                           digest  |-> merge(h[s \ {Max(s)}].digest, from_parts(P[Max(s)].digest))]]
  <2>9. merge_partials(P) = H[DOMAIN P]
    BY ONLY DEF merge_partials, FoldLeft, MapThenFoldSet
  <2>10. \A h : Merges(h, P, DOMAIN P) <=> h = [s \in SUBSET (DOMAIN P) |->
                     IF s = {} THEN [count |-> 0, buckets |-> <<>>, digest |-> Empty]
                     ELSE [count   |-> h[s \ {Max(s)}].count + P[Max(s)].count,
                           buckets |-> AddBuckets(h[s \ {Max(s)}].buckets, P[Max(s)].buckets),
                           digest  |-> merge(h[s \ {Max(s)}].digest, from_parts(P[Max(s)].digest))]]
    BY ONLY DEF Merges, Added, NoPartial
  <2>11. \E h : Merges(h, P, DOMAIN P)
    BY ONLY <2>6, MergesExist
  <2>12. Merges(H, P, DOMAIN P)
    BY ONLY <2>10, <2>11
  <2>. HIDE DEF H
  <2>13. Counts(H[D], CopiesOf(Listed(order, D)))
    <3>1. Partials(P, order, D)
      BY <2>2, <2>6, PartialCounts DEF Partials
    <3>2. Merges(H, P, D)
      BY ONLY <2>6, <2>12
    <3>. QED BY ONLY <2>6, <3>1, <3>2, MergeCounts
  <2>14. Counts(agg, Copies)
    BY ONLY <2>5, <2>6, <2>7, <2>8, <2>9, <2>13 DEF Listed
  <2>15. IsFiniteSet(Copies)
    <3>. DEFINE M == UNION {matches[l] : l \in L}
    <3>1. Copies \subseteq L \X M
      BY <2>7 DEF CopiesOf
    <3>2. IsFiniteSet(M)
      <4>. DEFINE F == {matches[l] : l \in L}
      <4>1. IsFiniteSet(F)
        BY <2>1, ImageFinite
      <4>2. \A s \in F : IsFiniteSet(s)
        BY <2>1, <2>2
      <4>. HIDE DEF F
      <4>3. IsFiniteSet(UNION F)
        BY <4>1, <4>2, FS_UNION
      <4>. QED BY <4>3 DEF F
    <3>. HIDE DEF M
    <3>3. IsFiniteSet(L \X M)
      BY <2>1, <3>2, FS_Product
    <3>. QED BY <3>1, <3>3, FS_Subset
  <2>16. ASSUME Disjoint PROVE Cardinality(Copies) = Cardinality({c[2].icao24 : c \in Copies})
    <3>. DEFINE f == [c \in Copies |-> c[2].icao24]
    <3>1. ASSUME NEW b \in Copies, NEW c \in Copies, f[b] = f[c] PROVE b = c
      <4>1. /\ b[1] \in Leaders /\ b[2] \in matches[b[1]] /\ b = <<b[1], b[2]>>
            /\ c[1] \in Leaders /\ c[2] \in matches[c[1]] /\ c = <<c[1], c[2]>>
            /\ b[2].icao24 = c[2].icao24
        BY <2>1, <2>7, <3>1 DEF CopiesOf
      <4>2. b[1] = c[1]
        BY <2>16, <4>1 DEF Disjoint
      <4>3. b[2] = c[2]
        BY <2>2, <4>1, <4>2 DEF OnePerAircraft
      <4>. QED BY <4>1, <4>2, <4>3
    <3>2. {f[c] : c \in Copies} = {c[2].icao24 : c \in Copies}
      OBVIOUS
    <3>. HIDE DEF f
    <3>3. Cardinality({f[c] : c \in Copies}) = Cardinality(Copies)
      BY <2>15, <3>1, ImageCount
    <3>. QED BY <3>2, <3>3
  <2>17. Keys(Copies) = {bucket_key(c[2].observed_at) : c \in Copies}
    BY DEF Keys
  <2>. HIDE DEF agg
  <2>18. CountsExact(agg)
    BY <2>14, <2>16, <2>17 DEF Counts, CountsExact, InBucket
  <2>. QED BY <2>18 DEF agg
<1>. QED BY <1>1, FanoutInitial, FanoutStep, PTL DEF FanoutSpec
=============================================================================
