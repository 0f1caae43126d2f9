---------------------------- MODULE SumTheorems ----------------------------
(***************************************************************************)
(* Sums over finite sets: what SumFunctionOnSet(f, S) of the library says  *)
(* for every set S.  The library defines it by a recursive function on the *)
(* subsets of S; that there is one is shown by induction on their size.    *)
(* The sums of the models (the bottles of some entries, the answers to the *)
(* closed tickets, the movements of an item) are each shown to be one of   *)
(* these where they are needed.                                            *)
(***************************************************************************)
EXTENDS Integers, FiniteSets, Functions, WellFoundedInduction, FiniteSetTheorems, TLAPS

\* The element the library takes first.
Picked(s) == CHOOSE x \in s : TRUE

\* What g says of s, if it sums the subsets of s.
Adds(g, f, s) ==
  g[s] = IF s = {} THEN 0 ELSE f[Picked(s)] + g[s \ {Picked(s)}]

\* g sums the subsets of S.
Summing(g, f, S) == \A s \in SUBSET S : Adds(g, f, s)

\* The same, as the recursive function the operator of the library defines.
Sums(g, f, S) ==
  g = [s \in SUBSET S |-> IF s = {} THEN 0 ELSE f[Picked(s)] + g[s \ {Picked(s)}]]

\* The induction principle of the naturals, of sets.
LEMMA SetInduction ==
  ASSUME NEW S \in SUBSET Nat, 0 \in S, \A n \in S : n+1 \in S
  PROVE  S = Nat
<1> DEFINE T == Nat \ S
           R == OpToRel(<, Nat)
<1>1. SUFFICES ASSUME T # {} PROVE FALSE
  OBVIOUS
<1>2. IsWellFoundedOn(R, Nat)
  BY NatLessThanWellFounded
<1>3. \A m, n \in Nat : m < n => <<m, n>> \in R
  BY DEF OpToRel
<1> HIDE DEF R
<1>4. PICK x \in T : \A y \in T : ~ (<<y, x>> \in R)
  BY <1>1, <1>2, WFMin
<1>5. x # 0 /\ x - 1 \in Nat /\ x - 1 < x
  BY <1>4
<1>6. x - 1 \in S
  BY <1>3, <1>4, <1>5
<1>7. x \in S
  BY <1>5, <1>6
<1> QED BY <1>4, <1>7

\* What is taken from a subset of a finite set, and what is left.
LEMMA PickOne ==
  ASSUME NEW S, IsFiniteSet(S), NEW s \in SUBSET S
  PROVE  /\ IsFiniteSet(s) /\ Cardinality(s) \in Nat
         /\ s = {} <=> Cardinality(s) = 0
         /\ s # {} => Picked(s) \in s
         /\ \A x \in s : /\ s \ {x} \in SUBSET S
                         /\ Cardinality(s \ {x}) = Cardinality(s) - 1
<1>1. IsFiniteSet(s)
  BY FS_Subset
<1>2. Cardinality(s) \in Nat /\ (s = {} <=> Cardinality(s) = 0)
  BY <1>1, FS_CardinalityType, FS_EmptySet
<1>3. s # {} => Picked(s) \in s
  BY DEF Picked
<1>4. ASSUME NEW x \in s
      PROVE  s \ {x} \in SUBSET S /\ Cardinality(s \ {x}) = Cardinality(s) - 1
  BY <1>1, FS_RemoveElement
<1> QED
  BY <1>1, <1>2, <1>3, <1>4

\* There is a function that sums the subsets of a finite set, whatever f says.
LEMMA SumsExist ==
  ASSUME NEW f, NEW S, IsFiniteSet(S)
  PROVE  \E g : Sums(g, f, S)
<1> DEFINE F(g) == [s \in SUBSET S |-> IF s = {} THEN 0
                                       ELSE f[Picked(s)] + g[s \ {Picked(s)}]]
           UpTo(g, n) == \A s \in SUBSET S : Cardinality(s) <= n => Adds(g, f, s)
           G == {n \in Nat : \E g : UpTo(g, n)}
<1>1. 0 \in G
  <2>1. ASSUME NEW s \in SUBSET S, Cardinality(s) <= 0
        PROVE  Adds([t \in SUBSET S |-> 0], f, s)
    BY <2>1, PickOne DEF Adds
  <2> QED
    BY <2>1
<1>2. ASSUME NEW n \in G PROVE n + 1 \in G
  <2>1. PICK g : UpTo(g, n)
    OBVIOUS
  <2>2. PICK h : h = F(g)
    OBVIOUS
  <2>3. ASSUME NEW s \in SUBSET S, Cardinality(s) <= n + 1
        PROVE  Adds(h, f, s)
    <3>1. CASE s = {}
      BY <2>2, <3>1 DEF Adds
    <3>2. CASE s # {}
      <4>1. PICK t : t = s \ {Picked(s)}
        OBVIOUS
      <4>2. t \in SUBSET S /\ Cardinality(t) <= n
        BY <2>3, <3>2, <4>1, PickOne
      <4>3. Adds(g, f, t)
        BY <2>1, <4>2
      <4>4. h[t] = g[t]
        BY <2>2, <4>2, <4>3 DEF Adds
      <4>5. h[s] = f[Picked(s)] + g[t]
        BY <2>2, <3>2, <4>1
      <4> QED
        BY <3>2, <4>1, <4>4, <4>5 DEF Adds
    <3> QED
      BY <3>1, <3>2
  <2> QED
    BY <2>3
<1>3. G = Nat
  <2>1. G \in SUBSET Nat
    OBVIOUS
  <2> HIDE DEF G
  <2> QED
    BY <1>1, <1>2, <2>1, SetInduction
<1>4. Cardinality(S) \in Nat
  BY FS_CardinalityType
<1>5. PICK g : UpTo(g, Cardinality(S))
  BY <1>3, <1>4
<1>6. \A s \in SUBSET S : Adds(g, f, s)
  BY <1>5, FS_Subset, FS_CardinalityType
<1>7. PICK h : h = [s \in SUBSET S |-> g[s]]
  OBVIOUS
<1>8. ASSUME NEW s \in SUBSET S
      PROVE  h[s] = IF s = {} THEN 0 ELSE f[Picked(s)] + h[s \ {Picked(s)}]
  <2>1. h[s] = g[s] /\ h[s \ {Picked(s)}] = g[s \ {Picked(s)}]
    BY <1>7
  <2> QED
    BY <1>6, <2>1 DEF Adds
<1>9. h = F(h)
  BY <1>7, <1>8
<1> QED
  BY <1>9 DEF Sums

\* The sum is what such a function says of the whole set.
LEMMA SumUnfolds ==
  ASSUME NEW f, NEW S, IsFiniteSet(S)
  PROVE  \E g : SumFunctionOnSet(f, S) = g[S] /\ Summing(g, f, S)
<1>1. PICK g : g = (CHOOSE h : Sums(h, f, S))
  OBVIOUS
<1>2. SumFunctionOnSet(f, S) = g[S]
  BY <1>1 DEF SumFunctionOnSet, FoldFunctionOnSet, MapThenFoldSet, Sums, Picked
<1>3. Sums(g, f, S)
  BY <1>1, SumsExist
<1>4. Summing(g, f, S)
  BY <1>3 DEF Sums, Adds, Summing
<1> QED
  BY <1>2, <1>4

\* Induction on the size of the subsets of a finite set.
LEMMA SizeInduction ==
  ASSUME NEW S, IsFiniteSet(S), NEW P,
         ASSUME NEW s \in SUBSET S,
                \A t \in SUBSET S : Cardinality(t) < Cardinality(s) => t \in P
         PROVE  s \in P
  PROVE  \A s \in SUBSET S : s \in P
<1> DEFINE N == {n \in Nat : \A s \in SUBSET S : Cardinality(s) <= n => s \in P}
<1>1. 0 \in N
  <2>1. ASSUME NEW s \in SUBSET S, Cardinality(s) <= 0 PROVE s \in P
    <3>1. \A t \in SUBSET S : ~(Cardinality(t) < Cardinality(s))
      BY <2>1, PickOne
    <3> QED
      BY <3>1
  <2> QED
    BY <2>1
<1>2. ASSUME NEW n \in N PROVE n + 1 \in N
  <2>1. ASSUME NEW s \in SUBSET S, Cardinality(s) <= n + 1 PROVE s \in P
    <3>1. \A t \in SUBSET S : Cardinality(t) < Cardinality(s) => t \in P
      BY <2>1, PickOne
    <3> QED
      BY <3>1
  <2> QED
    BY <2>1
<1>3. N = Nat
  <2>1. N \in SUBSET Nat
    OBVIOUS
  <2> HIDE DEF N
  <2> QED
    BY <1>1, <1>2, <2>1, SetInduction
<1>4. ASSUME NEW s \in SUBSET S PROVE s \in P
  <2>1. Cardinality(s) \in N
    BY <1>3, PickOne
  <2> QED
    BY <2>1, PickOne
<1> QED
  BY <1>4

\* What f says of S are numbers; the same as another function says.
Counted(f, S) == \A x \in S : f[x] \in Int
Same(f, more, S) == \A x \in S : f[x] = more[x]

\* Sums of numbers are numbers.
LEMMA SumsAreNumbers ==
  ASSUME NEW f, NEW S, IsFiniteSet(S), Counted(f, S),
         NEW g, Summing(g, f, S)
  PROVE  \A s \in SUBSET S : g[s] \in Int
<1> DEFINE P == {s \in SUBSET S : g[s] \in Int}
<1>1. ASSUME NEW s \in SUBSET S, \A t \in SUBSET S : Cardinality(t) < Cardinality(s) => t \in P
      PROVE  s \in P
  <2>1. CASE s = {}
    <3>1. g[s] = 0
      BY <2>1 DEF Adds, Summing
    <3> QED
      BY <3>1
  <2>2. CASE s # {}
    <3>1. PICK x \in s : x = Picked(s)
      BY <2>2, PickOne
    <3>2. s \ {x} \in SUBSET S /\ Cardinality(s \ {x}) < Cardinality(s)
      BY PickOne
    <3>3. g[s \ {x}] \in Int
      BY <1>1, <3>2
    <3>4. g[s] = f[x] + g[s \ {x}]
      BY <2>2, <3>1 DEF Adds, Summing
    <3> QED
      BY <3>3, <3>4 DEF Counted
  <2> QED
    BY <2>1, <2>2
<1> HIDE DEF P
<1>2. \A s \in SUBSET S : s \in P
  BY <1>1, SizeInduction
<1> QED
  BY <1>2 DEF P

\* Any element may be added last.
LEMMA SumsTakeAway ==
  ASSUME NEW f, NEW S, IsFiniteSet(S), Counted(f, S),
         NEW g, Summing(g, f, S)
  PROVE  \A s \in SUBSET S : \A x \in s : g[s] = f[x] + g[s \ {x}]
<1> DEFINE P == {s \in SUBSET S : \A x \in s : g[s] = f[x] + g[s \ {x}]}
<1>1. ASSUME NEW s \in SUBSET S, \A t \in SUBSET S : Cardinality(t) < Cardinality(s) => t \in P
      PROVE  s \in P
  <2> SUFFICES ASSUME NEW x \in s PROVE g[s] = f[x] + g[s \ {x}]
    OBVIOUS
  <2>1. PICK c \in s : c = Picked(s)
    BY PickOne
  <2>2. g[s] = f[c] + g[s \ {c}]
    BY <2>1 DEF Adds, Summing
  <2>3. CASE x # c
    <3>1. PICK t, u, m : t = s \ {c} /\ u = s \ {x} /\ m = s \ {c, x}
      OBVIOUS
    <3>2. /\ t \in SUBSET S /\ Cardinality(t) < Cardinality(s) /\ x \in t /\ m = t \ {x}
          /\ u \in SUBSET S /\ Cardinality(u) < Cardinality(s) /\ c \in u /\ m = u \ {c}
      BY <2>3, <3>1, PickOne
    <3>3. g[t] = f[x] + g[m] /\ g[u] = f[c] + g[m]
      BY <1>1, <3>2
    <3>4. g[m] \in Int /\ f[x] \in Int /\ f[c] \in Int
      BY <3>1, SumsAreNumbers DEF Counted
    <3> QED
      BY <2>2, <3>1, <3>3, <3>4
  <2> QED
    BY <2>2, <2>3
<1> HIDE DEF P
<1>2. \A s \in SUBSET S : s \in P
  BY <1>1, SizeInduction
<1> QED
  BY <1>2 DEF P

\* Two functions that sum the same figures.
LEMMA SumsAgree ==
  ASSUME NEW f, NEW more, NEW S, IsFiniteSet(S),
         Same(f, more, S),
         NEW g, Summing(g, f, S),
         NEW h, Summing(h, more, S)
  PROVE  \A s \in SUBSET S : g[s] = h[s]
<1> DEFINE P == {s \in SUBSET S : g[s] = h[s]}
<1>1. ASSUME NEW s \in SUBSET S, \A t \in SUBSET S : Cardinality(t) < Cardinality(s) => t \in P
      PROVE  s \in P
  <2>1. CASE s = {}
    BY <2>1 DEF Adds, Summing
  <2>2. CASE s # {}
    <3>1. PICK x \in s : x = Picked(s)
      BY <2>2, PickOne
    <3>2. s \ {x} \in SUBSET S /\ Cardinality(s \ {x}) < Cardinality(s)
      BY PickOne
    <3>3. g[s \ {x}] = h[s \ {x}]
      BY <1>1, <3>2
    <3>4. g[s] = f[x] + g[s \ {x}] /\ h[s] = more[x] + h[s \ {x}]
      BY <2>2, <3>1 DEF Adds, Summing
    <3>5. f[x] = more[x]
      BY DEF Same
    <3> QED
      BY <3>3, <3>4, <3>5
  <2> QED
    BY <2>1, <2>2
<1> HIDE DEF P
<1>2. \A s \in SUBSET S : s \in P
  BY <1>1, SizeInduction
<1> QED
  BY <1>2 DEF P

-----------------------------------------------------------------------------
\* Whoever sums f over the subsets of S finds what the library finds.
LEMMA SumIs ==
  ASSUME NEW f, NEW S, IsFiniteSet(S), NEW g, Summing(g, f, S)
  PROVE  SumFunctionOnSet(f, S) = g[S]
<1>1. PICK h : SumFunctionOnSet(f, S) = h[S] /\ Summing(h, f, S)
  BY SumUnfolds
<1>2. Same(f, f, S)
  BY DEF Same
<1>3. \A s \in SUBSET S : g[s] = h[s]
  BY <1>1, <1>2, SumsAgree
<1> QED
  BY <1>1, <1>3

\* The sum of numbers is a number, and nothing sums to zero.
LEMMA SumType ==
  ASSUME NEW f, NEW S, IsFiniteSet(S), Counted(f, S)
  PROVE  SumFunctionOnSet(f, S) \in Int
  BY SumUnfolds, SumsAreNumbers

LEMMA SumEmpty ==
  ASSUME NEW f
  PROVE  SumFunctionOnSet(f, {}) = 0
<1>1. IsFiniteSet({})
  BY FS_EmptySet
<1> QED
  BY <1>1, SumUnfolds DEF Summing, Adds

\* It depends on the figures of the set alone.
LEMMA SumSame ==
  ASSUME NEW f, NEW more, NEW S, IsFiniteSet(S), Same(f, more, S)
  PROVE  SumFunctionOnSet(f, S) = SumFunctionOnSet(more, S)
<1>1. PICK g : SumFunctionOnSet(f, S) = g[S] /\ Summing(g, f, S)
  BY SumUnfolds
<1>2. PICK h : SumFunctionOnSet(more, S) = h[S] /\ Summing(h, more, S)
  BY SumUnfolds
<1>3. \A s \in SUBSET S : g[s] = h[s]
  BY <1>1, <1>2, SumsAgree
<1> QED
  BY <1>1, <1>2, <1>3

\* An element more adds its figure.
LEMMA SumAdds ==
  ASSUME NEW f, NEW S, IsFiniteSet(S), NEW x, x \notin S, Counted(f, S \union {x})
  PROVE  SumFunctionOnSet(f, S \union {x}) = f[x] + SumFunctionOnSet(f, S)
<1>1. PICK T : T = S \union {x}
  OBVIOUS
<1>2. IsFiniteSet(T)
  BY <1>1, FS_AddElement
<1>3. PICK h : SumFunctionOnSet(f, T) = h[T] /\ Summing(h, f, T)
  BY <1>2, SumUnfolds
<1>4. Counted(f, T)
  BY <1>1
<1>5. x \in T /\ T \in SUBSET T /\ S \in SUBSET T /\ T \ {x} = S
  BY <1>1
<1>6. h[T] = f[x] + h[T \ {x}]
  BY <1>2, <1>3, <1>4, <1>5, SumsTakeAway
<1>7. Summing(h, f, S)
  BY <1>1, <1>3 DEF Summing
<1>8. SumFunctionOnSet(f, S) = h[S]
  BY <1>7, SumIs
<1> QED
  BY <1>1, <1>3, <1>5, <1>6, <1>8

\* More elements do not make it smaller, if no figure is negative.
LEMMA SumGrows ==
  ASSUME NEW f, NEW T, IsFiniteSet(T), NEW S \in SUBSET T, \A x \in T : f[x] \in Nat
  PROVE  SumFunctionOnSet(f, S) <= SumFunctionOnSet(f, T)
<1> DEFINE P == {s \in SUBSET T : S \subseteq s =>
                   SumFunctionOnSet(f, S) <= SumFunctionOnSet(f, s)}
<1>1. ASSUME NEW s \in SUBSET T, \A t \in SUBSET T : Cardinality(t) < Cardinality(s) => t \in P
      PROVE  s \in P
  <2> SUFFICES ASSUME S \subseteq s, S # s
               PROVE  SumFunctionOnSet(f, S) <= SumFunctionOnSet(f, s)
    <3>1. SumFunctionOnSet(f, S) \in Int
      BY FS_Subset, SumType DEF Counted
    <3> QED
      BY <3>1
  <2>1. PICK x \in s : x \notin S
    OBVIOUS
  <2>2. PICK t : t = s \ {x}
    OBVIOUS
  <2>3. /\ t \in SUBSET T /\ Cardinality(t) < Cardinality(s) /\ S \subseteq t
        /\ x \notin t /\ t \union {x} = s /\ IsFiniteSet(t) /\ IsFiniteSet(S)
    BY <2>1, <2>2, PickOne
  <2>4. SumFunctionOnSet(f, S) <= SumFunctionOnSet(f, t)
    BY <1>1, <2>3
  <2>5. SumFunctionOnSet(f, s) = f[x] + SumFunctionOnSet(f, t)
    BY <2>3, SumAdds DEF Counted
  <2>6. /\ SumFunctionOnSet(f, S) \in Int /\ SumFunctionOnSet(f, t) \in Int
        /\ f[x] \in Nat
    BY <2>3, SumType DEF Counted
  <2> QED
    BY <2>4, <2>5, <2>6
<1> HIDE DEF P
<1>2. \A s \in SUBSET T : s \in P
  BY <1>1, SizeInduction
<1> QED
  BY <1>2 DEF P

\* So it is not negative then.
LEMMA SumIsNatural ==
  ASSUME NEW f, NEW S, IsFiniteSet(S), \A x \in S : f[x] \in Nat
  PROVE  SumFunctionOnSet(f, S) \in Nat
<1>1. SumFunctionOnSet(f, S) \in Int
  BY SumType DEF Counted
<1>2. SumFunctionOnSet(f, {}) <= SumFunctionOnSet(f, S)
  BY SumGrows
<1> QED
  BY <1>1, <1>2, SumEmpty

\* And it is as large as the set, if every figure is at least one.
LEMMA SumCounts ==
  ASSUME NEW f, NEW S, IsFiniteSet(S), \A x \in S : f[x] \in Nat /\ f[x] >= 1
  PROVE  SumFunctionOnSet(f, S) >= Cardinality(S)
<1> DEFINE P == {s \in SUBSET S : SumFunctionOnSet(f, s) >= Cardinality(s)}
<1>1. ASSUME NEW s \in SUBSET S, \A t \in SUBSET S : Cardinality(t) < Cardinality(s) => t \in P
      PROVE  s \in P
  <2>1. CASE s = {}
    BY <2>1, SumEmpty, FS_EmptySet
  <2>2. CASE s # {}
    <3>1. PICK x, t : x \in s /\ t = s \ {x}
      BY <2>2
    <3>2. /\ t \in SUBSET S /\ IsFiniteSet(t) /\ Cardinality(t) \in Nat
          /\ Cardinality(t) = Cardinality(s) - 1 /\ Cardinality(s) \in Nat
          /\ x \notin t /\ t \union {x} = s
      BY <3>1, PickOne
    <3>3. SumFunctionOnSet(f, t) >= Cardinality(t)
      BY <1>1, <3>2
    <3>4. SumFunctionOnSet(f, s) = f[x] + SumFunctionOnSet(f, t)
      BY <3>1, <3>2, SumAdds DEF Counted
    <3>5. SumFunctionOnSet(f, t) \in Int /\ f[x] \in Nat /\ f[x] >= 1
      BY <3>1, <3>2, SumType DEF Counted
    <3> QED
      BY <3>2, <3>3, <3>4, <3>5
  <2> QED
    BY <2>1, <2>2
<1> HIDE DEF P
<1>2. \A s \in SUBSET S : s \in P
  BY <1>1, SizeInduction
<1> QED
  BY <1>2 DEF P

\* Taking an element away takes its figure away.
LEMMA SumRemoves ==
  ASSUME NEW f, NEW S, IsFiniteSet(S), NEW x \in S, Counted(f, S)
  PROVE  SumFunctionOnSet(f, S) = f[x] + SumFunctionOnSet(f, S \ {x})
<1>1. PICK t : t = S \ {x}
  OBVIOUS
<1>2. t \union {x} = S /\ x \notin t /\ IsFiniteSet(t)
  BY <1>1, FS_Subset
<1> QED
  BY <1>1, <1>2, SumAdds

\* Nothing adds up to nothing.
LEMMA SumZero ==
  ASSUME NEW f, NEW S, IsFiniteSet(S), \A x \in S : f[x] = 0
  PROVE  SumFunctionOnSet(f, S) = 0
<1> DEFINE P == {s \in SUBSET S : SumFunctionOnSet(f, s) = 0}
<1>1. ASSUME NEW s \in SUBSET S, \A t \in SUBSET S : Cardinality(t) < Cardinality(s) => t \in P
      PROVE  s \in P
  <2>1. CASE s = {}
    BY <2>1, SumEmpty
  <2>2. CASE s # {}
    <3>1. PICK x, t : x \in s /\ t = s \ {x}
      BY <2>2
    <3>2. t \in SUBSET S /\ Cardinality(t) < Cardinality(s) /\ IsFiniteSet(s)
      BY <3>1, PickOne
    <3>3. SumFunctionOnSet(f, s) = f[x] + SumFunctionOnSet(f, t)
      BY <3>1, <3>2, SumRemoves DEF Counted
    <3>4. SumFunctionOnSet(f, t) = 0
      BY <1>1, <3>2
    <3> QED
      BY <3>1, <3>3, <3>4
  <2> QED
    BY <2>1, <2>2
<1> HIDE DEF P
<1>2. \A s \in SUBSET S : s \in P
  BY <1>1, SizeInduction
<1> QED
  BY <1>2 DEF P

\* Smaller figures have a smaller sum.
LEMMA SumLess ==
  ASSUME NEW f, NEW g, NEW S, IsFiniteSet(S), Counted(f, S), Counted(g, S),
         \A x \in S : f[x] <= g[x]
  PROVE  SumFunctionOnSet(f, S) <= SumFunctionOnSet(g, S)
<1> DEFINE P == {s \in SUBSET S : SumFunctionOnSet(f, s) <= SumFunctionOnSet(g, s)}
<1>1. ASSUME NEW s \in SUBSET S, \A t \in SUBSET S : Cardinality(t) < Cardinality(s) => t \in P
      PROVE  s \in P
  <2>1. CASE s = {}
    BY <2>1, SumEmpty
  <2>2. CASE s # {}
    <3>1. PICK x, t : x \in s /\ t = s \ {x}
      BY <2>2
    <3>2. /\ t \in SUBSET S /\ Cardinality(t) < Cardinality(s)
          /\ IsFiniteSet(s) /\ IsFiniteSet(t)
      BY <3>1, PickOne
    <3>3. Counted(f, s) /\ Counted(g, s) /\ Counted(f, t) /\ Counted(g, t)
      BY <3>2 DEF Counted
    <3>4. /\ SumFunctionOnSet(f, s) = f[x] + SumFunctionOnSet(f, t)
          /\ SumFunctionOnSet(g, s) = g[x] + SumFunctionOnSet(g, t)
      BY <3>1, <3>2, <3>3, SumRemoves
    <3>5. SumFunctionOnSet(f, t) \in Int /\ SumFunctionOnSet(g, t) \in Int
      BY <3>2, <3>3, SumType
    <3>6. SumFunctionOnSet(f, t) <= SumFunctionOnSet(g, t)
      BY <1>1, <3>2
    <3>7. f[x] \in Int /\ g[x] \in Int /\ f[x] <= g[x]
      BY <3>1 DEF Counted
    <3> QED
      BY <3>4, <3>5, <3>6, <3>7
  <2> QED
    BY <2>1, <2>2
<1> HIDE DEF P
<1>2. \A s \in SUBSET S : s \in P
  BY <1>1, SizeInduction
<1> QED
  BY <1>2 DEF P

\* A figure that changes changes the sum by as much.
LEMMA SumChanges ==
  ASSUME NEW f, NEW g, NEW S, IsFiniteSet(S), Counted(f, S), Counted(g, S), NEW x \in S,
         \A y \in S \ {x} : g[y] = f[y]
  PROVE  SumFunctionOnSet(g, S) = SumFunctionOnSet(f, S) + g[x] - f[x]
<1>1. IsFiniteSet(S \ {x})
  BY FS_Subset
<1>2. SumFunctionOnSet(g, S \ {x}) = SumFunctionOnSet(f, S \ {x})
  BY <1>1, SumSame DEF Same
<1>3. SumFunctionOnSet(f, S \ {x}) \in Int /\ f[x] \in Int /\ g[x] \in Int
  BY <1>1, SumType DEF Counted
<1>4. SumFunctionOnSet(f, S) = f[x] + SumFunctionOnSet(f, S \ {x})
  BY SumRemoves
<1>5. SumFunctionOnSet(g, S) = g[x] + SumFunctionOnSet(g, S \ {x})
  BY SumRemoves
<1> QED
  BY <1>2, <1>3, <1>4, <1>5

\* What f adds up to on each part of S.
ByPart(f, S, part, T) == [t \in T |-> SumFunctionOnSet(f, {x \in S : part[x] = t})]

\* The parts add up to the whole.
LEMMA SumParts ==
  ASSUME NEW f, NEW S, IsFiniteSet(S), Counted(f, S), NEW T, IsFiniteSet(T),
         NEW part, \A x \in S : part[x] \in T
  PROVE  SumFunctionOnSet(ByPart(f, S, part, T), T) = SumFunctionOnSet(f, S)
<1> DEFINE P == {s \in SUBSET S :
                   SumFunctionOnSet(ByPart(f, s, part, T), T) = SumFunctionOnSet(f, s)}
<1>1. ASSUME NEW s \in SUBSET S, \A t \in SUBSET S : Cardinality(t) < Cardinality(s) => t \in P
      PROVE  s \in P
  <2>1. CASE s = {}
    <3>1. \A t \in T : {x \in s : part[x] = t} = {}
      BY <2>1
    <3>2. \A t \in T : ByPart(f, s, part, T)[t] = 0
      BY <3>1, SumEmpty DEF ByPart
    <3>3. SumFunctionOnSet(ByPart(f, s, part, T), T) = 0
      BY <3>2, SumZero
    <3> QED
      BY <2>1, <3>3, SumEmpty
  <2>2. CASE s # {}
    <3>1. PICK x, t : x \in s /\ t = s \ {x}
      BY <2>2
    <3>2. t \in SUBSET S /\ Cardinality(t) < Cardinality(s) /\ IsFiniteSet(s) /\ IsFiniteSet(t)
      BY <3>1, PickOne
    <3>3. SumFunctionOnSet(f, s) = f[x] + SumFunctionOnSet(f, t)
      BY <3>1, <3>2, SumRemoves DEF Counted
    <3>4. SumFunctionOnSet(ByPart(f, t, part, T), T) = SumFunctionOnSet(f, t)
      BY <1>1, <3>2
    <3>5. PICK h, g : h = ByPart(f, s, part, T) /\ g = ByPart(f, t, part, T)
      OBVIOUS
    <3>6. Counted(h, T) /\ Counted(g, T)
      <4>1. ASSUME NEW u \in SUBSET S, NEW y \in T
            PROVE  ByPart(f, u, part, T)[y] \in Int
        <5>1. PICK v \in SUBSET S : v = {z \in u : part[z] = y}
          OBVIOUS
        <5>2. IsFiniteSet(v) /\ Counted(f, v)
          BY FS_Subset DEF Counted
        <5> QED
          BY <5>1, <5>2, SumType DEF ByPart
      <4> QED
        BY <3>2, <3>5, <4>1 DEF Counted
    <3>7. PICK y \in T : y = part[x]
      BY <3>1
    <3>8. \A z \in T \ {y} : h[z] = g[z]
      <4>1. \A z \in T \ {y} : {w \in s : part[w] = z} = {w \in t : part[w] = z}
        BY <3>1, <3>7
      <4> QED
        BY <3>5, <4>1 DEF ByPart
    <3>9. h[y] = f[x] + g[y]
      <4>1. PICK v, u : v = {w \in s : part[w] = y} /\ u = {w \in t : part[w] = y}
        OBVIOUS
      <4>2. x \in v /\ v \ {x} = u /\ v \in SUBSET S
        BY <3>1, <3>7, <4>1
      <4>3. IsFiniteSet(v) /\ Counted(f, v)
        BY <4>2, FS_Subset DEF Counted
      <4>4. SumFunctionOnSet(f, v) = f[x] + SumFunctionOnSet(f, u)
        BY <4>2, <4>3, SumRemoves
      <4> QED
        BY <3>5, <4>1, <4>4 DEF ByPart
    <3>10. SumFunctionOnSet(h, T) = SumFunctionOnSet(g, T) + h[y] - g[y]
      BY <3>6, <3>8, SumChanges
    <3>11. SumFunctionOnSet(g, T) \in Int /\ f[x] \in Int /\ g[y] \in Int
      BY <3>1, <3>6, SumType DEF Counted
    <3> QED
      BY <3>3, <3>4, <3>5, <3>9, <3>10, <3>11
  <2> QED
    BY <2>1, <2>2
<1> HIDE DEF P
<1>2. \A s \in SUBSET S : s \in P
  BY <1>1, SizeInduction
<1> QED
  BY <1>2 DEF P

\* Figures that are n times as large add up to n times as much.
LEMMA SumTimes ==
  ASSUME NEW f, NEW g, NEW S, IsFiniteSet(S), Counted(f, S), NEW n \in Int,
         \A x \in S : g[x] = n * f[x]
  PROVE  SumFunctionOnSet(g, S) = n * SumFunctionOnSet(f, S)
<1> DEFINE P == {s \in SUBSET S : SumFunctionOnSet(g, s) = n * SumFunctionOnSet(f, s)}
<1>1. ASSUME NEW s \in SUBSET S, \A t \in SUBSET S : Cardinality(t) < Cardinality(s) => t \in P
      PROVE  s \in P
  <2>1. CASE s = {}
    BY <2>1, SumEmpty
  <2>2. CASE s # {}
    <3>1. PICK x, t : x \in s /\ t = s \ {x}
      BY <2>2
    <3>2. t \in SUBSET S /\ Cardinality(t) < Cardinality(s) /\ IsFiniteSet(s) /\ IsFiniteSet(t)
      BY <3>1, PickOne
    <3>3. PICK a \in Int : a = f[x]
      BY <3>1 DEF Counted
    <3>4. PICK b \in Int : b = SumFunctionOnSet(f, t)
      BY <3>2, SumType DEF Counted
    <3>5. SumFunctionOnSet(f, s) = a + b
      BY <3>1, <3>2, <3>3, <3>4, SumRemoves DEF Counted
    <3>6. g[x] = n * a /\ SumFunctionOnSet(g, t) = n * b
      BY <1>1, <3>1, <3>2, <3>3, <3>4
    <3>7. \A y \in S : g[y] \in Int
      BY DEF Counted
    <3>8. SumFunctionOnSet(g, s) = g[x] + SumFunctionOnSet(g, t)
      BY <3>1, <3>2, <3>7, SumRemoves DEF Counted
    <3>9. n * (a + b) = n * a + n * b
      OBVIOUS
    <3> QED
      BY <3>5, <3>6, <3>8, <3>9
  <2> QED
    BY <2>1, <2>2
<1> HIDE DEF P
<1>2. \A s \in SUBSET S : s \in P
  BY <1>1, SizeInduction
<1> QED
  BY <1>2 DEF P
=============================================================================
