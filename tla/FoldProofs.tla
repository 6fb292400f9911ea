----------------------------- MODULE FoldProofs -----------------------------
(* What finite sets of data owe to induction: extreme elements, folds over sets
   and over sequences, and sums. A set of subsets takes the place of the predicate
   of an induction, so that the lemmas have no operator as a parameter. A fold is
   reached through a function on subsets that follows its equation.             *)
EXTENDS Integers, FiniteSetsExt, FiniteSetTheorems, WellFoundedInduction, TLAPS

\* Some member of a non-empty set of subsets of a finite set contains no other.
LEMMA SmallestSubset ==
  ASSUME NEW S, IsFiniteSet(S), NEW T \in SUBSET (SUBSET S), T # {}
  PROVE  \E s \in T : \A t \in T : t \subseteq s => t = s
  <1>1. IsWellFoundedOn(StrictSubsetOrdering(S), SUBSET S)
    BY FS_StrictSubsetOrderingWellFounded, FS_FiniteSubsetsOfFinite
  <1>2. PICK s \in T : \A t \in T : <<t, s>> \notin StrictSubsetOrdering(S)
    BY <1>1, WFMin, Zenon
  <1> QED BY <1>2 DEF StrictSubsetOrdering

\* Induction over the subsets of a finite set: G is the set of those that have the
\* property.
LEMMA SubsetInduction ==
  ASSUME NEW S, IsFiniteSet(S), NEW G,
         \A s \in SUBSET S :
            (\A t \in SUBSET s : t # s => t \in G) => s \in G
  PROVE  \A s \in SUBSET S : s \in G
  <1> DEFINE T == {s \in SUBSET S : s \notin G}
  <1>1. SUFFICES ASSUME T # {} PROVE FALSE
    OBVIOUS
  <1>2. T \in SUBSET (SUBSET S)
    OBVIOUS
  <1>3. \E s \in T : \A t \in T : t \subseteq s => t = s
    <2> HIDE DEF T
    <2> QED BY <1>1, <1>2, SmallestSubset
  <1>4. PICK s \in T : \A t \in T : t \subseteq s => t = s
    BY <1>3
  <1>5. \A t \in SUBSET s : t # s => t \in G
    BY <1>4
  <1> QED BY <1>4, <1>5

\* Of finitely many elements one has the largest value.
LEMMA LargestExists ==
  ASSUME NEW D, IsFiniteSet(D), NEW f \in [D -> Int],
         NEW S \in SUBSET D, S # {}
  PROVE  \E x \in S : \A y \in S : f[y] <= f[x]
  <1> DEFINE Has == {s \in SUBSET D :
                      s # {} => \E x \in s : \A y \in s : f[y] <= f[x]}
  <1>1. ASSUME NEW s \in SUBSET D, \A t \in SUBSET s : t # s => t \in Has
        PROVE  s \in Has
    <2> SUFFICES ASSUME NEW z \in s
                 PROVE  \E x \in s : \A y \in s : f[y] <= f[x]
      OBVIOUS
    <2>1. CASE s = {z}
      BY <2>1
    <2>2. CASE s # {z}
      <3>1. s \ {z} \in Has /\ s \ {z} # {}
        BY <1>1, <2>2
      <3>2. PICK x \in s \ {z} : \A y \in s \ {z} : f[y] <= f[x]
        BY <3>1
      <3>3. CASE f[z] <= f[x]
        BY <3>2, <3>3
      <3>4. CASE ~ f[z] <= f[x]
        <4>1. \A y \in s : f[y] \in Int
          OBVIOUS
        <4>2. \A y \in s : f[y] <= f[z]
          BY <3>2, <3>4, <4>1
        <4> QED BY <4>2
      <3> QED BY <3>3, <3>4
    <2> QED BY <2>1, <2>2
  <1>2. S \in Has
    <2> HIDE DEF Has
    <2> QED BY <1>1, SubsetInduction
  <1> QED BY <1>2

-----------------------------------------------------------------------------
\* g follows the defining equation of a fold at s ...
FoldsAt(c, base, step, g, s) ==
  g[s] = IF s = {} THEN base ELSE step[c[s]][g[s \ {c[s]}]]

\* ... and at every subset of s.
Follows(c, base, step, g, s) == \A t \in SUBSET s : FoldsAt(c, base, step, g, t)

\* Two functions that follow the same fold agree.
LEMMA FoldsAgree ==
  ASSUME NEW S, IsFiniteSet(S), NEW base, NEW step,
         NEW c, \A s \in SUBSET S : s # {} => c[s] \in s,
         NEW s \in SUBSET S, NEW g, NEW h,
         Follows(c, base, step, g, s), Follows(c, base, step, h, s)
  PROVE  g[s] = h[s]
  <1> DEFINE Agree == {t \in SUBSET S : t \subseteq s => g[t] = h[t]}
  <1>1. ASSUME NEW t \in SUBSET S, \A u \in SUBSET t : u # t => u \in Agree
        PROVE  t \in Agree
    <2> SUFFICES ASSUME t \subseteq s PROVE g[t] = h[t]
      OBVIOUS
    <2>1. FoldsAt(c, base, step, g, t) /\ FoldsAt(c, base, step, h, t)
      BY DEF Follows
    <2>2. CASE t = {}
      BY <2>1, <2>2 DEF FoldsAt
    <2>3. CASE t # {}
      <3>1. t \ {c[t]} \in SUBSET t /\ t \ {c[t]} # t
        BY <2>3
      <3>2. g[t \ {c[t]}] = h[t \ {c[t]}]
        BY <1>1, <3>1
      <3> QED BY <2>1, <2>3, <3>2 DEF FoldsAt
    <2> QED BY <2>2, <2>3
  <1> HIDE DEF Agree
  <1>2. \A t \in SUBSET S : t \in Agree
    BY <1>1, SubsetInduction
  <1> QED BY <1>2 DEF Agree

\* There is a function that follows a fold, from any step with values in V.
LEMMA FoldExists ==
  ASSUME NEW S, IsFiniteSet(S), NEW V, NEW base \in V,
         NEW step \in [S -> [V -> V]],
         NEW c, \A s \in SUBSET S : s # {} => c[s] \in s
  PROVE  \E g \in [SUBSET S -> V] : Follows(c, base, step, g, S)
  <1> DEFINE H == [SUBSET S -> V]
             Found == {s \in SUBSET S : \E g \in H : Follows(c, base, step, g, s)}
             W(s) == CHOOSE g \in H : Follows(c, base, step, g, s)
  <1>1. ASSUME NEW s \in Found
        PROVE  /\ s \in SUBSET S /\ W(s) \in [SUBSET S -> V]
               /\ Follows(c, base, step, W(s), s)
    <2>1. \E g \in H : Follows(c, base, step, g, s)
      OBVIOUS
    <2> HIDE DEF H
    <2>2. W(s) \in H /\ Follows(c, base, step, W(s), s)
      BY <2>1
    <2> QED BY <2>2 DEF H
  <1> HIDE DEF W
  \* what is found for a set is what is found for each of its subsets
  <1>2. ASSUME NEW s \in Found, NEW t \in SUBSET s, t \in Found
        PROVE  W(s)[t] = W(t)[t]
    <2>1. Follows(c, base, step, W(s), t) /\ Follows(c, base, step, W(t), t)
      BY <1>1, <1>2 DEF Follows
    <2> QED BY <2>1, FoldsAgree
  <1>3. ASSUME NEW s \in SUBSET S, \A t \in SUBSET s : t # s => t \in Found
        PROVE  s \in Found
    <2> DEFINE t0 == s \ {c[s]}
               new == IF s = {} THEN base ELSE step[c[s]][W(t0)[t0]]
               g == [t \in SUBSET S |-> IF t = s THEN new
                                        ELSE IF t \in Found THEN W(t)[t] ELSE base]
    <2> HIDE DEF Found
    <2>1. s # {} => /\ c[s] \in S /\ t0 \in SUBSET S /\ t0 \in SUBSET s
                    /\ t0 # s /\ t0 \in Found
      BY <1>3
    <2>2. new \in V
      <3>1. s # {} => W(t0)[t0] \in V
        BY <2>1, <1>1
      <3> QED BY <2>1, <3>1
    <2>3. g \in [SUBSET S -> V]
      <3>1. \A t \in Found : W(t)[t] \in V
        BY <1>1
      <3> HIDE DEF new
      <3> QED BY <2>2, <3>1
    <2>4. FoldsAt(c, base, step, g, s)
      BY <2>1 DEF FoldsAt
    <2>5. ASSUME NEW t \in SUBSET s, t # s PROVE FoldsAt(c, base, step, g, t)
      <3>1. t \in Found /\ g[t] = W(t)[t]
        BY <1>3, <2>5
      <3>2. FoldsAt(c, base, step, W(t), t)
        BY <1>1, <3>1 DEF Follows
      <3>3. ASSUME t # {} PROVE W(t)[t \ {c[t]}] = g[t \ {c[t]}]
        <4>1. t \ {c[t]} \in SUBSET s /\ t \ {c[t]} # s /\ t \ {c[t]} \in SUBSET t
          BY <3>3, <2>5
        <4>2. t \ {c[t]} \in Found
          BY <1>3, <4>1
        <4>3. W(t)[t \ {c[t]}] = W(t \ {c[t]})[t \ {c[t]}]
          BY <1>2, <3>1, <4>1, <4>2
        <4> QED BY <4>1, <4>2, <4>3
      <3> HIDE DEF g
      <3> QED BY <3>1, <3>2, <3>3 DEF FoldsAt
    <2> HIDE DEF g
    <2> QED BY <2>3, <2>4, <2>5 DEF Found, Follows
  <1>4. S \in Found
    <2> HIDE DEF Found
    <2> QED BY <1>3, SubsetInduction
  <1> QED BY <1>1, <1>4

-----------------------------------------------------------------------------
(* Folds over sequences *)

\* The element FoldLeft applies last, and the one FoldRight does.
Latest(n) == [s \in SUBSET (1 .. n) |-> Max(s)]
Earliest(n) == [s \in SUBSET (1 .. n) |-> Min(s)]

\* The greatest index of a set of indices.
LEMMA LatestIs ==
  ASSUME NEW n \in Nat, NEW s \in SUBSET (1 .. n), s # {}
  PROVE  Max(s) \in s /\ \A i \in s : i <= Max(s)
  <1> DEFINE f == [i \in 1 .. n |-> i]
  <1>1. f \in [1 .. n -> Int] /\ IsFiniteSet(1 .. n)
    BY FS_Interval
  <1>2. PICK x \in s : \A y \in s : f[y] <= f[x]
    BY <1>1, LargestExists
  <1>3. \E top \in s : \A y \in s : top >= y
    BY <1>2
  <1> QED BY <1>3 DEF Max

\* The least index of a set of indices.
LEMMA EarliestIs ==
  ASSUME NEW n \in Nat, NEW s \in SUBSET (1 .. n), s # {}
  PROVE  Min(s) \in s /\ \A i \in s : Min(s) <= i
  <1> DEFINE f == [i \in 1 .. n |-> - i]
  <1>1. f \in [1 .. n -> Int] /\ IsFiniteSet(1 .. n)
    BY FS_Interval
  <1>2. PICK x \in s : \A y \in s : f[y] <= f[x]
    <2> HIDE DEF f
    <2> QED BY <1>1, LargestExists
  <1>3. \A y \in s : f[y] = - y /\ y \in Int
    OBVIOUS
  <1> HIDE DEF f
  <1>4. \A y \in s : x =< y
    BY <1>2, <1>3
  <1> QED BY <1>4 DEF Min

\* A function follows a fold from the left, and one a fold from the right.
LEMMA FoldsFromLeft ==
  ASSUME NEW n \in Nat, NEW V, NEW base \in V,
         NEW step \in [1 .. n -> [V -> V]]
  PROVE  \E g \in [SUBSET (1 .. n) -> V] :
            Follows(Latest(n), base, step, g, 1 .. n)
  <1> DEFINE D == 1 .. n
  <1>1. IsFiniteSet(D)
    BY FS_Interval
  <1>2. \A s \in SUBSET D : s # {} => Latest(n)[s] \in s
    BY LatestIs DEF Latest
  <1>3. \E g \in [SUBSET D -> V] : Follows(Latest(n), base, step, g, D)
    <2> HIDE DEF D
    <2>1. step \in [D -> [V -> V]]
      BY DEF D
    <2> QED BY <1>1, <1>2, <2>1, FoldExists
  <1> QED BY <1>3

\* The same for a fold from the right.
LEMMA FoldsFromRight ==
  ASSUME NEW n \in Nat, NEW V, NEW base \in V,
         NEW step \in [1 .. n -> [V -> V]]
  PROVE  \E g \in [SUBSET (1 .. n) -> V] :
            Follows(Earliest(n), base, step, g, 1 .. n)
  <1> DEFINE D == 1 .. n
  <1>1. IsFiniteSet(D)
    BY FS_Interval
  <1>2. \A s \in SUBSET D : s # {} => Earliest(n)[s] \in s
    BY EarliestIs DEF Earliest
  <1>3. \E g \in [SUBSET D -> V] : Follows(Earliest(n), base, step, g, D)
    <2> HIDE DEF D
    <2>1. step \in [D -> [V -> V]]
      BY DEF D
    <2> QED BY <1>1, <1>2, <2>1, FoldExists
  <1> QED BY <1>3

-----------------------------------------------------------------------------
(* Sums over finite sets *)

\* The element a fold over a set takes next, and the step of a sum of f.
Picked(D) == [s \in SUBSET D |-> CHOOSE x \in s : TRUE]
Adding(f, D) == [x \in D |-> [n \in Nat |-> f[x] + n]]

\* A sum over a finite set is the value of a fold.
LEMMA SumFollows ==
  ASSUME NEW D, IsFiniteSet(D), NEW f \in [D -> Nat], NEW S \in SUBSET D
  PROVE  \E g : /\ g[S] \in Nat
                /\ Follows(Picked(D), 0, Adding(f, D), g, S)
                /\ SumFunctionOnSet(f, S) = g[S]
  <1> DEFINE rec(g) == [s \in SUBSET S |->
                          IF s = {} THEN 0
                          ELSE f[CHOOSE x \in s : TRUE]
                               + g[s \ {CHOOSE x \in s : TRUE}]]
             sum == CHOOSE iter : iter = rec(iter)
  <1>0. IsFiniteSet(S)
    BY FS_Subset
  <1>1. \A s \in SUBSET S : s # {} => Picked(D)[s] \in s
    BY DEF Picked
  <1>2. Adding(f, S) \in [S -> [Nat -> Nat]]
    BY DEF Adding
  <1>3. PICK g \in [SUBSET S -> Nat] :
          Follows(Picked(D), 0, Adding(f, S), g, S)
    BY <1>0, <1>1, <1>2, FoldExists
  <1>4. g = rec(g)
    BY <1>3 DEF Follows, FoldsAt, Picked, Adding
  <1>5. sum = rec(sum)
    BY <1>4, Zenon
  <1>6. SumFunctionOnSet(f, S) = sum[S]
    BY DEF SumFunctionOnSet, FoldFunctionOnSet, MapThenFoldSet
  <1> HIDE DEF sum
  <1>7. Follows(Picked(D), 0, Adding(f, D), g, S)
    BY <1>3 DEF Follows, FoldsAt, Picked, Adding
  <1>8. ASSUME NEW s \in SUBSET S
        PROVE  sum[s] = IF s = {} THEN 0
                        ELSE f[CHOOSE x \in s : TRUE]
                             + sum[s \ {CHOOSE x \in s : TRUE}]
    BY <1>5
  <1>9. sum[S] = g[S]
    <2> DEFINE Same == {s \in SUBSET S : sum[s] = g[s]}
    <2>1. ASSUME NEW s \in SUBSET S, \A t \in SUBSET s : t # s => t \in Same
          PROVE  s \in Same
      <3>1. CASE s = {}
        BY <3>1, <1>4, <1>8
      <3>2. CASE s # {}
        <4> DEFINE t == s \ {CHOOSE x \in s : TRUE}
        <4>1. t \in SUBSET s /\ t # s
          BY <3>2
        <4>2. sum[t] = g[t]
          BY <2>1, <4>1
        <4> QED BY <3>2, <4>2, <1>4, <1>8
      <3> QED BY <3>1, <3>2
    <2> HIDE DEF Same
    <2>2. S \in Same
      BY <2>1, <1>0, SubsetInduction
    <2> QED BY <2>2 DEF Same
  <1> QED BY <1>3, <1>6, <1>7, <1>9

\* A sum is natural, nothing sums to 0, and some element may be taken out.
LEMMA SumPicks ==
  ASSUME NEW D, IsFiniteSet(D), NEW f \in [D -> Nat], NEW S \in SUBSET D
  PROVE  /\ SumFunctionOnSet(f, S) \in Nat
         /\ SumFunctionOnSet(f, {}) = 0
         /\ S # {} => \E x \in S : SumFunctionOnSet(f, S)
                                   = f[x] + SumFunctionOnSet(f, S \ {x})
  <1>1. PICK g : /\ g[S] \in Nat
                 /\ Follows(Picked(D), 0, Adding(f, D), g, S)
                 /\ SumFunctionOnSet(f, S) = g[S]
    BY SumFollows
  <1>2. PICK e : /\ Follows(Picked(D), 0, Adding(f, D), e, {})
                 /\ SumFunctionOnSet(f, {}) = e[{}]
    BY SumFollows
  <1>3. e[{}] = 0
    BY <1>2 DEF Follows, FoldsAt
  <1>4. ASSUME S # {}
        PROVE  \E x \in S : SumFunctionOnSet(f, S)
                             = f[x] + SumFunctionOnSet(f, S \ {x})
    <2> DEFINE x == CHOOSE x \in S : TRUE
               s == S \ {x}
    <2>1. x \in S /\ s \in SUBSET S /\ Picked(D)[S] = x
      BY <1>4 DEF Picked
    <2> HIDE DEF x
    <2>2. PICK h : /\ h[s] \in Nat
                   /\ Follows(Picked(D), 0, Adding(f, D), h, s)
                   /\ SumFunctionOnSet(f, s) = h[s]
      BY <2>1, SumFollows
    <2>3. Follows(Picked(D), 0, Adding(f, D), g, s)
      BY <1>1, <2>1 DEF Follows
    <2>4. \A t \in SUBSET D : t # {} => Picked(D)[t] \in t
      BY DEF Picked
    <2>5. g[s] = h[s]
      BY <2>1, <2>2, <2>3, <2>4, FoldsAgree
    <2>6. g[S] = Adding(f, D)[x][g[s]]
      BY <1>1, <1>4, <2>1 DEF Follows, FoldsAt
    <2>7. g[S] = f[x] + h[s]
      BY <2>1, <2>2, <2>5, <2>6 DEF Adding
    <2> QED BY <1>1, <2>1, <2>2, <2>7
  <1> QED BY <1>1, <1>2, <1>3, <1>4

\* The last part by itself: some element may be taken out first.
LEMMA SumPicksOne ==
  ASSUME NEW D, IsFiniteSet(D), NEW f \in [D -> Nat], NEW S \in SUBSET D,
         S # {}
  PROVE  \E x \in S : SumFunctionOnSet(f, S)
                       = f[x] + SumFunctionOnSet(f, S \ {x})
  <1> QED BY SumPicks

\* Any element may be taken out first.
LEMMA SumRemove ==
  ASSUME NEW D, IsFiniteSet(D), NEW f \in [D -> Nat],
         NEW S \in SUBSET D, NEW x \in S
  PROVE  SumFunctionOnSet(f, S) = f[x] + SumFunctionOnSet(f, S \ {x})
  <1> DEFINE Sum(s) == SumFunctionOnSet(f, s)
             Any == {s \in SUBSET D : \A y \in s : Sum(s) = f[y] + Sum(s \ {y})}
  <1>0. ASSUME NEW s \in SUBSET D
        PROVE  /\ Sum(s) \in Nat
               /\ s # {} => \E y \in s : Sum(s) = f[y] + Sum(s \ {y})
    <2>1. Sum(s) \in Nat
      BY SumPicks
    <2>2. s # {} => \E y \in s : Sum(s) = f[y] + Sum(s \ {y})
      BY SumPicksOne
    <2> QED BY <2>1, <2>2
  <1> HIDE DEF Sum
  <1>1. ASSUME NEW s \in SUBSET D, \A t \in SUBSET s : t # s => t \in Any
        PROVE  s \in Any
    <2> SUFFICES ASSUME NEW y \in s PROVE Sum(s) = f[y] + Sum(s \ {y})
      OBVIOUS
    <2>1. PICK z \in s : Sum(s) = f[z] + Sum(s \ {z})
      BY <1>0
    <2>2. CASE y = z
      BY <2>1, <2>2
    <2>3. CASE y # z
      <3> DEFINE u == s \ {y, z}
      <3>1. /\ s \ {z} \in SUBSET s /\ s \ {z} # s /\ y \in s \ {z}
            /\ s \ {y} \in SUBSET s /\ s \ {y} # s /\ z \in s \ {y}
            /\ (s \ {z}) \ {y} = u /\ (s \ {y}) \ {z} = u
        BY <2>3
      <3>2. Sum(s \ {z}) = f[y] + Sum(u)
        BY <3>1, <1>1
      <3>3. Sum(s \ {y}) = f[z] + Sum(u)
        BY <3>1, <1>1
      <3>4. Sum(u) \in Nat /\ f[y] \in Nat /\ f[z] \in Nat
        BY <1>0
      <3> QED BY <2>1, <3>2, <3>3, <3>4
    <2> QED BY <2>2, <2>3
  <1>2. S \in Any
    <2> HIDE DEF Any
    <2> QED BY <1>1, SubsetInduction
  <1> QED BY <1>2 DEF Sum

\* The two facts an induction over the subsets of D needs of a sum.
LEMMA SumSteps ==
  ASSUME NEW D, IsFiniteSet(D), NEW f \in [D -> Nat]
  PROVE  /\ SumFunctionOnSet(f, {}) = 0
         /\ \A S \in SUBSET D :
              /\ SumFunctionOnSet(f, S) \in Nat
              /\ \A x \in S : SumFunctionOnSet(f, S)
                               = f[x] + SumFunctionOnSet(f, S \ {x})
  <1>1. SumFunctionOnSet(f, {}) = 0
    BY SumPicks
  <1>2. ASSUME NEW S \in SUBSET D PROVE SumFunctionOnSet(f, S) \in Nat
    BY SumPicks
  <1>3. ASSUME NEW S \in SUBSET D, NEW x \in S
        PROVE  SumFunctionOnSet(f, S) = f[x] + SumFunctionOnSet(f, S \ {x})
    BY SumRemove
  <1> QED BY <1>1, <1>2, <1>3

\* A sum of naturals is natural.
LEMMA SumType ==
  ASSUME NEW D, IsFiniteSet(D), NEW f \in [D -> Nat]
  PROVE  SumFunction(f) \in Nat
  BY SumPicks DEF SumFunction

\* A function that is nowhere greater has no greater sum over any subset.
LEMMA SumMonotone ==
  ASSUME NEW D, IsFiniteSet(D), NEW f \in [D -> Nat], NEW g \in [D -> Nat],
         NEW S \in SUBSET D, \A x \in S : f[x] <= g[x]
  PROVE  SumFunctionOnSet(f, S) <= SumFunctionOnSet(g, S)
  <1> DEFINE Sf(s) == SumFunctionOnSet(f, s)
             Sg(s) == SumFunctionOnSet(g, s)
             Less == {s \in SUBSET D : s \subseteq S => Sf(s) <= Sg(s)}
  <1>0. ASSUME NEW s \in SUBSET D
        PROVE  /\ Sf(s) \in Nat /\ Sg(s) \in Nat
               /\ s = {} => Sf(s) = 0 /\ Sg(s) = 0
               /\ \A x \in s : /\ Sf(s) = f[x] + Sf(s \ {x})
                              /\ Sg(s) = g[x] + Sg(s \ {x})
    <2>1. /\ Sf({}) = 0
          /\ \A t \in SUBSET D : /\ Sf(t) \in Nat
                                 /\ \A x \in t : Sf(t) = f[x] + Sf(t \ {x})
      BY SumSteps
    <2>2. /\ Sg({}) = 0
          /\ \A t \in SUBSET D : /\ Sg(t) \in Nat
                                 /\ \A x \in t : Sg(t) = g[x] + Sg(t \ {x})
      BY SumSteps
    <2> HIDE DEF Sf, Sg
    <2> QED BY <2>1, <2>2
  <1> HIDE DEF Sf, Sg
  <1>1. ASSUME NEW s \in SUBSET D, \A t \in SUBSET s : t # s => t \in Less
        PROVE  s \in Less
    <2> SUFFICES ASSUME s \subseteq S PROVE Sf(s) <= Sg(s)
      OBVIOUS
    <2>1. CASE s = {}
      BY <1>0, <2>1
    <2>2. CASE s # {}
      <3>1. PICK x \in s : TRUE
        BY <2>2
      <3> DEFINE t == s \ {x}
      <3>2. Sf(t) <= Sg(t)
        BY <1>1
      <3>3. f[x] \in Nat /\ g[x] \in Nat /\ f[x] <= g[x]
        OBVIOUS
      <3>4. Sf(s) = f[x] + Sf(t) /\ Sg(s) = g[x] + Sg(t)
        BY <1>0
      <3>5. Sf(t) \in Nat /\ Sg(t) \in Nat
        BY <1>0
      <3> QED BY <3>2, <3>3, <3>4, <3>5
    <2> QED BY <2>1, <2>2
  <1>2. S \in Less
    <2> HIDE DEF Less
    <2> QED BY <1>1, SubsetInduction
  <1> QED BY <1>2 DEF Sf, Sg

\* Changing a function in one place changes its sum by as much.
LEMMA SumChange ==
  ASSUME NEW D, IsFiniteSet(D), NEW f \in [D -> Nat], NEW g \in [D -> Nat],
         NEW x \in D, \A y \in D : y # x => f[y] = g[y]
  PROVE  SumFunction(f) - f[x] = SumFunction(g) - g[x]
  <1> DEFINE S == D \ {x}
  <1>1. /\ SumFunctionOnSet(f, S) <= SumFunctionOnSet(g, S)
        /\ SumFunctionOnSet(g, S) <= SumFunctionOnSet(f, S)
    BY SumMonotone
  <1>2. /\ SumFunction(f) = f[x] + SumFunctionOnSet(f, S)
        /\ SumFunction(g) = g[x] + SumFunctionOnSet(g, S)
    BY SumRemove DEF SumFunction
  <1>3. SumFunctionOnSet(f, S) \in Nat /\ SumFunctionOnSet(g, S) \in Nat
    BY SumPicks
  <1> QED BY <1>1, <1>2, <1>3

\* A function that is nowhere greater has no greater sum.
LEMMA SumLess ==
  ASSUME NEW D, IsFiniteSet(D), NEW f \in [D -> Nat], NEW g \in [D -> Nat],
         \A x \in D : f[x] <= g[x]
  PROVE  SumFunction(f) <= SumFunction(g)
  BY SumMonotone DEF SumFunction

\* A sum is at least each of its terms.
LEMMA SumBound ==
  ASSUME NEW D, IsFiniteSet(D), NEW f \in [D -> Nat], NEW x \in D
  PROVE  SumFunction(f) \in Nat /\ SumFunction(f) >= f[x]
  <1>1. SumFunction(f) = f[x] + SumFunctionOnSet(f, D \ {x})
    BY SumRemove DEF SumFunction
  <1>2. SumFunctionOnSet(f, D \ {x}) \in Nat
    BY SumPicks
  <1> QED BY <1>1, <1>2

\* Zeros sum to 0.
LEMMA SumZero ==
  ASSUME NEW D, IsFiniteSet(D), NEW f \in [D -> Nat], \A x \in D : f[x] = 0
  PROVE  SumFunction(f) = 0
  <1> DEFINE Sum(s) == SumFunctionOnSet(f, s)
             Zero == {s \in SUBSET D : Sum(s) = 0}
  <1>0. /\ Sum({}) = 0
        /\ \A s \in SUBSET D : \A x \in s : Sum(s) = f[x] + Sum(s \ {x})
    BY SumSteps
  <1> HIDE DEF Sum
  <1>1. ASSUME NEW s \in SUBSET D, \A t \in SUBSET s : t # s => t \in Zero
        PROVE  s \in Zero
    <2>1. CASE s = {}
      BY <1>0, <2>1
    <2>2. CASE s # {}
      <3>1. PICK x \in s : TRUE
        BY <2>2
      <3>2. Sum(s \ {x}) = 0
        BY <1>1
      <3> QED BY <1>0, <3>2
    <2> QED BY <2>1, <2>2
  <1>2. D \in Zero
    <2> HIDE DEF Zero
    <2> QED BY <1>1, SubsetInduction
  <1> QED BY <1>2 DEF Sum, SumFunction
=============================================================================
