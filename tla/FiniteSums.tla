------------------------------ MODULE FiniteSums ------------------------------
(***************************************************************************)
(* Least elements, and sums over finite sets: what MapThenSumSet and       *)
(* SumFunction of the community modules yield when an element is added or  *)
(* taken away.  The proofs argue about a least counterexample: a set of    *)
(* which no proper subset is one, or a number.                             *)
(***************************************************************************)
EXTENDS Integers, FiniteSets, FiniteSetsExt, Functions, FiniteSetTheorems,
        WellFoundedInduction, TLAPS

\* The values f has at the elements of S, added up.
SumOver(f, S) == MapThenSumSet(LAMBDA k : f[k], S)

\* A set of subsets of a finite set has one with no proper subset in it.
LEMMA LeastSubset ==
    ASSUME NEW S, IsFiniteSet(S), NEW T \in SUBSET SUBSET S, T # {}
    PROVE  \E s \in T : \A t \in T : t \subseteq s => t = s
<1>1. IsWellFoundedOn(StrictSubsetOrdering(S), SUBSET S)
  BY FS_StrictSubsetOrderingWellFounded, FS_FiniteSubsetsOfFinite
<1>2. PICK s \in T : \A t \in T : ~(<<t, s>> \in StrictSubsetOrdering(S))
  BY <1>1, WFMin
<1> QED BY <1>2 DEF StrictSubsetOrdering

\* A set of naturals has a least one.
LEMMA LeastNumber ==
    ASSUME NEW T \in SUBSET Nat, T # {}
    PROVE  \E n \in T : \A m \in T : n <= m
<1>1. PICK top \in T : TRUE
  OBVIOUS
<1> DEFINE Whole == 0 .. top
           Segments == {0 .. m : m \in {k \in T : k <= top}}
<1>2. IsFiniteSet(Whole)
  BY <1>1, FS_Interval
<1>3. PICK s \in Segments : \A t \in Segments : t \subseteq s => t = s
  <2>1. \A m \in T : m <= top => 0 .. m \subseteq Whole
    BY <1>1
  <2>2. Segments \subseteq SUBSET Whole
    BY <2>1
  <2>3. Whole \in Segments
    BY <1>1
  <2> HIDE DEF Segments, Whole
  <2> QED BY <1>2, <2>2, <2>3, LeastSubset
<1>4. PICK n \in T : n <= top /\ s = 0 .. n
  BY <1>3
<1>5. ASSUME NEW m \in T, m < n PROVE FALSE
  <2>1. 0 .. m \in Segments /\ 0 .. m \subseteq s
    BY <1>1, <1>4, <1>5
  <2>2. n \in s /\ n \notin 0 .. m
    BY <1>4, <1>5
  <2> QED BY <1>3, <2>1, <2>2
<1> QED BY <1>4, <1>5

\* The element the sum of a set begins with, and what the partial sums over
\* the subsets of S are.
First(s) == CHOOSE x \in s : TRUE
PartialSums(f, sums, S) ==
    sums = [s \in SUBSET S |-> IF s = {} THEN 0 ELSE f[First(s)] + sums[s \ {First(s)}]]

LEMMA FirstIn == \A s : s # {} => First(s) \in s
BY DEF First

\* The partial sums over the subsets of two sets agree where both are defined.
LEMMA SumsAgree ==
    ASSUME NEW S, IsFiniteSet(S), NEW f,
           NEW t1 \in SUBSET S, NEW t2 \in SUBSET S,
           NEW i1, NEW i2, PartialSums(f, i1, t1), PartialSums(f, i2, t2),
           NEW s \in SUBSET S, s \subseteq t1, s \subseteq t2
    PROVE  i1[s] = i2[s]
<1> DEFINE Bad == {r \in SUBSET S : r \subseteq s /\ i1[r] # i2[r]}
<1>1. SUFFICES ASSUME Bad # {} PROVE FALSE
  OBVIOUS
<1>2. PICK r \in Bad : \A q \in Bad : q \subseteq r => q = r
  <2> HIDE DEF Bad
  <2>1. Bad \in SUBSET SUBSET S
    BY DEF Bad
  <2> QED BY <1>1, <2>1, LeastSubset
<1>3. r \in SUBSET t1 /\ r \in SUBSET t2
  OBVIOUS
<1>4. /\ i1[r] = IF r = {} THEN 0 ELSE f[First(r)] + i1[r \ {First(r)}]
      /\ i2[r] = IF r = {} THEN 0 ELSE f[First(r)] + i2[r \ {First(r)}]
  BY <1>3 DEF PartialSums
<1>5. CASE r = {}
  BY <1>4, <1>5
<1>6. CASE r # {}
  <2>1. r \ {First(r)} \notin Bad
    BY <1>2, <1>6, FirstIn
  <2>2. i1[r \ {First(r)}] = i2[r \ {First(r)}]
    BY <2>1
  <2> QED BY <1>4, <1>6, <2>2
<1> QED BY <1>5, <1>6

LEMMA SumsExist ==
    ASSUME NEW S, IsFiniteSet(S), NEW f
    PROVE  \E sums : PartialSums(f, sums, S)
<1> DEFINE Bad == {t \in SUBSET S : ~ \E sums : PartialSums(f, sums, t)}
           Some(t) == CHOOSE sums : PartialSums(f, sums, t)
<1>1. SUFFICES ASSUME Bad # {} PROVE FALSE
  OBVIOUS
<1>2. PICK t \in Bad : \A q \in Bad : q \subseteq t => q = t
  <2> HIDE DEF Bad
  <2>1. Bad \in SUBSET SUBSET S
    BY DEF Bad
  <2> QED BY <1>1, <2>1, LeastSubset
<1>3. ASSUME NEW s \in SUBSET t, s # t PROVE PartialSums(f, Some(s), s)
  <2>1. \E sums : PartialSums(f, sums, s)
    BY <1>2, <1>3
  <2> QED BY <2>1
<1> DEFINE Rest(s) == s \ {First(s)}
           all == [s \in SUBSET t |->
                     IF s = {} THEN 0 ELSE f[First(s)] + Some(Rest(s))[Rest(s)]]
<1>4. \A s \in SUBSET t :
         s # {} => Rest(s) \in SUBSET t /\ Rest(s) # t /\ Rest(s) \subseteq s
  BY FirstIn
<1> HIDE DEF Some, Rest
<1>5. ASSUME NEW s \in SUBSET t, s # {}
      PROVE  all[Rest(s)] = Some(Rest(s))[Rest(s)]
  <2> DEFINE r == Rest(s)
  <2>1. r \in SUBSET t /\ r # t /\ PartialSums(f, Some(r), r)
    BY <1>3, <1>4, <1>5
  <2>2. Some(r)[r] = IF r = {} THEN 0 ELSE f[First(r)] + Some(r)[Rest(r)]
    BY <2>1 DEF PartialSums, Rest
  <2>3. CASE r = {}
    <3>1. all[{}] = 0
      OBVIOUS
    <3> HIDE DEF all, r
    <3>2. all[r] = 0 /\ Some(r)[r] = 0
      BY <2>2, <2>3, <3>1
    <3> QED BY <3>2 DEF r
  <2>4. CASE r # {}
    <3> HIDE DEF r
    <3>1. /\ Rest(r) \in SUBSET t /\ Rest(r) # t /\ Rest(r) \subseteq r
          /\ PartialSums(f, Some(Rest(r)), Rest(r))
      BY <1>3, <1>4, <2>1, <2>4
    <3>2. r \in SUBSET S /\ Rest(r) \in SUBSET S /\ Rest(r) \subseteq Rest(r)
      BY <2>1, <3>1
    <3>3. Some(r)[Rest(r)] = Some(Rest(r))[Rest(r)]
      <4> HIDE DEF all
      <4> QED BY <2>1, <3>1, <3>2, SumsAgree
    <3> QED BY <2>1, <2>2, <2>4, <3>3 DEF r
  <2> QED BY <2>3, <2>4
<1>6. PartialSums(f, all, t)
  BY <1>5, <1>4 DEF PartialSums, Rest
<1> QED BY <1>6

\* The sum over a set is the value of any partial sums that reach it.
LEMMA SumOverIs ==
    ASSUME NEW S, IsFiniteSet(S), NEW f, NEW sums, PartialSums(f, sums, S),
           NEW t \in SUBSET S
    PROVE  SumOver(f, t) = sums[t]
<1>1. SumOver(f, t) = (CHOOSE own : PartialSums(f, own, t))[t]
  BY DEF SumOver, MapThenSumSet, MapThenFoldSet, PartialSums, First
<1>2. IsFiniteSet(t)
  BY FS_Subset
<1>3. PartialSums(f, CHOOSE own : PartialSums(f, own, t), t)
  BY <1>2, SumsExist
<1> QED BY <1>1, <1>3, SumsAgree

LEMMA SumFirst ==
    ASSUME NEW S, IsFiniteSet(S), NEW f
    PROVE  SumOver(f, S) = IF S = {} THEN 0
                           ELSE f[First(S)] + SumOver(f, S \ {First(S)})
<1>1. PICK sums : PartialSums(f, sums, S)
  BY SumsExist
<1>2. sums[S] = IF S = {} THEN 0 ELSE f[First(S)] + sums[S \ {First(S)}]
  BY <1>1 DEF PartialSums
<1>3. SumOver(f, S) = sums[S] /\ SumOver(f, S \ {First(S)}) = sums[S \ {First(S)}]
  BY <1>1, SumOverIs
<1> QED BY <1>2, <1>3

\* A sum of naturals is one.
LEMMA SumType ==
    ASSUME NEW S, IsFiniteSet(S), NEW f, \A s \in S : f[s] \in Nat
    PROVE  SumOver(f, S) \in Nat
<1> DEFINE Bad == {t \in SUBSET S : SumOver(f, t) \notin Nat}
<1>1. SUFFICES ASSUME Bad # {} PROVE FALSE
  OBVIOUS
<1>2. PICK t \in Bad : \A q \in Bad : q \subseteq t => q = t
  <2> HIDE DEF Bad
  <2>1. Bad \in SUBSET SUBSET S
    BY DEF Bad
  <2> QED BY <1>1, <2>1, LeastSubset
<1>3. IsFiniteSet(t)
  BY FS_Subset
<1>4. t # {} => f[First(t)] \in Nat /\ SumOver(f, t \ {First(t)}) \in Nat
  <2>1. t # {} => First(t) \in t
    BY FirstIn
  <2>2. t # {} => t \ {First(t)} \notin Bad
    BY <1>2, <2>1
  <2> QED BY <2>1, <2>2
<1>5. SumOver(f, t) \in Nat
  <2>1. SumOver(f, t) = IF t = {} THEN 0 ELSE f[First(t)] + SumOver(f, t \ {First(t)})
    BY <1>3, SumFirst
  <2>2. ASSUME t # {}, NEW a \in Nat, NEW b \in Nat,
               a = f[First(t)], b = SumOver(f, t \ {First(t)})
        PROVE  SumOver(f, t) \in Nat
    BY <2>1, <2>2
  <2>3. t = {} => SumOver(f, t) \in Nat
    BY <2>1
  <2> QED BY <1>4, <2>2, <2>3
<1> QED BY <1>5

\* Any element of a set may be taken out of its sum.
LEMMA SumTakeOut ==
    ASSUME NEW S, IsFiniteSet(S), NEW f, \A s \in S : f[s] \in Nat, NEW x \in S
    PROVE  SumOver(f, S) = f[x] + SumOver(f, S \ {x})
<1> DEFINE Bad == {t \in SUBSET S : \E y \in t : SumOver(f, t) # f[y] + SumOver(f, t \ {y})}
<1>1. SUFFICES ASSUME Bad # {} PROVE FALSE
  <2>1. S \notin Bad => SumOver(f, S) = f[x] + SumOver(f, S \ {x})
    OBVIOUS
  <2> QED BY <2>1
<1>2. PICK t \in Bad : \A q \in Bad : q \subseteq t => q = t
  <2> HIDE DEF Bad
  <2>1. Bad \in SUBSET SUBSET S
    BY DEF Bad
  <2> QED BY <1>1, <2>1, LeastSubset
<1>3. PICK y \in t : SumOver(f, t) # f[y] + SumOver(f, t \ {y})
  OBVIOUS
<1> DEFINE p == First(t)
<1>4. p \in t
  BY <1>3, FirstIn
<1>5. SumOver(f, t) = f[p] + SumOver(f, t \ {p})
  <2>1. IsFiniteSet(t)
    BY FS_Subset
  <2> QED BY <1>3, <2>1, SumFirst
<1> HIDE DEF p
<1>6. y # p
  BY <1>3, <1>5
<1>7. t \ {p} \notin Bad /\ t \ {y} \notin Bad
  BY <1>2, <1>3, <1>4
<1>8. /\ SumOver(f, t \ {p}) = f[y] + SumOver(f, (t \ {p}) \ {y})
      /\ SumOver(f, t \ {y}) = f[p] + SumOver(f, (t \ {y}) \ {p})
  BY <1>3, <1>4, <1>6, <1>7
<1>9. (t \ {p}) \ {y} = (t \ {y}) \ {p} /\ (t \ {p}) \ {y} \in SUBSET S
  OBVIOUS
<1>10. SumOver(f, (t \ {p}) \ {y}) \in Nat /\ f[y] \in Nat /\ f[p] \in Nat
  <2>1. IsFiniteSet((t \ {p}) \ {y})
    BY <1>9, FS_Subset
  <2> QED BY <1>3, <1>4, <1>9, <2>1, SumType
<1>11. SumOver(f, t) = f[y] + SumOver(f, t \ {y})
  <2> DEFINE m == SumOver(f, (t \ {p}) \ {y})
  <2>1. SumOver(f, t) = f[p] + (f[y] + m) /\ SumOver(f, t \ {y}) = f[p] + m
    BY <1>5, <1>8, <1>9
  <2> HIDE DEF m
  <2>2. m \in Nat
    BY <1>10 DEF m
  <2> QED BY <1>10, <2>1, <2>2
<1> QED BY <1>3, <1>11

\* The sum over no element, and over one more.
LEMMA SumEmpty == \A f : SumOver(f, {}) = 0
BY FS_EmptySet, SumFirst

LEMMA SumAdd ==
    ASSUME NEW S, IsFiniteSet(S), NEW f, NEW x, x \notin S,
           \A s \in S \cup {x} : f[s] \in Nat
    PROVE  SumOver(f, S \cup {x}) = f[x] + SumOver(f, S)
<1>1. IsFiniteSet(S \cup {x})
  BY FS_AddElement
<1>2. (S \cup {x}) \ {x} = S
  OBVIOUS
<1> QED BY <1>1, <1>2, SumTakeOut

\* Functions that agree on a set have one sum over it.
LEMMA SumSame ==
    ASSUME NEW S, IsFiniteSet(S), NEW f, NEW g, \A s \in S : f[s] = g[s]
    PROVE  SumOver(f, S) = SumOver(g, S)
<1> DEFINE Bad == {t \in SUBSET S : SumOver(f, t) # SumOver(g, t)}
<1>1. SUFFICES ASSUME Bad # {} PROVE FALSE
  OBVIOUS
<1>2. PICK t \in Bad : \A q \in Bad : q \subseteq t => q = t
  <2> HIDE DEF Bad
  <2>1. Bad \in SUBSET SUBSET S
    BY DEF Bad
  <2> QED BY <1>1, <2>1, LeastSubset
<1>3. IsFiniteSet(t)
  BY FS_Subset
<1>4. t # {} => /\ f[First(t)] = g[First(t)]
                /\ SumOver(f, t \ {First(t)}) = SumOver(g, t \ {First(t)})
  <2>1. t # {} => First(t) \in t
    BY FirstIn
  <2>2. t # {} => t \ {First(t)} \notin Bad
    BY <1>2, <2>1
  <2> QED BY <2>1, <2>2
<1>5. SumOver(f, t) = SumOver(g, t)
  BY <1>3, <1>4, SumFirst
<1> QED BY <1>5

\* SumFunction is the sum over a function's domain.
LEMMA SumFunctionIs ==
    ASSUME NEW f
    PROVE  SumFunction(f) = SumOver(f, DOMAIN f)
BY DEF SumFunction, SumFunctionOnSet, FoldFunction, FoldFunctionOnSet, SumOver, MapThenSumSet, MapThenFoldSet
===============================================================================
