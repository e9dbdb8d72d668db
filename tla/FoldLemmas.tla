------------------------------- MODULE FoldLemmas -------------------------------
(***************************************************************************)
(* Lemmas about the folds the models take from the community modules: the  *)
(* loop over a memory map, the sums over CPUs.  A fold takes an operator   *)
(* as its argument; the lemmas are about the recursive function behind it, *)
(* for any step that is itself a function, and induction is over a set in  *)
(* place of a predicate: every non-empty set of counterexamples has a      *)
(* least one.                                                              *)
(***************************************************************************)
EXTENDS Integers, FiniteSetsExt, SequencesExt, FiniteSetTheorems, TLAPS

(* A non-empty set of natural numbers has a least element.                   *)
LEMMA MinIn ==
  ASSUME NEW S \in SUBSET Nat, S # {}
  PROVE  Min(S) \in S /\ \A y \in S : Min(S) <= y
<1> DEFINE Less == {ss \in Nat \X Nat : ss[1] < ss[2]}
<1>1. IsWellFoundedOn(Less, Nat)
  BY NatLessThanWellFounded DEF OpToRel
<1>2. PICK x \in S : \A y \in S : <<y, x>> \notin Less
  <2> HIDE DEF Less
  <2> QED BY <1>1, WFMin
<1>3. ASSUME NEW y \in S PROVE x <= y
  <2>1. ~(y < x)
    BY <1>2
  <2> QED BY <2>1
<1>4. \A y \in S : x <= y
  BY <1>3
<1> HIDE DEF Less
<1> QED BY <1>4 DEF Min

(* A finite, non-empty set of natural numbers has a greatest element.        *)
LEMMA MaxIn ==
  ASSUME NEW S \in SUBSET Nat, IsFiniteSet(S), S # {}
  PROVE  Max(S) \in S /\ \A y \in S : y <= Max(S)
<1> DEFINE Odd == {U \in SUBSET S : U # {} /\ ~\E x \in U : \A y \in U : y <= x}
<1>1. Odd = {}
  <2> SUFFICES ASSUME Odd # {} PROVE FALSE
    OBVIOUS
  <2>1. IsWellFoundedOn(StrictSubsetOrdering(S), SUBSET S)
    BY FS_StrictSubsetOrderingWellFounded, FS_FiniteSubsetsOfFinite
  <2>2. PICK U \in Odd : \A V \in Odd : ~(<<V, U>> \in StrictSubsetOrdering(S))
    <3> HIDE DEF Odd
    <3>1. Odd \subseteq SUBSET S
      BY DEF Odd
    <3> QED BY <2>1, <3>1, WFMin
  <2>3. PICK x \in U : TRUE
    OBVIOUS
  <2>4. U \ {x} \notin Odd
    BY <2>2, <2>3 DEF StrictSubsetOrdering
  <2>5. CASE U \ {x} = {}
    <3>1. \A y \in U : y <= x
      BY <2>3, <2>5
    <3> QED BY <2>3, <3>1
  <2>6. CASE U \ {x} # {}
    <3>1. PICK m \in U \ {x} : \A y \in U \ {x} : y <= m
      BY <2>4, <2>6
    <3>2. \/ \A y \in U : y <= m
          \/ \A y \in U : y <= x
      BY <2>3, <3>1
    <3> QED BY <2>3, <3>1, <3>2
  <2> QED BY <2>5, <2>6
<1>2. PICK x \in S : \A y \in S : y <= x
  BY <1>1
<1>3. \A y \in S : x >= y
  BY <1>2
<1> QED BY <1>3 DEF Max

--------------------------------------------------------------------------------
(* Induction on the natural numbers. *)
LEMMA NatSet ==
  ASSUME NEW Good, 0 \in Good, \A n \in Nat : n \in Good => n + 1 \in Good
  PROVE  \A n \in Nat : n \in Good
<1> SUFFICES ASSUME Nat \ Good # {} PROVE FALSE
  OBVIOUS
<1> DEFINE m == Min(Nat \ Good)
<1>1. m \in Nat \ Good /\ \A y \in Nat \ Good : m <= y
  <2>1. Nat \ Good \in SUBSET Nat
    OBVIOUS
  <2> QED BY <2>1, MinIn
<1> HIDE DEF m
<1>2. m - 1 \in Nat /\ m - 1 \notin Nat \ Good
  BY <1>1
<1>3. (m - 1) + 1 \in Good
  BY <1>2
<1> QED BY <1>1, <1>3

(* The element of a set that a fold takes in its last step. *)
Picks(D, pick) == \A s \in SUBSET D : s # {} => pick[s] \in s

Grows(D, pick, Good) ==
  \A s \in SUBSET D : s # {} /\ s \ {pick[s]} \in Good => s \in Good

(* Induction on the subsets of a finite set, one element at a time: the one  *)
(* that pick takes.                                                          *)
LEMMA SubsetSet ==
  ASSUME NEW D, IsFiniteSet(D), NEW pick, Picks(D, pick),
         NEW Good, {} \in Good, Grows(D, pick, Good)
  PROVE  \A s \in SUBSET D : s \in Good
<1> USE DEF Picks, Grows
<1>1. IsWellFoundedOn(StrictSubsetOrdering(D), SUBSET D)
  <2>1. SUBSET D = FiniteSubsetsOf(D)
    BY ONLY IsFiniteSet(D), FS_FiniteSubsetsOfFinite
  <2> QED BY ONLY <2>1, FS_StrictSubsetOrderingWellFounded
<1> DEFINE Odd == (SUBSET D) \ Good
<1> SUFFICES ASSUME Odd # {} PROVE FALSE
  OBVIOUS
<1>2. PICK U \in Odd : \A V \in Odd : ~(<<V, U>> \in StrictSubsetOrdering(D))
  <2>1. Odd \subseteq SUBSET D
    OBVIOUS
  <2> HIDE DEF Odd
  <2> QED BY <1>1, <2>1, WFMin
<1>3. U \in SUBSET D /\ U # {} /\ U \ {pick[U]} \in SUBSET D /\ pick[U] \in U
  OBVIOUS
<1>4. U \ {pick[U]} \notin Odd
  BY <1>2, <1>3 DEF StrictSubsetOrdering
<1> QED BY <1>3, <1>4

Unrolls(D, pick, base, step, g) ==
  g = [s \in SUBSET D |-> IF s = {} THEN base ELSE step[pick[s]][g[s \ {pick[s]}]]]

(* The recursive function of a fold exists, if every step leads from a value *)
(* of a set to one of the same set.                                          *)
LEMMA FoldExists ==
  ASSUME NEW D, IsFiniteSet(D), NEW pick, Picks(D, pick),
         NEW Value, NEW base \in Value, NEW step \in [D -> [Value -> Value]]
  PROVE  \E g \in [SUBSET D -> Value] : Unrolls(D, pick, base, step, g)
<1> DEFINE Small(n) == {s \in SUBSET D : Cardinality(s) <= n}
           Next(g, s) == IF s = {} THEN base ELSE step[pick[s]][g[s \ {pick[s]}]]
           Good == {n \in Nat : \E g \in [Small(n) -> Value] : \A s \in Small(n) : g[s] = Next(g, s)}
<1>1. \A s \in SUBSET D : IsFiniteSet(s) /\ Cardinality(s) \in Nat
  BY FS_Subset, FS_CardinalityType
<1>2. \A s \in SUBSET D : s # {} =>
        /\ pick[s] \in D /\ s \ {pick[s]} \in SUBSET D
        /\ Cardinality(s \ {pick[s]}) = Cardinality(s) - 1
  BY <1>1, FS_RemoveElement DEF Picks
<1>3. \A n \in Nat : \A s \in Small(n + 1) : s # {} => s \ {pick[s]} \in Small(n)
  BY <1>1, <1>2
<1>4. 0 \in Good
  <2> DEFINE g == [s \in Small(0) |-> base]
  <2>1. \A s \in Small(0) : s = {}
    BY <1>1, FS_EmptySet
  <2>2. g \in [Small(0) -> Value] /\ \A s \in Small(0) : g[s] = Next(g, s)
    BY <2>1
  <2> QED BY <2>2
<1>5. ASSUME NEW n \in Nat, n \in Good PROVE n + 1 \in Good
  <2>1. PICK g \in [Small(n) -> Value] : \A s \in Small(n) : g[s] = Next(g, s)
    BY <1>5
  <2> DEFINE h == [s \in Small(n + 1) |-> IF s \in Small(n) THEN g[s] ELSE Next(g, s)]
  <2>2. \A s \in Small(n + 1) : h[s] = Next(g, s)
    BY <2>1
  <2>3. \A s \in Small(n + 1) : Next(g, s) \in Value
    BY <1>2, <1>3
  <2>4. \A s \in Small(n + 1) : s # {} => h[s \ {pick[s]}] = g[s \ {pick[s]}]
    <3>1. Small(n) \subseteq Small(n + 1)
      BY <1>1
    <3> QED BY <1>3, <3>1
  <2>5. \A s \in Small(n + 1) : h[s] = Next(h, s)
    BY <2>2, <2>4
  <2>6. h \in [Small(n + 1) -> Value]
    BY <2>2, <2>3
  <2>7. \E f \in [Small(n + 1) -> Value] : \A s \in Small(n + 1) : f[s] = Next(f, s)
    <3> HIDE DEF h, Small
    <3> WITNESS h \in [Small(n + 1) -> Value]
    <3> QED BY <2>5
  <2>8. n + 1 \in Nat
    OBVIOUS
  <2> HIDE DEF Small, h, Next
  <2> QED BY <2>7, <2>8, Zenon
<1>6. \A n \in Nat : n \in Good
  <2> HIDE DEF Good
  <2> QED BY <1>4, <1>5, NatSet
<1>7. Cardinality(D) \in Nat /\ Small(Cardinality(D)) = SUBSET D
  BY <1>1, FS_Subset
<1>8. PICK g \in [Small(Cardinality(D)) -> Value] :
        \A s \in Small(Cardinality(D)) : g[s] = Next(g, s)
  BY <1>6, <1>7
<1>9. g \in [SUBSET D -> Value] /\ \A s \in SUBSET D : g[s] = Next(g, s)
  BY <1>7, <1>8
<1>10. g = [s \in SUBSET D |-> Next(g, s)]
  BY <1>9
<1>11. Unrolls(D, pick, base, step, g)
  BY <1>10 DEF Unrolls
<1> QED BY <1>9, <1>11

Follows(D, pick, Value, step, iter) ==
  \A s \in SUBSET D :
    s # {} /\ iter[s \ {pick[s]}] \in Value => iter[s] = step[pick[s]][iter[s \ {pick[s]}]]

(* What every step keeps, the fold has. *)
LEMMA FoldIn ==
  ASSUME NEW D, IsFiniteSet(D), NEW pick, Picks(D, pick),
         NEW Value, NEW base \in Value, NEW step \in [D -> [Value -> Value]],
         NEW iter, iter[{}] = base, Follows(D, pick, Value, step, iter)
  PROVE  \A s \in SUBSET D : iter[s] \in Value
<1> DEFINE Good == {s \in SUBSET D : iter[s] \in Value}
<1>1. {} \in Good
  OBVIOUS
<1>2. ASSUME NEW s \in SUBSET D, s # {}, s \ {pick[s]} \in Good PROVE s \in Good
  <2>1. pick[s] \in D
    BY <1>2 DEF Picks
  <2>2. iter[s \ {pick[s]}] \in Value
    BY <1>2
  <2>3. iter[s] = step[pick[s]][iter[s \ {pick[s]}]]
    BY <1>2, <2>2 DEF Follows
  <2>4. step[pick[s]] \in [Value -> Value]
    BY <2>1
  <2> QED BY <2>2, <2>3, <2>4
<1>3. Grows(D, pick, Good)
  BY <1>2 DEF Grows
<1>4. \A s \in SUBSET D : s \in Good
  <2> HIDE DEF Good
  <2> QED BY <1>1, <1>3, SubsetSet
<1> QED BY <1>4

--------------------------------------------------------------------------------
(* Sums.  The order in which a set is added up is the same whatever is added *)
(* up, so two sums over one set are compared term by term.                   *)
SumOver(f, S) == MapThenSumSet(LAMBDA x : f[x], S)

Chosen(D) == [s \in SUBSET D |-> CHOOSE x \in s : TRUE]

Adds(D, f, h) ==
  /\ h[{}] = 0
  /\ \A s \in SUBSET D : s # {} => h[s] = f[Chosen(D)[s]] + h[s \ {Chosen(D)[s]}]

LEMMA ChosenPicks == \A D : Picks(D, Chosen(D))
  BY DEF Picks, Chosen

SumsTo(D, f, h) ==
  h = [s \in SUBSET D |-> IF s = {} THEN 0
                          ELSE f[CHOOSE x \in s : TRUE] + h[s \ {CHOOSE x \in s : TRUE}]]

(* What adds up the numbers of a function exists. *)
LEMMA AddsExists ==
  ASSUME NEW D, IsFiniteSet(D), NEW f, \A i \in D : f[i] \in Int
  PROVE  \E h : SumsTo(D, f, h)
<1> DEFINE step == [i \in D |-> [v \in Int |-> f[i] + v]]
           pick == Chosen(D)
<1>1. step \in [D -> [Int -> Int]]
  OBVIOUS
<1>2. PICK h \in [SUBSET D -> Int] : Unrolls(D, pick, 0, step, h)
  <2> HIDE DEF step, pick
  <2>1. 0 \in Int /\ Picks(D, pick)
    BY ChosenPicks DEF pick
  <2> QED BY <1>1, <2>1, FoldExists
<1>3. \A s \in SUBSET D : s # {} =>
        /\ pick[s] = (CHOOSE x \in s : TRUE) /\ pick[s] \in D
        /\ h[s] = f[pick[s]] + h[s \ {pick[s]}]
  <2> SUFFICES ASSUME NEW s \in SUBSET D, s # {}
               PROVE  /\ pick[s] = (CHOOSE x \in s : TRUE) /\ pick[s] \in D
                      /\ h[s] = f[pick[s]] + h[s \ {pick[s]}]
    OBVIOUS
  <2>1. pick[s] = (CHOOSE x \in s : TRUE)
    BY DEF Chosen
  <2>2. pick[s] \in D
    BY ChosenPicks DEF Picks
  <2>3. h[s] = step[pick[s]][h[s \ {pick[s]}]]
    BY <1>2 DEF Unrolls
  <2>4. h[s \ {pick[s]}] \in Int
    OBVIOUS
  <2> QED BY <2>1, <2>2, <2>3, <2>4
<1>4. h[{}] = 0
  BY <1>2 DEF Unrolls
<1>5. SumsTo(D, f, h)
  <2> DEFINE rhs == [s \in SUBSET D |-> IF s = {} THEN 0
                             ELSE f[CHOOSE x \in s : TRUE] + h[s \ {CHOOSE x \in s : TRUE}]]
  <2>1. \A s \in SUBSET D : h[s] = rhs[s]
    BY <1>3, <1>4
  <2> QED BY <2>1 DEF SumsTo
<1> QED BY <1>5

LEMMA SumUnrolled ==
  ASSUME NEW D, IsFiniteSet(D), NEW f, \A i \in D : f[i] \in Int
  PROVE  \E h : Adds(D, f, h) /\ SumOver(f, D) = h[D]
<1> DEFINE Unrolled(g) == [s \in SUBSET D |-> IF s = {} THEN 0
                             ELSE f[CHOOSE x \in s : TRUE] + g[s \ {CHOOSE x \in s : TRUE}]]
           iter == CHOOSE g : g = Unrolled(g)
<1>1. SumOver(f, D) = iter[D]
  BY Zenon DEF SumOver, MapThenSumSet, MapThenFoldSet
<1>2. PICK g : SumsTo(D, f, g)
  BY AddsExists
<1>3. iter = Unrolled(iter)
  <2>1. g = Unrolled(g)
    BY <1>2 DEF SumsTo
  <2> HIDE DEF Unrolled
  <2> QED BY <2>1, Zenon
<1>4. Adds(D, f, iter)
  <2> HIDE DEF iter
  <2> QED BY <1>3 DEF Adds, Chosen
<1> QED BY <1>1, <1>4

(* SumSet adds up the elements themselves. *)
LEMMA SumSetUnrolled ==
  ASSUME NEW D, IsFiniteSet(D), D \subseteq Int, NEW f, \A i \in D : f[i] = i
  PROVE  \E h : Adds(D, f, h) /\ SumSet(D) = h[D]
<1> DEFINE Unrolled(g) == [s \in SUBSET D |-> IF s = {} THEN 0
                             ELSE (CHOOSE x \in s : TRUE) + g[s \ {CHOOSE x \in s : TRUE}]]
           iter == CHOOSE g : g = Unrolled(g)
<1>1. SumSet(D) = iter[D]
  BY Zenon DEF SumSet, FoldSet, MapThenFoldSet
<1>2. PICK g : SumsTo(D, f, g)
  <2>1. \A i \in D : f[i] \in Int
    OBVIOUS
  <2> QED BY <2>1, AddsExists
<1>3. \A s \in SUBSET D : s # {} => f[CHOOSE x \in s : TRUE] = (CHOOSE x \in s : TRUE)
  OBVIOUS
<1>4. g = Unrolled(g)
  BY <1>2, <1>3 DEF SumsTo
<1>5. iter = Unrolled(iter)
  <2> HIDE DEF Unrolled
  <2> QED BY <1>4, Zenon
<1>6. Adds(D, f, iter)
  <2> HIDE DEF iter
  <2> PICK total : total = iter
    OBVIOUS
  <2> DEFINE x(s) == CHOOSE y \in s : TRUE
  <2>1. \A s \in SUBSET D : total[s] = IF s = {} THEN 0 ELSE x(s) + total[s \ {x(s)}]
    BY <1>5
  <2>2. total[{}] = 0
    BY <2>1
  <2>3. \A s \in SUBSET D : s # {} => total[s] = f[x(s)] + total[s \ {x(s)}]
    BY <1>3, <2>1
  <2>4. \A s \in SUBSET D : Chosen(D)[s] = x(s)
    BY DEF Chosen
  <2> HIDE DEF x
  <2>5. Adds(D, f, total)
    BY ONLY <2>2, <2>3, <2>4 DEF Adds
  <2> QED BY <2>5
<1> QED BY <1>1, <1>6

(* Two sums over one set: of equal terms, and of terms equal but one. *)
LEMMA AddsChange ==
  ASSUME NEW D, IsFiniteSet(D), NEW f, NEW g, NEW k, NEW d \in Int,
         \A i \in D : f[i] \in Int /\ g[i] = IF i = k THEN f[i] + d ELSE f[i],
         NEW hf, Adds(D, f, hf), NEW hg, Adds(D, g, hg)
  PROVE  hf[D] \in Int /\ hg[D] = IF k \in D THEN hf[D] + d ELSE hf[D]
<1> DEFINE pick == Chosen(D)
           Good == {s \in SUBSET D : /\ hf[s] \in Int
                                     /\ hg[s] = IF k \in s THEN hf[s] + d ELSE hf[s]}
<1>1. {} \in Good
  BY DEF Adds
<1>2. ASSUME NEW s \in SUBSET D, s # {}, s \ {pick[s]} \in Good PROVE s \in Good
  <2> DEFINE x == pick[s]
             t == s \ {x}
  <2>1. x \in s /\ x \in D
    BY <1>2, ChosenPicks DEF Picks
  <2>2. hf[s] = f[x] + hf[t] /\ hg[s] = g[x] + hg[t]
    BY <1>2 DEF Adds
  <2>3. hf[t] \in Int /\ hg[t] = IF k \in t THEN hf[t] + d ELSE hf[t]
    BY <1>2
  <2>4. f[x] \in Int /\ g[x] = IF x = k THEN f[x] + d ELSE f[x]
    BY <2>1
  <2>5. k \in s <=> k = x \/ k \in t
    BY <2>1
  <2>6. k = x => k \notin t
    OBVIOUS
  <2> HIDE DEF x, t, pick
  <2>7. hf[s] \in Int /\ hg[s] = IF k \in s THEN hf[s] + d ELSE hf[s]
    BY <2>2, <2>3, <2>4, <2>5, <2>6
  <2> QED BY <2>7
<1>3. Grows(D, pick, Good)
  BY <1>2 DEF Grows
<1>4. Picks(D, pick)
  BY ChosenPicks
<1>5. D \in Good
  <2> HIDE DEF Good, pick
  <2> QED BY <1>1, <1>3, <1>4, SubsetSet
<1> QED BY <1>5

LEMMA SumInt ==
  ASSUME NEW D, IsFiniteSet(D), NEW f, \A i \in D : f[i] \in Int
  PROVE  SumOver(f, D) \in Int
<1>1. PICK h : Adds(D, f, h) /\ SumOver(f, D) = h[D]
  BY SumUnrolled
<1>2. \A i \in D : f[i] \in Int /\ f[i] = IF i = 0 THEN f[i] + 0 ELSE f[i]
  OBVIOUS
<1>3. h[D] \in Int
  BY <1>1, <1>2, AddsChange
<1> QED BY <1>1, <1>3

(* One term more by d makes the sum more by d. *)
LEMMA SumChange ==
  ASSUME NEW D, IsFiniteSet(D), NEW f, NEW g, NEW k, NEW d \in Int,
         \A i \in D : f[i] \in Int /\ g[i] = IF i = k THEN f[i] + d ELSE f[i]
  PROVE  SumOver(g, D) = IF k \in D THEN SumOver(f, D) + d ELSE SumOver(f, D)
<1>1. \A i \in D : g[i] \in Int
  OBVIOUS
<1>2. PICK hf : Adds(D, f, hf) /\ SumOver(f, D) = hf[D]
  BY SumUnrolled
<1>3. PICK hg : Adds(D, g, hg) /\ SumOver(g, D) = hg[D]
  BY <1>1, SumUnrolled
<1>4. hg[D] = IF k \in D THEN hf[D] + d ELSE hf[D]
  BY <1>2, <1>3, AddsChange
<1> QED BY <1>2, <1>3, <1>4

LEMMA SumSame ==
  ASSUME NEW D, IsFiniteSet(D), NEW f, NEW g, \A i \in D : f[i] \in Int /\ g[i] = f[i]
  PROVE  SumOver(g, D) = SumOver(f, D)
<1>1. \A i \in D : f[i] \in Int /\ g[i] = IF i = 0 THEN f[i] + 0 ELSE f[i]
  OBVIOUS
<1>2. SumOver(g, D) = IF 0 \in D THEN SumOver(f, D) + 0 ELSE SumOver(f, D)
  BY <1>1, SumChange
<1>3. SumOver(f, D) \in Int
  BY SumInt
<1> QED BY <1>2, <1>3

LEMMA SumZero ==
  ASSUME NEW D, IsFiniteSet(D), NEW f, \A i \in D : f[i] = 0
  PROVE  SumOver(f, D) = 0
<1> DEFINE pick == Chosen(D)
<1>1. PICK h : Adds(D, f, h) /\ SumOver(f, D) = h[D]
  <2>1. \A i \in D : f[i] \in Int
    OBVIOUS
  <2> QED BY <2>1, SumUnrolled
<1> DEFINE Good == {s \in SUBSET D : h[s] = 0}
<1>2. {} \in Good
  BY <1>1 DEF Adds
<1>3. Grows(D, pick, Good)
  <2> SUFFICES ASSUME NEW s \in SUBSET D, s # {}, s \ {pick[s]} \in Good PROVE h[s] = 0
    BY DEF Grows
  <2>1. pick[s] \in D
    BY ChosenPicks DEF Picks
  <2>2. h[s] = f[pick[s]] + h[s \ {pick[s]}]
    BY <1>1 DEF Adds
  <2> QED BY <2>1, <2>2
<1>4. Picks(D, pick)
  BY ChosenPicks
<1>5. D \in Good
  <2> HIDE DEF Good, pick
  <2> QED BY <1>2, <1>3, <1>4, SubsetSet
<1> QED BY <1>1, <1>5

LEMMA SumMonotone ==
  ASSUME NEW D, IsFiniteSet(D), NEW f, NEW g,
         \A i \in D : f[i] \in Int /\ g[i] \in Int /\ f[i] <= g[i]
  PROVE  SumOver(f, D) <= SumOver(g, D)
<1> DEFINE pick == Chosen(D)
<1>1. PICK hf : Adds(D, f, hf) /\ SumOver(f, D) = hf[D]
  BY SumUnrolled
<1>2. PICK hg : Adds(D, g, hg) /\ SumOver(g, D) = hg[D]
  BY SumUnrolled
<1> DEFINE Good == {s \in SUBSET D : hf[s] \in Int /\ hg[s] \in Int /\ hf[s] <= hg[s]}
<1>3. {} \in Good
  BY <1>1, <1>2 DEF Adds
<1>4. Grows(D, pick, Good)
  <2> SUFFICES ASSUME NEW s \in SUBSET D, s # {}, s \ {pick[s]} \in Good
               PROVE  hf[s] \in Int /\ hg[s] \in Int /\ hf[s] <= hg[s]
    BY DEF Grows
  <2>1. pick[s] \in D
    BY ChosenPicks DEF Picks
  <2>2. hf[s] = f[pick[s]] + hf[s \ {pick[s]}] /\ hg[s] = g[pick[s]] + hg[s \ {pick[s]}]
    BY <1>1, <1>2 DEF Adds
  <2>3. /\ f[pick[s]] \in Int /\ g[pick[s]] \in Int /\ f[pick[s]] <= g[pick[s]]
        /\ hf[s \ {pick[s]}] \in Int /\ hg[s \ {pick[s]}] \in Int
        /\ hf[s \ {pick[s]}] <= hg[s \ {pick[s]}]
    BY <2>1
  <2> HIDE DEF pick
  <2> QED BY <2>2, <2>3
<1>5. Picks(D, pick)
  BY ChosenPicks
<1>6. D \in Good
  <2> HIDE DEF Good, pick
  <2> QED BY <1>3, <1>4, <1>5, SubsetSet
<1> QED BY <1>1, <1>2, <1>6

LEMMA SumSetOver ==
  ASSUME NEW D, IsFiniteSet(D), D \subseteq Int, NEW f, \A i \in D : f[i] = i
  PROVE  SumSet(D) = SumOver(f, D)
<1>1. PICK hf : Adds(D, f, hf) /\ SumSet(D) = hf[D]
  BY SumSetUnrolled
<1>2. \A i \in D : f[i] \in Int
  OBVIOUS
<1>3. PICK hg : Adds(D, f, hg) /\ SumOver(f, D) = hg[D]
  BY <1>2, SumUnrolled
<1>4. \A i \in D : f[i] \in Int /\ f[i] = IF i = 0 THEN f[i] + 0 ELSE f[i]
  BY <1>2
<1>5. hf[D] \in Int /\ hg[D] = IF 0 \in D THEN hf[D] + 0 ELSE hf[D]
  <2>1. Adds(D, f, hf) /\ Adds(D, f, hg) /\ 0 \in Int
    BY <1>1, <1>3
  <2> QED BY ONLY IsFiniteSet(D), <1>4, <2>1, AddsChange
<1> QED BY <1>1, <1>3, <1>5

(* A sum of differences, over the numbers behind m up to n. *)
LEMMA Telescope ==
  ASSUME NEW m \in Int, NEW n \in Int, m <= n, NEW total, NEW term,
         \A i \in m .. n : total[i] \in Int,
         \A i \in m + 1 .. n : term[i] = total[i] - total[i - 1]
  PROVE  SumOver(term, m + 1 .. n) = total[n] - total[m]
<1> DEFINE D == m + 1 .. n
           cut == [k \in Nat |-> [i \in D |-> IF i <= m + k THEN term[i] ELSE 0]]
           Good == {k \in Nat : m + k <= n => SumOver(cut[k], D) = total[m + k] - total[m]}
<1>1. IsFiniteSet(D)
  BY FS_Interval
<1>2. \A i \in D : i - 1 \in m .. n /\ i \in m .. n /\ term[i] \in Int
  OBVIOUS
<1>3. 0 \in Good
  <2>1. \A i \in D : cut[0][i] = 0
    OBVIOUS
  <2>2. SumOver(cut[0], D) = 0
    <3> HIDE DEF D, cut
    <3> QED BY <1>1, <2>1, SumZero
  <2>3. total[m] \in Int /\ m + 0 = m
    OBVIOUS
  <2> HIDE DEF D, cut
  <2> QED BY <2>2, <2>3
<1>4. ASSUME NEW k \in Nat, k \in Good PROVE k + 1 \in Good
  <2> SUFFICES ASSUME m + (k + 1) <= n
               PROVE  SumOver(cut[k + 1], D) = total[m + (k + 1)] - total[m]
    OBVIOUS
  <2> DEFINE x == m + (k + 1)
             d == term[x]
  <2>1. x \in D /\ x - 1 = m + k /\ d \in Int /\ d = total[x] - total[m + k]
    BY <1>2
  <2>2. SumOver(cut[k], D) = total[m + k] - total[m]
    BY <1>4
  <2>3. \A i \in D : cut[k][i] \in Int /\ cut[k + 1][i] = IF i = x THEN cut[k][i] + d ELSE cut[k][i]
    <3> SUFFICES ASSUME NEW i \in D
                 PROVE  cut[k][i] \in Int /\ cut[k + 1][i] = IF i = x THEN cut[k][i] + d ELSE cut[k][i]
      OBVIOUS
    <3>1. cut[k][i] = (IF i <= m + k THEN term[i] ELSE 0)
          /\ cut[k + 1][i] = (IF i <= x THEN term[i] ELSE 0)
      OBVIOUS
    <3>2. i \in Int /\ x \in Int /\ m + k = x - 1 /\ term[i] \in Int
      BY <1>2, <2>1
    <3> HIDE DEF cut, D, x
    <3> QED BY <3>1, <3>2
  <2>4. SumOver(cut[k + 1], D) = IF x \in D THEN SumOver(cut[k], D) + d ELSE SumOver(cut[k], D)
    <3> DEFINE f == cut[k]
               g == cut[k + 1]
    <3>1. /\ IsFiniteSet(D) /\ d \in Int
          /\ \A i \in D : f[i] \in Int /\ g[i] = IF i = x THEN f[i] + d ELSE f[i]
      BY <1>1, <2>1, <2>3
    <3> HIDE DEF cut, D, x, d, f, g
    <3>2. SumOver(g, D) = IF x \in D THEN SumOver(f, D) + d ELSE SumOver(f, D)
      BY ONLY <3>1, SumChange
    <3> QED BY <3>2 DEF f, g
  <2>5. total[m] \in Int /\ total[m + k] \in Int /\ total[x] \in Int
    BY <2>1
  <2> HIDE DEF cut, D, x, d
  <2>6. SumOver(cut[k + 1], D) = total[x] - total[m]
    BY <2>1, <2>2, <2>4, <2>5
  <2> QED BY <2>6 DEF x
<1>5. \A k \in Nat : k \in Good
  <2> HIDE DEF Good
  <2> QED BY <1>3, <1>4, NatSet
<1>6. n - m \in Nat /\ m + (n - m) = n
  OBVIOUS
<1>7. SumOver(cut[n - m], D) = total[n] - total[m]
  <2>1. n - m \in Good
    BY <1>5, <1>6
  <2> HIDE DEF cut, D
  <2> QED BY <1>6, <2>1
<1>8. \A i \in D : cut[n - m][i] \in Int /\ term[i] = cut[n - m][i]
  BY <1>2, <1>6
<1>9. SumOver(term, D) = SumOver(cut[n - m], D)
  <2> HIDE DEF cut, D
  <2> QED BY <1>1, <1>8, SumSame
<1> QED BY <1>7, <1>9

================================================================================
