----------------------------- MODULE SumProofs -----------------------------
(***************************************************************************)
(* Sums over finite sets: of nothing, of one more, of a union, of a part,  *)
(* of a family of sets that do not meet.                                   *)
(*                                                                         *)
(* Induction is stated of sets (NatSteps, SetSteps): a set of numbers with *)
(* 0 that is closed under the successor has them all.  What the sum of the *)
(* community modules is, a recursive function over the subsets, is told    *)
(* once (SumIsPartial, PartialExists); the element it begins with is not   *)
(* known, so the next fact is that it does not matter (SumTakesOut).       *)
(***************************************************************************)
EXTENDS Sums, FiniteSetTheorems, TLAPS

\* Induction over the natural numbers, and over the subsets of a finite set.

LEMMA LessIsWellFounded == IsWellFoundedOn({pair \in Nat \X Nat : pair[1] < pair[2]}, Nat)
  BY NatLessThanWellFounded DEF OpToRel

LEMMA NatSteps ==
    ASSUME NEW S, 0 \in S, \A k \in Nat : k \in S => k + 1 \in S
    PROVE  Nat \subseteq S
  <1> DEFINE less == {pair \in Nat \X Nat : pair[1] < pair[2]}
             out  == Nat \ S
  <1> SUFFICES ASSUME out # {} PROVE FALSE
    OBVIOUS
  <1>1. IsWellFoundedOn(less, Nat) /\ out \subseteq Nat
    BY LessIsWellFounded
  <1> HIDE DEF less
  <1>2. PICK first \in out : \A k \in out : <<k, first>> \notin less
    BY <1>1, WFMin
  <1>3. first # 0 /\ first - 1 \in Nat /\ <<first - 1, first>> \in less
    BY DEF less
  <1> QED BY <1>2, <1>3

LEMMA SetSteps ==
    ASSUME NEW S, IsFiniteSet(S), NEW F, {} \in F,
           \A A \in SUBSET S, x \in S : A \in F /\ x \notin A => A \cup {x} \in F
    PROVE  S \in F
  <1> DEFINE K == {k \in Nat : \A A \in SUBSET S : Cardinality(A) = k => A \in F}
  <1>1. \A A \in SUBSET S : IsFiniteSet(A) /\ Cardinality(A) \in Nat
    BY FS_Subset, FS_CardinalityType
  <1>2. 0 \in K
    BY <1>1, FS_EmptySet
  <1>3. ASSUME NEW k \in Nat, k \in K PROVE k + 1 \in K
    <2> SUFFICES ASSUME NEW A \in SUBSET S, Cardinality(A) = k + 1 PROVE A \in F
      OBVIOUS
    <2>1. A # {}
      <3>1. Cardinality({}) = 0 /\ k + 1 # 0
        BY FS_EmptySet
      <3> QED BY <3>1
    <2>2. PICK x \in A : TRUE
      BY <2>1
    <2>3. Cardinality(A \ {x}) = k
      <3>1. Cardinality(A \ {x}) = Cardinality(A) - 1
        BY <1>1, FS_RemoveElement
      <3> QED BY <3>1
    <2>4. A \ {x} \in F
      BY <1>3, <2>3
    <2>5. (A \ {x}) \cup {x} \in F
      BY <2>4
    <2>6. (A \ {x}) \cup {x} = A
      OBVIOUS
    <2> QED BY <2>5, <2>6
  <1> HIDE DEF K
  <1>4. Nat \subseteq K
    BY <1>2, <1>3, NatSteps
  <1> QED BY <1>1, <1>4 DEF K

-----------------------------------------------------------------------------
(* The sum as the library defines it: the element that is taken next, one  *)
(* round, and the function from the subsets to their sums.                 *)

Pick(s) == CHOOSE x \in s : TRUE

Adds(g, s, weight) == IF s = {} THEN 0 ELSE weight[Pick(s)] + g[s \ {Pick(s)}]

Partial(S, weight) == CHOOSE g : g = [s \in SUBSET S |-> Adds(g, s, weight)]

LEMMA SumIsPartial ==
    ASSUME NEW S, NEW weight PROVE SumOf(S, weight) = Partial(S, weight)[S]
  BY Zenon DEF SumOf, MapThenSumSet, MapThenFoldSet, Partial, Adds, Pick

LEMMA PartialExists ==
    ASSUME NEW S, IsFiniteSet(S), NEW weight
    PROVE  \E g : g = [s \in SUBSET S |-> Adds(g, s, weight)]
  <1> DEFINE Upto(k) == {s \in SUBSET S : Cardinality(s) <= k}
             K == {k \in Nat : \E g : g = [s \in Upto(k) |-> Adds(g, s, weight)]}
  <1>1. \A s \in SUBSET S : IsFiniteSet(s) /\ Cardinality(s) \in Nat /\ Cardinality(s) <= Cardinality(S)
    BY FS_Subset, FS_CardinalityType
  <1>2. 0 \in K
    <2>1. \A s \in Upto(0) : s = {}
      BY <1>1, FS_EmptySet
    <2> DEFINE g == [s \in Upto(0) |-> 0]
    <2>2. g = [s \in Upto(0) |-> Adds(g, s, weight)]
      BY <2>1 DEF Adds
    <2> QED BY <2>2
  <1>3. ASSUME NEW k \in Nat, k \in K PROVE k + 1 \in K
    <2>1. PICK g : g = [s \in Upto(k) |-> Adds(g, s, weight)]
      BY <1>3
    <2> DEFINE h == [s \in Upto(k + 1) |-> IF s \in Upto(k) THEN g[s] ELSE Adds(g, s, weight)]
    <2>2. ASSUME NEW s \in Upto(k + 1) PROVE h[s] = Adds(h, s, weight)
      <3>1. h[s] = Adds(g, s, weight)
        BY <2>1
      <3>2. CASE s = {}
        BY <3>1, <3>2 DEF Adds
      <3>3. CASE s # {}
        <4>1. Pick(s) \in s
          BY <3>3 DEF Pick
        <4>2. Cardinality(s \ {Pick(s)}) = Cardinality(s) - 1
          BY <1>1, <4>1, FS_RemoveElement
        <4>3. s \ {Pick(s)} \in Upto(k) /\ s \ {Pick(s)} \in Upto(k + 1)
          BY <1>1, <4>2
        <4>4. h[s \ {Pick(s)}] = g[s \ {Pick(s)}]
          BY <4>3
        <4> QED BY <3>1, <3>3, <4>4 DEF Adds
      <3> QED BY <3>2, <3>3
    <2>3. h = [s \in Upto(k + 1) |-> h[s]]
      OBVIOUS
    <2>4. h = [s \in Upto(k + 1) |-> Adds(h, s, weight)]
      BY <2>2, <2>3
    <2> HIDE DEF h
    <2>5. \E f : f = [s \in Upto(k + 1) |-> Adds(f, s, weight)]
      BY <2>4
    <2> QED BY <2>5
  <1> HIDE DEF K
  <1>4. Cardinality(S) \in K
    BY <1>1, <1>2, <1>3, NatSteps
  <1>5. Upto(Cardinality(S)) = SUBSET S
    BY <1>1
  <1> QED BY <1>4, <1>5 DEF K

LEMMA PartialAdds ==
    ASSUME NEW S, IsFiniteSet(S), NEW weight
    PROVE  Partial(S, weight) = [s \in SUBSET S |-> Adds(Partial(S, weight), s, weight)]
  BY PartialExists DEF Partial

\* What has been added up of a subset does not depend on the set it is in.
LEMMA PartialAgrees ==
    ASSUME NEW S, IsFiniteSet(S), NEW weight, NEW A \in SUBSET S
    PROVE  Partial(A, weight)[A] = Partial(S, weight)[A]
  <1> DEFINE g == Partial(A, weight)
             h == Partial(S, weight)
             K == {k \in Nat : \A s \in SUBSET A : Cardinality(s) = k => g[s] = h[s]}
  <1>1. \A s \in SUBSET A : IsFiniteSet(s) /\ Cardinality(s) \in Nat
    BY FS_Subset, FS_CardinalityType
  <1>2. \A s \in SUBSET A : g[s] = Adds(g, s, weight) /\ h[s] = Adds(h, s, weight)
    <2>1. IsFiniteSet(A)
      BY FS_Subset
    <2>2. g = [s \in SUBSET A |-> Adds(g, s, weight)]
      BY <2>1, PartialAdds
    <2>3. h = [s \in SUBSET S |-> Adds(h, s, weight)]
      BY PartialAdds
    <2> HIDE DEF g, h
    <2> QED BY <2>2, <2>3
  <1> HIDE DEF g, h
  <1>3. 0 \in K
    <2>1. \A s \in SUBSET A : Cardinality(s) = 0 => s = {}
      BY <1>1, FS_EmptySet
    <2> QED BY <1>2, <2>1 DEF Adds
  <1>4. ASSUME NEW k \in Nat, k \in K PROVE k + 1 \in K
    <2> SUFFICES ASSUME NEW s \in SUBSET A, Cardinality(s) = k + 1 PROVE g[s] = h[s]
      OBVIOUS
    <2>1. s # {}
      <3>1. Cardinality({}) = 0 /\ k + 1 # 0
        BY FS_EmptySet
      <3> QED BY <3>1
    <2>2. Pick(s) \in s
      BY <2>1 DEF Pick
    <2>3. Cardinality(s \ {Pick(s)}) = k
      <3>1. Cardinality(s \ {Pick(s)}) = Cardinality(s) - 1
        BY <1>1, <2>2, FS_RemoveElement
      <3> QED BY <3>1
    <2>4. g[s \ {Pick(s)}] = h[s \ {Pick(s)}]
      BY <1>4, <2>3
    <2> QED BY <1>2, <2>1, <2>4 DEF Adds
  <1> HIDE DEF K
  <1>5. Cardinality(A) \in K
    BY <1>1, <1>3, <1>4, NatSteps
  <1> QED BY <1>5 DEF K, g, h

LEMMA SumEmpty == ASSUME NEW weight PROVE SumOf({}, weight) = 0
  <1> DEFINE g == Partial({}, weight)
  <1>1. g = [s \in SUBSET {} |-> Adds(g, s, weight)]
    BY PartialAdds, FS_EmptySet
  <1>2. SumOf({}, weight) = g[{}]
    BY SumIsPartial
  <1> HIDE DEF g
  <1> QED BY <1>1, <1>2 DEF Adds

LEMMA SumPicks ==
    ASSUME NEW S, IsFiniteSet(S), S # {}, NEW weight
    PROVE  /\ Pick(S) \in S
           /\ SumOf(S, weight) = weight[Pick(S)] + SumOf(S \ {Pick(S)}, weight)
  <1>1. Pick(S) \in S
    BY DEF Pick
  <1>2. Partial(S, weight)[S] = weight[Pick(S)] + Partial(S, weight)[S \ {Pick(S)}]
    <2> DEFINE g == Partial(S, weight)
    <2>1. g = [s \in SUBSET S |-> Adds(g, s, weight)]
      BY PartialAdds
    <2> HIDE DEF g
    <2>2. g[S] = weight[Pick(S)] + g[S \ {Pick(S)}]
      BY <2>1 DEF Adds
    <2> QED BY <2>2 DEF g
  <1>3. Partial(S, weight)[S \ {Pick(S)}] = SumOf(S \ {Pick(S)}, weight)
    BY PartialAgrees, SumIsPartial
  <1> QED BY <1>1, <1>2, <1>3, SumIsPartial

-----------------------------------------------------------------------------
LEMMA SumInt ==
    ASSUME NEW S, IsFiniteSet(S), NEW weight, \A x \in S : weight[x] \in Int
    PROVE  SumOf(S, weight) \in Int
  <1> DEFINE K == {k \in Nat : \A A \in SUBSET S : Cardinality(A) = k => SumOf(A, weight) \in Int}
  <1>1. \A A \in SUBSET S : IsFiniteSet(A) /\ Cardinality(A) \in Nat
    BY FS_Subset, FS_CardinalityType
  <1>2. 0 \in K
    <2>1. \A A \in SUBSET S : Cardinality(A) = 0 => A = {}
      BY <1>1, FS_EmptySet
    <2> QED BY <2>1, SumEmpty
  <1>3. ASSUME NEW k \in Nat, k \in K PROVE k + 1 \in K
    <2> SUFFICES ASSUME NEW A \in SUBSET S, Cardinality(A) = k + 1 PROVE SumOf(A, weight) \in Int
      OBVIOUS
    <2>1. A # {}
      <3>1. Cardinality({}) = 0 /\ k + 1 # 0
        BY FS_EmptySet
      <3> QED BY <3>1
    <2>2. /\ Pick(A) \in A
          /\ SumOf(A, weight) = weight[Pick(A)] + SumOf(A \ {Pick(A)}, weight)
      BY <1>1, <2>1, SumPicks
    <2>3. Cardinality(A \ {Pick(A)}) = Cardinality(A) - 1
      BY <1>1, <2>2, FS_RemoveElement
    <2>4. Cardinality(A \ {Pick(A)}) = k
      BY <2>3
    <2>5. SumOf(A \ {Pick(A)}, weight) \in Int
      BY <1>3, <2>4
    <2> QED BY <2>2, <2>5
  <1> HIDE DEF K
  <1>4. Cardinality(S) \in K
    BY <1>1, <1>2, <1>3, NatSteps
  <1> QED BY <1>4 DEF K

\* Any element may be taken out first, not only the one that is chosen.
LEMMA SumTakesOut ==
    ASSUME NEW S, IsFiniteSet(S), NEW weight, \A x \in S : weight[x] \in Int, NEW x \in S
    PROVE  SumOf(S, weight) = weight[x] + SumOf(S \ {x}, weight)
  <1> DEFINE Out(A) == \A y \in A : SumOf(A, weight) = weight[y] + SumOf(A \ {y}, weight)
             K == {k \in Nat : \A A \in SUBSET S : Cardinality(A) = k => Out(A)}
  <1>1. \A A \in SUBSET S : /\ IsFiniteSet(A) /\ Cardinality(A) \in Nat
                            /\ SumOf(A, weight) \in Int
    BY FS_Subset, FS_CardinalityType, SumInt
  <1>2. 0 \in K
    <2>1. \A A \in SUBSET S : Cardinality(A) = 0 => A = {}
      BY <1>1, FS_EmptySet
    <2> QED BY <2>1
  <1>3. ASSUME NEW k \in Nat, k \in K PROVE k + 1 \in K
    <2> SUFFICES ASSUME NEW A \in SUBSET S, Cardinality(A) = k + 1, NEW y \in A
                 PROVE  SumOf(A, weight) = weight[y] + SumOf(A \ {y}, weight)
      OBVIOUS
    <2> DEFINE p == Pick(A)
    <2>1. p \in A /\ SumOf(A, weight) = weight[p] + SumOf(A \ {p}, weight)
      BY <1>1, SumPicks
    <2> HIDE DEF p
    <2>2. CASE y = p
      BY <2>1, <2>2
    <2>3. CASE y # p
      <3>1. Cardinality(A \ {p}) = Cardinality(A) - 1 /\ Cardinality(A \ {y}) = Cardinality(A) - 1
        BY <1>1, <2>1, FS_RemoveElement
      <3>2. Cardinality(A \ {p}) = k /\ Cardinality(A \ {y}) = k
        BY <3>1
      <3>3. Out(A \ {p}) /\ Out(A \ {y})
        BY <1>3, <3>2
      <3>4. /\ SumOf(A \ {p}, weight) = weight[y] + SumOf((A \ {p}) \ {y}, weight)
            /\ SumOf(A \ {y}, weight) = weight[p] + SumOf((A \ {y}) \ {p}, weight)
        BY <2>1, <2>3, <3>3
      <3>5. (A \ {p}) \ {y} = (A \ {y}) \ {p}
        OBVIOUS
      <3>6. SumOf((A \ {p}) \ {y}, weight) \in Int /\ weight[p] \in Int /\ weight[y] \in Int
        BY <1>1, <2>1
      <3> DEFINE rest == SumOf((A \ {p}) \ {y}, weight)
      <3>7. /\ SumOf(A, weight) = weight[p] + (weight[y] + rest)
            /\ SumOf(A \ {y}, weight) = weight[p] + rest
        BY <2>1, <3>4, <3>5
      <3> HIDE DEF rest
      <3>8. weight[p] + (weight[y] + rest) = weight[y] + (weight[p] + rest)
        BY <3>6 DEF rest
      <3> QED BY <3>7, <3>8
    <2> QED BY <2>2, <2>3
  <1> HIDE DEF K
  <1>4. Cardinality(S) \in K
    BY <1>1, <1>2, <1>3, NatSteps
  <1> QED BY <1>4 DEF K

LEMMA SumPutsIn ==
    ASSUME NEW S, IsFiniteSet(S), NEW x, x \notin S,
           NEW weight, \A y \in S \cup {x} : weight[y] \in Int
    PROVE  SumOf(S \cup {x}, weight) = SumOf(S, weight) + weight[x]
  <1>1. IsFiniteSet(S \cup {x})
    BY FS_AddElement
  <1>2. SumOf(S \cup {x}, weight) = weight[x] + SumOf((S \cup {x}) \ {x}, weight)
    BY <1>1, SumTakesOut
  <1>3. (S \cup {x}) \ {x} = S
    OBVIOUS
  <1>4. SumOf(S, weight) \in Int
    BY SumInt
  <1>5. weight[x] + SumOf(S, weight) = SumOf(S, weight) + weight[x]
    BY <1>4
  <1> QED BY <1>2, <1>3, <1>5

\* Only the weights of what is added up matter.
LEMMA SumSame ==
    ASSUME NEW S, IsFiniteSet(S), NEW v, NEW w,
           \A x \in S : v[x] \in Int /\ v[x] = w[x]
    PROVE  SumOf(S, v) = SumOf(S, w)
  <1> DEFINE F == {A \in SUBSET S : SumOf(A, v) = SumOf(A, w)}
  <1>1. {} \in F
    BY SumEmpty
  <1>2. ASSUME NEW A \in SUBSET S, NEW x \in S, A \in F, x \notin A PROVE A \cup {x} \in F
    <2>1. IsFiniteSet(A)
      BY FS_Subset
    <2>2. SumOf(A \cup {x}, v) = SumOf(A, v) + v[x]
      BY <1>2, <2>1, SumPutsIn
    <2>3. SumOf(A \cup {x}, w) = SumOf(A, w) + w[x]
      BY <1>2, <2>1, SumPutsIn
    <2> QED BY <1>2, <2>2, <2>3
  <1> HIDE DEF F
  <1>3. S \in F
    BY <1>1, <1>2, SetSteps
  <1> QED BY <1>3 DEF F

LEMMA SumUnion ==
    ASSUME NEW S, IsFiniteSet(S), NEW T, IsFiniteSet(T), S \cap T = {},
           NEW weight, \A x \in S \cup T : weight[x] \in Int
    PROVE  SumOf(S \cup T, weight) = SumOf(S, weight) + SumOf(T, weight)
  <1> DEFINE F == {A \in SUBSET T : /\ IsFiniteSet(S \cup A)
                                    /\ SumOf(S \cup A, weight) = SumOf(S, weight) + SumOf(A, weight)}
  <1>1. {} \in F
    <2>1. S \cup {} = S
      OBVIOUS
    <2>2. SumOf(S, weight) \in Int
      BY SumInt
    <2> QED BY <2>1, <2>2, SumEmpty
  <1>2. ASSUME NEW A \in SUBSET T, NEW x \in T, A \in F, x \notin A PROVE A \cup {x} \in F
    <2>1. IsFiniteSet(A) /\ IsFiniteSet(S \cup A)
      BY <1>2, FS_Subset
    <2>2. SumOf(A \cup {x}, weight) = SumOf(A, weight) + weight[x]
      BY <1>2, <2>1, SumPutsIn
    <2>3. SumOf((S \cup A) \cup {x}, weight) = SumOf(S \cup A, weight) + weight[x]
      BY <1>2, <2>1, SumPutsIn
    <2>4. (S \cup A) \cup {x} = S \cup (A \cup {x}) /\ IsFiniteSet((S \cup A) \cup {x})
      BY <2>1, FS_AddElement
    <2>5. SumOf(A, weight) \in Int /\ SumOf(S, weight) \in Int /\ weight[x] \in Int
      BY <2>1, SumInt
    <2>6. SumOf(S \cup (A \cup {x}), weight) = (SumOf(S, weight) + SumOf(A, weight)) + weight[x]
      BY <1>2, <2>3, <2>4
    <2>7. SumOf(S \cup (A \cup {x}), weight) = SumOf(S, weight) + SumOf(A \cup {x}, weight)
      BY <2>2, <2>5, <2>6
    <2> QED BY <2>4, <2>7
  <1> HIDE DEF F
  <1>3. T \in F
    BY <1>1, <1>2, SetSteps
  <1> QED BY <1>3 DEF F

LEMMA SumNat ==
    ASSUME NEW S, IsFiniteSet(S), NEW weight, \A x \in S : weight[x] \in Nat
    PROVE  SumOf(S, weight) \in Nat
  <1> DEFINE F == {A \in SUBSET S : SumOf(A, weight) \in Nat}
  <1>1. {} \in F
    BY SumEmpty
  <1>2. ASSUME NEW A \in SUBSET S, NEW x \in S, A \in F, x \notin A PROVE A \cup {x} \in F
    <2>1. IsFiniteSet(A)
      BY FS_Subset
    <2>2. \A y \in A \cup {x} : weight[y] \in Int
      OBVIOUS
    <2>3. SumOf(A \cup {x}, weight) = SumOf(A, weight) + weight[x]
      BY <1>2, <2>1, <2>2, SumPutsIn
    <2>4. SumOf(A, weight) + weight[x] \in Nat
      BY <1>2
    <2> QED BY <2>3, <2>4
  <1> HIDE DEF F
  <1>3. S \in F
    BY <1>1, <1>2, SetSteps
  <1> QED BY <1>3 DEF F

\* A part weighs no more than the whole.
LEMMA SumOfPart ==
    ASSUME NEW S, IsFiniteSet(S), NEW weight, \A x \in S : weight[x] \in Nat, NEW T \in SUBSET S
    PROVE  SumOf(T, weight) <= SumOf(S, weight)
  <1>1. IsFiniteSet(T) /\ IsFiniteSet(S \ T)
    BY FS_Subset
  <1>2. SumOf(T, weight) \in Nat /\ SumOf(S \ T, weight) \in Nat
    BY <1>1, SumNat
  <1>3. T \cup (S \ T) = S /\ T \cap (S \ T) = {}
    OBVIOUS
  <1>4. SumOf(T \cup (S \ T), weight) = SumOf(T, weight) + SumOf(S \ T, weight)
    BY <1>1, <1>3, SumUnion
  <1>5. SumOf(S, weight) = SumOf(T, weight) + SumOf(S \ T, weight)
    BY <1>3, <1>4
  <1> QED BY <1>2, <1>5

\* Adding up along a list without repetitions is adding up what is in it.
LEMMA SumAlong ==
    ASSUME NEW D, IsFiniteSet(D), NEW s, \A i, j \in D : s[i] = s[j] => i = j,
           NEW weight, \A i \in D : weight[s[i]] \in Int
    PROVE  /\ IsFiniteSet({s[i] : i \in D})
           /\ SumOf(D, [i \in D |-> weight[s[i]]]) = SumOf({s[i] : i \in D}, weight)
  <1> DEFINE w == [i \in D |-> weight[s[i]]]
             Image(A) == {s[i] : i \in A}
             F == {A \in SUBSET D : /\ IsFiniteSet(Image(A))
                                    /\ SumOf(A, w) = SumOf(Image(A), weight)}
  <1>1. {} \in F
    <2>1. Image({}) = {}
      OBVIOUS
    <2> QED BY <2>1, SumEmpty, FS_EmptySet
  <1>2. ASSUME NEW A \in SUBSET D, NEW x \in D, A \in F, x \notin A PROVE A \cup {x} \in F
    <2>1. IsFiniteSet(A) /\ IsFiniteSet(Image(A))
      BY <1>2, FS_Subset
    <2>2. Image(A \cup {x}) = Image(A) \cup {s[x]} /\ s[x] \notin Image(A)
      BY <1>2
    <2>3. \A i \in D : w[i] \in Int /\ w[i] = weight[s[i]]
      OBVIOUS
    <2>4. \A y \in Image(A) \cup {s[x]} : weight[y] \in Int
      OBVIOUS
    <2>5. SumOf(A, w) = SumOf(Image(A), weight)
      BY <1>2
    <2> HIDE DEF w, Image
    <2>6. SumOf(A \cup {x}, w) = SumOf(A, w) + w[x]
      <3>1. \A y \in A \cup {x} : w[y] \in Int
        BY <2>3
      <3> QED BY <1>2, <2>1, <3>1, SumPutsIn
    <2>7. SumOf(Image(A) \cup {s[x]}, weight) = SumOf(Image(A), weight) + weight[s[x]]
      BY <2>1, <2>2, <2>4, SumPutsIn
    <2>8. IsFiniteSet(Image(A) \cup {s[x]})
      BY <2>1, FS_AddElement
    <2> QED BY <2>2, <2>3, <2>5, <2>6, <2>7, <2>8
  <1> HIDE DEF F
  <1>3. D \in F
    BY <1>1, <1>2, SetSteps
  <1> QED BY <1>3 DEF F

LEMMA SumPlus ==
    ASSUME NEW S, IsFiniteSet(S), NEW u, NEW v, NEW w,
           \A x \in S : v[x] \in Int /\ w[x] \in Int /\ u[x] = v[x] + w[x]
    PROVE  SumOf(S, u) = SumOf(S, v) + SumOf(S, w)
  <1> DEFINE F == {A \in SUBSET S : SumOf(A, u) = SumOf(A, v) + SumOf(A, w)}
  <1>1. {} \in F
    BY SumEmpty
  <1>2. \A x \in S : u[x] \in Int /\ u[x] = v[x] + w[x]
    OBVIOUS
  <1>3. ASSUME NEW A \in SUBSET S, NEW x \in S, A \in F, x \notin A PROVE A \cup {x} \in F
    <2>1. IsFiniteSet(A) /\ (\A y \in A \cup {x} : u[y] \in Int /\ v[y] \in Int /\ w[y] \in Int)
      BY <1>2, FS_Subset
    <2>2. SumOf(A \cup {x}, u) = SumOf(A, u) + u[x]
      BY <1>3, <2>1, SumPutsIn
    <2>3. SumOf(A \cup {x}, v) = SumOf(A, v) + v[x]
      BY <1>3, <2>1, SumPutsIn
    <2>4. SumOf(A \cup {x}, w) = SumOf(A, w) + w[x]
      BY <1>3, <2>1, SumPutsIn
    <2>5. SumOf(A, v) \in Int /\ SumOf(A, w) \in Int
      BY <2>1, SumInt
    <2>6. SumOf(A, u) = SumOf(A, v) + SumOf(A, w)
      BY <1>3
    <2>7. (SumOf(A, v) + SumOf(A, w)) + (v[x] + w[x]) = (SumOf(A, v) + v[x]) + (SumOf(A, w) + w[x])
      BY <2>5
    <2> QED BY <1>2, <2>2, <2>3, <2>4, <2>6, <2>7
  <1> HIDE DEF F
  <1>4. S \in F
    BY <1>1, <1>3, SetSteps
  <1> QED BY <1>4 DEF F

\* A set of numbers that is closed under addition holds the sums of its numbers.
LEMMA SumStaysIn ==
    ASSUME NEW M \in SUBSET Int, 0 \in M, \A a, b \in M : a + b \in M,
           NEW S, IsFiniteSet(S), NEW weight, \A x \in S : weight[x] \in M
    PROVE  SumOf(S, weight) \in M
  <1> DEFINE F == {A \in SUBSET S : SumOf(A, weight) \in M}
  <1>1. {} \in F
    BY SumEmpty
  <1>2. ASSUME NEW A \in SUBSET S, NEW x \in S, A \in F, x \notin A PROVE A \cup {x} \in F
    <2>1. IsFiniteSet(A) /\ \A y \in A \cup {x} : weight[y] \in Int
      BY FS_Subset
    <2>2. SumOf(A \cup {x}, weight) = SumOf(A, weight) + weight[x]
      BY <1>2, <2>1, SumPutsIn
    <2> QED BY <1>2, <2>2
  <1> HIDE DEF F
  <1>3. S \in F
    BY <1>1, <1>2, SetSteps
  <1> QED BY <1>3 DEF F

\* Adding up the union of disjoint sets is adding up their sums.
LEMMA SumOfDisjoint ==
    ASSUME NEW S, IsFiniteSet(S), NEW part, NEW weight,
           \A a \in S : IsFiniteSet(part[a]) /\ \A x \in part[a] : weight[x] \in Int,
           \A a, b \in S : a # b => part[a] \cap part[b] = {},
           NEW whole, whole = UNION {part[a] : a \in S},
           NEW each, \A a \in S : each[a] = SumOf(part[a], weight)
    PROVE  IsFiniteSet(whole) /\ SumOf(whole, weight) = SumOf(S, each)
  <1> DEFINE Whole(A) == UNION {part[a] : a \in A}
             F == {A \in SUBSET S : /\ IsFiniteSet(Whole(A))
                                    /\ SumOf(Whole(A), weight) = SumOf(A, each)}
  <1>1. {} \in F
    <2>1. Whole({}) = {}
      OBVIOUS
    <2> QED BY <2>1, SumEmpty, FS_EmptySet
  <1>2. \A a \in S : each[a] = SumOf(part[a], weight) /\ each[a] \in Int
    <2>1. \A a \in S : SumOf(part[a], weight) \in Int
      BY SumInt
    <2> QED BY <2>1
  <1>3. ASSUME NEW A \in SUBSET S, NEW x \in S, A \in F, x \notin A PROVE A \cup {x} \in F
    <2>1. IsFiniteSet(A) /\ IsFiniteSet(Whole(A)) /\ SumOf(Whole(A), weight) = SumOf(A, each)
      BY <1>3, FS_Subset
    <2>2. Whole(A \cup {x}) = Whole(A) \cup part[x]
      OBVIOUS
    <2>3. Whole(A) \cap part[x] = {}
      BY <1>3
    <2>4. \A y \in Whole(A) \cup part[x] : weight[y] \in Int
      OBVIOUS
    <2> HIDE DEF Whole
    <2>5. SumOf(Whole(A) \cup part[x], weight) = SumOf(Whole(A), weight) + SumOf(part[x], weight)
      BY <2>1, <2>3, <2>4, SumUnion
    <2>6. \A y \in A \cup {x} : each[y] \in Int
      BY <1>2
    <2>7. SumOf(A \cup {x}, each) = SumOf(A, each) + each[x]
      BY <1>3, <2>1, <2>6, SumPutsIn
    <2>8. IsFiniteSet(Whole(A) \cup part[x])
      BY <2>1, FS_Union
    <2> QED BY <1>2, <2>1, <2>2, <2>5, <2>7, <2>8
  <1> HIDE DEF F
  <1>4. S \in F
    BY <1>1, <1>3, SetSteps
  <1> QED BY <1>4 DEF F
=============================================================================
