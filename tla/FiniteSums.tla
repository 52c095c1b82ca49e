----------------------------- MODULE FiniteSums -----------------------------
(***************************************************************************)
(* Sums over finite sets, as the models compute them, and what the proofs  *)
(* need of them. The library states induction over a finite set with an    *)
(* operator as its parameter, which no prover here instantiates; the       *)
(* lemmas take a least counterexample instead, which there is because      *)
(* strict inclusion is well-founded on the subsets of a finite set.        *)
(***************************************************************************)
EXTENDS Integers, FiniteSetsExt, FiniteSetTheorems, WellFoundedInduction, TLAPS

\* The sum of F over S, as MapThenSumSet of the community modules computes it.
SumOf(F, S) == MapThenSumSet(LAMBDA x : F[x], S)

\* The element of S that its fold takes next.
Chosen(S) == CHOOSE x \in S : TRUE

\* What the fold is: a function on the subsets of S that takes them apart.
IsSumming(F, S, it) ==
  it = [s \in SUBSET S |->
          IF s = {} THEN 0 ELSE F[Chosen(s)] + it[s \ {Chosen(s)}]]

\* The sum is a fold of the subsets of S.
LEMMA SumUnfolds ==
  ASSUME NEW F, NEW S
  PROVE  SumOf(F, S) = (CHOOSE it : IsSumming(F, S, it))[S]
BY DEF SumOf, MapThenSumSet, MapThenFoldSet, IsSumming, Chosen

\* Among subsets of a finite set there is a least: no other is within it.
\* This stands for induction over the set in all that follows.
LEMMA MinimalSubset ==
  ASSUME NEW S, IsFiniteSet(S), NEW T, T \subseteq SUBSET S, T # {}
  PROVE  \E m \in T : \A y \in T : y \subseteq m => y = m
<1>1. IsWellFoundedOn(StrictSubsetOrdering(S), SUBSET S)
  BY FS_StrictSubsetOrderingWellFounded, FS_FiniteSubsetsOfFinite
<1>2. PICK m \in T : \A y \in T : <<y, m>> \notin StrictSubsetOrdering(S)
  BY <1>1, WFMin
<1>3. QED
  BY <1>2 DEF StrictSubsetOrdering

\* A set that is not empty has the element chosen from it.
LEMMA ChosenIn == ASSUME NEW S, S # {} PROVE Chosen(S) \in S
BY DEF Chosen

\* Two folds agree where both are defined.
LEMMA SummingUnique ==
  ASSUME NEW F, NEW S, NEW T, NEW f, NEW g, IsFiniteSet(S),
         IsSumming(F, S, f), IsSumming(F, T, g)
  PROVE  \A u \in SUBSET S : u \subseteq T => f[u] = g[u]
<1> DEFINE Bad == {u \in SUBSET S : u \subseteq T /\ f[u] # g[u]}
<1> SUFFICES ASSUME Bad # {} PROVE FALSE
  OBVIOUS
<1>1. PICK m \in Bad : \A y \in Bad : y \subseteq m => y = m
  <2>1. Bad \subseteq SUBSET S
    OBVIOUS
  <2> HIDE DEF Bad
  <2>2. QED
    BY <2>1, MinimalSubset
<1>2. \A s \in SUBSET S : f[s] = IF s = {} THEN 0 ELSE F[Chosen(s)] + f[s \ {Chosen(s)}]
  BY DEF IsSumming
<1>3. \A s \in SUBSET T : g[s] = IF s = {} THEN 0 ELSE F[Chosen(s)] + g[s \ {Chosen(s)}]
  BY DEF IsSumming
<1>4. m # {}
  BY <1>1, <1>2, <1>3
<1>5. m \ {Chosen(m)} # m /\ m \ {Chosen(m)} \subseteq m
  BY <1>4, ChosenIn
<1>6. f[m \ {Chosen(m)}] = g[m \ {Chosen(m)}]
  BY <1>1, <1>5
<1>7. f[m] = g[m]
  BY <1>1, <1>2, <1>3, <1>4, <1>6
<1>8. QED
  BY <1>1, <1>7

\* A finite set has a fold.
LEMMA SummingExists ==
  ASSUME NEW F, NEW S, IsFiniteSet(S)
  PROVE  \E it : IsSumming(F, S, it)
<1> DEFINE Bad == {u \in SUBSET S : ~ \E it : IsSumming(F, u, it)}
<1> SUFFICES ASSUME Bad # {} PROVE FALSE
  OBVIOUS
<1>1. PICK m \in Bad : \A y \in Bad : y \subseteq m => y = m
  <2>1. Bad \subseteq SUBSET S
    OBVIOUS
  <2> HIDE DEF Bad
  <2>2. QED
    BY <2>1, MinimalSubset
<1> DEFINE sums(u) == CHOOSE it : IsSumming(F, u, it)
           below(s) == sums(s)[s]
           it == [s \in SUBSET m |->
                    IF s = {} THEN 0
                    ELSE F[Chosen(s)] + below(s \ {Chosen(s)})]
<1>2. \A u \in SUBSET m : u # m => IsSumming(F, u, sums(u))
  BY <1>1
<1>3. \A u \in SUBSET m : IsFiniteSet(u)
  BY <1>1, FS_Subset
<1>4. ASSUME NEW s \in SUBSET m, s # m
      PROVE  below(s) = it[s]
  <2>1. IsSumming(F, s, sums(s))
    BY <1>2, <1>4
  <2>2. CASE s = {}
    BY <2>1, <2>2 DEF IsSumming
  <2>3. CASE s # {}
    <3> DEFINE r == s \ {Chosen(s)}
    <3>1. r \in SUBSET m /\ r \in SUBSET s /\ r # m
      BY <1>4, <2>3, ChosenIn
    <3>2. IsSumming(F, r, sums(r))
      BY <1>2, <3>1
    <3>3. sums(s)[r] = sums(r)[r]
      <4>1. IsFiniteSet(s)
        BY <1>3
      <4>2. \A u \in SUBSET s : u \subseteq r => sums(s)[u] = sums(r)[u]
        BY <2>1, <3>2, <4>1, SummingUnique
      <4>3. QED
        BY <3>1, <4>2
    <3>4. sums(s)[s] = F[Chosen(s)] + sums(s)[r]
      <4> HIDE DEF sums
      <4>1. QED
        BY <2>1, <2>3 DEF IsSumming
    <3>5. QED
      BY <2>3, <3>3, <3>4
  <2>4. QED
    BY <2>2, <2>3
<1>5. \A s \in SUBSET m : it[s] = IF s = {} THEN 0
                                  ELSE F[Chosen(s)] + it[s \ {Chosen(s)}]
  <2> TAKE s \in SUBSET m
  <2>1. CASE s = {}
    BY <2>1
  <2>2. CASE s # {}
    <3>1. s \ {Chosen(s)} \in SUBSET m /\ s \ {Chosen(s)} # m
      BY <2>2, ChosenIn
    <3>2. below(s \ {Chosen(s)}) = it[s \ {Chosen(s)}]
      BY <3>1, <1>4
    <3>3. it[s] = F[Chosen(s)] + below(s \ {Chosen(s)})
      BY <2>2
    <3>4. QED
      BY <2>2, <3>2, <3>3
  <2>3. QED
    BY <2>1, <2>2
<1>6. IsSumming(F, m, it)
  <2> DEFINE rhs == [s \in SUBSET m |-> IF s = {} THEN 0
                       ELSE F[Chosen(s)] + it[s \ {Chosen(s)}]]
  <2>1. \A s \in SUBSET m : it[s] = rhs[s]
    <3> HIDE DEF it
    <3>1. QED
      BY <1>5
  <2>2. it = [s \in SUBSET m |-> it[s]]
    OBVIOUS
  <2>3. rhs = [s \in SUBSET m |-> rhs[s]]
    OBVIOUS
  <2>4. it = rhs
    <3> HIDE DEF it, rhs
    <3>1. QED
      BY <2>1, <2>2, <2>3
  <2>5. QED
    BY <2>4 DEF IsSumming
<1>7. QED
  BY <1>1, <1>6

\* Nothing sums to 0.
LEMMA SumEmpty == ASSUME NEW F PROVE SumOf(F, {}) = 0
<1>1. IsSumming(F, {}, CHOOSE it : IsSumming(F, {}, it))
  BY FS_EmptySet, SummingExists
<1>2. QED
  BY <1>1, SumUnfolds DEF IsSumming

\* The sum is the chosen element's share and the sum of the rest.
LEMMA SumStep ==
  ASSUME NEW F, NEW S, IsFiniteSet(S), S # {}
  PROVE  SumOf(F, S) = F[Chosen(S)] + SumOf(F, S \ {Chosen(S)})
<1> DEFINE R == S \ {Chosen(S)}
           sums(u) == CHOOSE it : IsSumming(F, u, it)
<1>1. IsFiniteSet(R) /\ R \subseteq S
  BY FS_RemoveElement
<1>2. IsSumming(F, S, sums(S)) /\ IsSumming(F, R, sums(R))
  BY <1>1, SummingExists
<1>3. SumOf(F, S) = sums(S)[S] /\ SumOf(F, R) = sums(R)[R]
  BY SumUnfolds
<1> HIDE DEF sums
<1>4. sums(S)[S] = F[Chosen(S)] + sums(S)[R]
  BY <1>2 DEF IsSumming
<1>5. sums(S)[R] = sums(R)[R]
  <2>1. \A u \in SUBSET S : u \subseteq R => sums(S)[u] = sums(R)[u]
    BY <1>2, SummingUnique
  <2>2. QED
    BY <1>1, <2>1
<1>6. QED
  BY <1>3, <1>4, <1>5

\* A finite sum of integers is one.
LEMMA SumType ==
  ASSUME NEW F, NEW S, IsFiniteSet(S), \A x \in S : F[x] \in Int
  PROVE  SumOf(F, S) \in Int
<1> DEFINE Bad == {u \in SUBSET S : SumOf(F, u) \notin Int}
<1>0. SumOf(F, {}) = 0
  BY SumEmpty
<1> SUFFICES ASSUME Bad # {} PROVE FALSE
  OBVIOUS
<1>1. PICK m \in Bad : \A y \in Bad : y \subseteq m => y = m
  <2>1. Bad \subseteq SUBSET S
    OBVIOUS
  <2> HIDE DEF Bad
  <2>2. QED
    BY <2>1, MinimalSubset
<1>2. m # {}
  BY <1>0, <1>1
<1>3. IsFiniteSet(m)
  BY <1>1, FS_Subset
<1>4. Chosen(m) \in m
  BY <1>2, ChosenIn
<1>5. SumOf(F, m) = F[Chosen(m)] + SumOf(F, m \ {Chosen(m)})
  BY <1>2, <1>3, SumStep
<1>6. SumOf(F, m \ {Chosen(m)}) \in Int
  BY <1>1, <1>4
<1>7. QED
  BY <1>1, <1>4, <1>5, <1>6

\* Another element adds its share, whichever element the fold would choose.
LEMMA SumAdd ==
  ASSUME NEW F, NEW S, IsFiniteSet(S), NEW x, x \notin S,
         \A y \in S \cup {x} : F[y] \in Int
  PROVE  SumOf(F, S \cup {x}) = F[x] + SumOf(F, S)
<1> DEFINE Bad == {u \in SUBSET S : \E e \in (S \cup {x}) \ u : SumOf(F, u \cup {e}) # F[e] + SumOf(F, u)}
<1>1. SUFFICES ASSUME Bad # {} PROVE FALSE
  OBVIOUS
<1>2. PICK m \in Bad : \A y \in Bad : y \subseteq m => y = m
  <2>1. Bad \subseteq SUBSET S
    OBVIOUS
  <2> HIDE DEF Bad
  <2>2. QED
    BY <1>1, <2>1, MinimalSubset
<1>3. PICK e \in (S \cup {x}) \ m : SumOf(F, m \cup {e}) # F[e] + SumOf(F, m)
  OBVIOUS
<1> DEFINE T == m \cup {e}
           c == Chosen(T)
<1>4. IsFiniteSet(m) /\ IsFiniteSet(T) /\ c \in T /\ T # {}
  <2>1. IsFiniteSet(m)
    BY FS_Subset
  <2>2. IsFiniteSet(T)
    BY <2>1, FS_AddElement
  <2>3. QED
    BY <2>1, <2>2, ChosenIn
<1>5. SumOf(F, T) = F[c] + SumOf(F, T \ {c})
  BY <1>4, SumStep
<1>6. CASE c = e
  <2>1. T \ {c} = m
    BY <1>3, <1>6
  <2>2. QED
    BY <1>3, <1>5, <1>6, <2>1
<1>7. CASE c # e
  <2> DEFINE n == m \ {c}
  <2>1. c \in m /\ n # m /\ n \subseteq m /\ n \in SUBSET S
    BY <1>4, <1>7
  <2>2. n \notin Bad
    BY <1>2, <2>1
  <2>3. SumOf(F, n \cup {e}) = F[e] + SumOf(F, n) /\ SumOf(F, n \cup {c}) = F[c] + SumOf(F, n)
    BY <2>1, <2>2
  <2>4. T \ {c} = n \cup {e} /\ n \cup {c} = m
    BY <1>7, <2>1
  <2>5. SumOf(F, n) \in Int
    BY <1>4, <2>1, SumType, FS_Subset
  <2>6. QED
    <3>1. F[c] \in Int /\ F[e] \in Int
      BY <2>1
    <3>2. SumOf(F, T) = F[c] + (F[e] + SumOf(F, n))
      BY <1>5, <2>3, <2>4
    <3>3. SumOf(F, m) = F[c] + SumOf(F, n)
      BY <2>3, <2>4
    <3>4. SumOf(F, T) # F[e] + SumOf(F, m)
      BY <1>3
    <3> HIDE DEF T, n, c
    <3>5. QED
      BY <2>5, <3>1, <3>2, <3>3, <3>4
<1>8. QED
  BY <1>6, <1>7

\* Any element can be taken out of a sum.
LEMMA SumRemove ==
  ASSUME NEW F, NEW S, IsFiniteSet(S), NEW x \in S, \A y \in S : F[y] \in Int
  PROVE  SumOf(F, S) = F[x] + SumOf(F, S \ {x})
<1>1. IsFiniteSet(S \ {x}) /\ x \notin S \ {x} /\ (S \ {x}) \cup {x} = S
  BY FS_RemoveElement
<1>2. SumOf(F, (S \ {x}) \cup {x}) = F[x] + SumOf(F, S \ {x})
  BY <1>1, SumAdd
<1>3. QED
  BY <1>1, <1>2

\* Functions that agree on a set have the same sum over it.
LEMMA SumSame ==
  ASSUME NEW F, NEW G, NEW S, IsFiniteSet(S), \A x \in S : F[x] = G[x]
  PROVE  SumOf(F, S) = SumOf(G, S)
<1> DEFINE Bad == {u \in SUBSET S : SumOf(F, u) # SumOf(G, u)}
<1> SUFFICES ASSUME Bad # {} PROVE FALSE
  OBVIOUS
<1>1. PICK m \in Bad : \A y \in Bad : y \subseteq m => y = m
  <2>1. Bad \subseteq SUBSET S
    OBVIOUS
  <2> HIDE DEF Bad
  <2>2. QED
    BY <2>1, MinimalSubset
<1>2. m # {}
  BY <1>1, SumEmpty
<1>3. IsFiniteSet(m)
  BY <1>1, FS_Subset
<1>4. Chosen(m) \in m
  BY <1>2, ChosenIn
<1>5. /\ SumOf(F, m) = F[Chosen(m)] + SumOf(F, m \ {Chosen(m)})
      /\ SumOf(G, m) = G[Chosen(m)] + SumOf(G, m \ {Chosen(m)})
  BY <1>2, <1>3, SumStep
<1>6. SumOf(F, m \ {Chosen(m)}) = SumOf(G, m \ {Chosen(m)})
  BY <1>1, <1>4
<1>7. QED
  BY <1>1, <1>4, <1>5, <1>6

\* Sets that do not meet add up.
LEMMA SumUnion ==
  ASSUME NEW F, NEW S, NEW T, IsFiniteSet(S), IsFiniteSet(T), S \cap T = {},
         \A x \in S \cup T : F[x] \in Int
  PROVE  SumOf(F, S \cup T) = SumOf(F, S) + SumOf(F, T)
<1> DEFINE Bad == {u \in SUBSET T : SumOf(F, S \cup u) # SumOf(F, S) + SumOf(F, u)}
<1> SUFFICES ASSUME Bad # {} PROVE FALSE
  OBVIOUS
<1>1. PICK m \in Bad : \A y \in Bad : y \subseteq m => y = m
  <2>1. Bad \subseteq SUBSET T
    OBVIOUS
  <2> HIDE DEF Bad
  <2>2. QED
    BY <2>1, MinimalSubset
<1>2. SumOf(F, S) \in Int
  BY SumType
<1>3. m # {}
  <2>1. S \cup {} = S
    OBVIOUS
  <2>2. QED
    <3>1. SumOf(F, {}) = 0
      BY SumEmpty
    <3>2. SumOf(F, S \cup {}) = SumOf(F, S) + SumOf(F, {})
      BY <1>2, <2>1, <3>1
    <3>3. SumOf(F, S \cup m) # SumOf(F, S) + SumOf(F, m)
      BY <1>1
    <3>4. QED
      BY <3>2, <3>3
<1>4. PICK x \in m : TRUE
  BY <1>3
<1> DEFINE n == m \ {x}
<1>5. n # m /\ n \subseteq m /\ n \in SUBSET T
  OBVIOUS
<1>6. IsFiniteSet(m) /\ IsFiniteSet(n) /\ IsFiniteSet(S \cup m)
  BY <1>1, <1>5, FS_Subset, FS_Union
<1>7. SumOf(F, S \cup n) = SumOf(F, S) + SumOf(F, n)
  BY <1>1, <1>5
<1>8. SumOf(F, m) = F[x] + SumOf(F, n)
  BY <1>1, <1>6, SumRemove
<1>9. (S \cup m) \ {x} = S \cup n
  BY <1>1
<1>10. SumOf(F, S \cup m) = F[x] + SumOf(F, S \cup n)
  <2>1. \A y \in S \cup m : F[y] \in Int
    BY <1>1
  <2>2. SumOf(F, S \cup m) = F[x] + SumOf(F, (S \cup m) \ {x})
    BY <1>6, <2>1, SumRemove
  <2>3. QED
    BY <1>9, <2>2
<1>11. SumOf(F, n) \in Int /\ F[x] \in Int
  BY <1>1, <1>6, <1>5, SumType
<1>12. QED
  BY <1>1, <1>2, <1>7, <1>8, <1>10, <1>11

\* A finite sum of naturals is one.
LEMMA SumNat ==
  ASSUME NEW F, NEW S, IsFiniteSet(S), \A x \in S : F[x] \in Nat
  PROVE  SumOf(F, S) \in Nat
<1> DEFINE Bad == {u \in SUBSET S : SumOf(F, u) \notin Nat}
<1>0. SumOf(F, {}) = 0
  BY SumEmpty
<1> SUFFICES ASSUME Bad # {} PROVE FALSE
  OBVIOUS
<1>1. PICK m \in Bad : \A y \in Bad : y \subseteq m => y = m
  <2>1. Bad \subseteq SUBSET S
    OBVIOUS
  <2> HIDE DEF Bad
  <2>2. QED
    BY <2>1, MinimalSubset
<1>2. m # {}
  <2>1. SumOf(F, m) \notin Nat
    BY <1>1
  <2>2. SumOf(F, {}) \in Nat
    BY <1>0
  <2>3. QED
    BY <2>1, <2>2
<1>3. IsFiniteSet(m)
  BY <1>1, FS_Subset
<1>4. Chosen(m) \in m
  BY <1>2, ChosenIn
<1>5. SumOf(F, m) = F[Chosen(m)] + SumOf(F, m \ {Chosen(m)})
  BY <1>2, <1>3, SumStep
<1>6. SumOf(F, m \ {Chosen(m)}) \in Nat
  BY <1>1, <1>4
<1>7. QED
  BY <1>1, <1>4, <1>5, <1>6

\* Part of a sum of naturals is no more than all of it.
LEMMA SumSubset ==
  ASSUME NEW F, NEW S, IsFiniteSet(S), NEW T \in SUBSET S,
         \A x \in S : F[x] \in Nat
  PROVE  SumOf(F, T) <= SumOf(F, S)
<1>1. IsFiniteSet(T) /\ IsFiniteSet(S \ T) /\ T \cap (S \ T) = {} /\ T \cup (S \ T) = S
  BY FS_Subset, FS_Difference
<1>2. SumOf(F, T) \in Nat /\ SumOf(F, S \ T) \in Nat
  BY <1>1, SumNat
<1>3. SumOf(F, T \cup (S \ T)) = SumOf(F, T) + SumOf(F, S \ T)
  BY <1>1, SumUnion
<1>4. SumOf(F, S) = SumOf(F, T) + SumOf(F, S \ T)
  BY <1>1, <1>3
<1>5. QED
  BY <1>2, <1>4

\* The sums over sets that do not meet add up to the sum over all of them.
LEMMA SumOfSums ==
  ASSUME NEW F, NEW T, IsFiniteSet(T), \A x \in T : F[x] \in Int,
         NEW S, IsFiniteSet(S), NEW R \in [S -> SUBSET T],
         \A s, t \in S : s # t => R[s] \cap R[t] = {}
  PROVE  SumOf([s \in S |-> SumOf(F, R[s])], S) = SumOf(F, UNION {R[s] : s \in S})
<1> DEFINE G == [s \in S |-> SumOf(F, R[s])]
           All(u) == UNION {R[s] : s \in u}
           Bad == {u \in SUBSET S : SumOf(G, u) # SumOf(F, All(u))}
<1>1. /\ SumOf(G, {}) = 0 /\ All({}) = {} /\ SumOf(F, {}) = 0
  BY SumEmpty
<1>2. \A s \in S : R[s] \in SUBSET T /\ IsFiniteSet(R[s]) /\ G[s] = SumOf(F, R[s]) /\ G[s] \in Int
  <2> SUFFICES ASSUME NEW s \in S
               PROVE  R[s] \in SUBSET T /\ IsFiniteSet(R[s]) /\ G[s] = SumOf(F, R[s]) /\ G[s] \in Int
    OBVIOUS
  <2>1. R[s] \in SUBSET T /\ IsFiniteSet(R[s])
    BY FS_Subset
  <2>2. SumOf(F, R[s]) \in Int
    BY <2>1, SumType
  <2>3. QED
    BY <2>1, <2>2
<1>3. \A u \in SUBSET S : All(u) \in SUBSET T /\ IsFiniteSet(All(u))
  BY <1>2, FS_Subset
<1> SUFFICES ASSUME Bad # {} PROVE FALSE
  OBVIOUS
<1>4. PICK m \in Bad : \A y \in Bad : y \subseteq m => y = m
  <2> HIDE DEF G, All
  <2>1. Bad \subseteq SUBSET S
    OBVIOUS
  <2> HIDE DEF Bad
  <2>2. QED
    BY <2>1, MinimalSubset
<1>5. PICK x \in m : TRUE
  <2>1. SumOf(G, m) # SumOf(F, All(m))
    BY <1>4
  <2> HIDE DEF G, All
  <2>2. m # {}
    BY <1>1, <2>1
  <2>3. QED
    BY <2>2
<1> DEFINE r == m \ {x}
<1>6. m \in SUBSET S /\ r \in SUBSET S /\ x \in S /\ r \notin Bad
  BY <1>4, <1>5
<1>7. SumOf(G, m) = G[x] + SumOf(G, r)
  <2>1. IsFiniteSet(m) /\ \A y \in m : G[y] \in Int
    BY <1>2, <1>6, FS_Subset
  <2> HIDE DEF G
  <2>2. QED
    BY <1>5, <2>1, SumRemove
<1>8. SumOf(F, R[x] \cup All(r)) = SumOf(F, R[x]) + SumOf(F, All(r))
  <2>1. IsFiniteSet(R[x]) /\ IsFiniteSet(All(r))
    BY <1>2, <1>3, <1>6
  <2>2. R[x] \cap All(r) = {}
    BY <1>6
  <2>3. \A y \in R[x] \cup All(r) : F[y] \in Int
    BY <1>2, <1>3, <1>6
  <2> HIDE DEF All, r
  <2>4. QED
    BY <2>1, <2>2, <2>3, SumUnion
<1>9. All(m) = R[x] \cup All(r)
  BY <1>5
<1>10. SumOf(G, r) = SumOf(F, All(r)) /\ G[x] = SumOf(F, R[x])
  BY <1>2, <1>6
<1>11. SumOf(G, m) # SumOf(F, All(m))
  BY <1>4
<1> HIDE DEF G, All, r
<1>12. QED
  BY <1>7, <1>8, <1>9, <1>10, <1>11
=============================================================================
