----------------------------- MODULE FiniteSums -----------------------------
(***************************************************************************)
(* Sums of natural numbers over finite sets, the way the specifications    *)
(* write them: MapThenSumSet, a recursive function over the subsets.  The  *)
(* sum of f over S is the number of pairs <<x, i>> with i in 1..f[x], and  *)
(* from that follows what the proofs use: an element can be taken out, a   *)
(* set split, a factor drawn, a bound per element added up.  A fact about  *)
(* every finite set is proved from a smallest set it fails for.            *)
(***************************************************************************)
EXTENDS Integers, FiniteSets, FiniteSetsExt, FiniteSetTheorems, WellFoundedInduction, TLAPS

SumOver(f, S) == MapThenSumSet(LAMBDA x : f[x], S)

\* The pairs that a sum counts.
Copies(f, S) == UNION {{x} \X (1 .. f[x]) : x \in S}

Numbers(f, S) == \A x \in S : f[x] \in Nat

-----------------------------------------------------------------------------

\* Among subsets of a finite set there is a smallest one.
LEMMA SmallestSet ==
    ASSUME NEW S, IsFiniteSet(S), NEW T, T \subseteq SUBSET S, T # {}
    PROVE  \E s \in T : \A t \in T : t \subseteq s => t = s
  <1>1. T \subseteq FiniteSubsetsOf(S)
    BY FS_Subset DEF FiniteSubsetsOf
  <1>2. PICK s \in T : \A t \in T : ~(<<t, s>> \in StrictSubsetOrdering(S))
    BY <1>1, FS_StrictSubsetOrderingWellFounded, WFMin
  <1>3. ASSUME NEW t \in T, t \subseteq s PROVE t = s
    BY <1>2, <1>3 DEF StrictSubsetOrdering
  <1> QED BY <1>3

\* The pairs are finitely many.
LEMMA CopiesFinite ==
    ASSUME NEW S, IsFiniteSet(S), NEW f, Numbers(f, S)
    PROVE  IsFiniteSet(Copies(f, S)) /\ Cardinality(Copies(f, S)) \in Nat
  <1> DEFINE h == [x \in S |-> {x} \X (1 .. f[x])]
             T == {{x} \X (1 .. f[x]) : x \in S}
  <1>1. h \in Surjection(S, T)
    BY DEF Surjection
  <1>2. IsFiniteSet(T)
    BY <1>1, FS_Surjection
  <1>3. ASSUME NEW x \in S PROVE IsFiniteSet({x} \X (1 .. f[x]))
    <2>1. f[x] \in Int
      BY DEF Numbers
    <2>2. IsFiniteSet({x})
      BY FS_Singleton
    <2>3. IsFiniteSet(1 .. f[x])
      BY <2>1, FS_Interval
    <2> QED BY <2>2, <2>3, FS_Product
  <1>4. IsFiniteSet(UNION T)
    BY <1>2, <1>3, FS_UNION
  <1> QED BY <1>4, FS_CardinalityType DEF Copies

\* The pairs of one element, and those of the others.
LEMMA CopiesSplit ==
    ASSUME NEW S, IsFiniteSet(S), NEW f, Numbers(f, S), NEW x \in S
    PROVE  Cardinality(Copies(f, S)) = f[x] + Cardinality(Copies(f, S \ {x}))
  <1> DEFINE A == {x} \X (1 .. f[x])
             B == Copies(f, S \ {x})
  <1>1. IsFiniteSet(A) /\ Cardinality(A) = f[x]
    <2>1. f[x] \in Nat
      BY DEF Numbers
    <2>2. IsFiniteSet(1 .. f[x]) /\ Cardinality(1 .. f[x]) = f[x]
      BY <2>1, FS_Interval
    <2>3. IsFiniteSet({x}) /\ Cardinality({x}) = 1
      BY FS_Singleton
    <2>4. IsFiniteSet(A) /\ Cardinality(A) = 1 * Cardinality(1 .. f[x])
      BY <2>2, <2>3, FS_Product
    <2> QED BY <2>1, <2>2, <2>4
  <1>2. IsFiniteSet(B) /\ Cardinality(B) \in Nat
    BY FS_RemoveElement, CopiesFinite DEF Numbers
  <1>3. A \cap B = {} /\ Copies(f, S) = A \cup B
    <2>1. A \cap B = {}
      BY DEF Copies
    <2>2. Copies(f, S) = A \cup B
      BY DEF Copies
    <2> QED BY <2>1, <2>2
  <1> HIDE DEF A, B
  <1>4. Cardinality(A \cup B) = Cardinality(A) + Cardinality(B) - Cardinality(A \cap B)
    BY <1>1, <1>2, FS_Union
  <1>5. Cardinality(A \cap B) = 0 /\ f[x] \in Nat
    BY <1>3, FS_EmptySet DEF Numbers
  <1> QED BY <1>1, <1>2, <1>3, <1>4, <1>5 DEF B

\* No pairs.
LEMMA CopiesOfNone == ASSUME NEW f PROVE Cardinality(Copies(f, {})) = 0
  <1>1. Copies(f, {}) = {}
    BY DEF Copies
  <1> QED BY <1>1, FS_EmptySet

\* The sum counts the pairs: the recursive function of the definition exists, since
\* counting satisfies its equation, and it has no other solution.
LEMMA SumIsCount ==
    ASSUME NEW S, IsFiniteSet(S), NEW f, Numbers(f, S)
    PROVE  SumOver(f, S) = Cardinality(Copies(f, S))
  <1> DEFINE pick(s) == CHOOSE x \in s : TRUE
             Sums(g) == g = [s \in SUBSET S |-> IF s = {} THEN 0 ELSE f[pick(s)] + g[s \ {pick(s)}]]
             iter == CHOOSE g : Sums(g)
             count == [s \in SUBSET S |-> Cardinality(Copies(f, s))]
  <1>1. SumOver(f, S) = iter[S]
    BY DEF SumOver, MapThenSumSet, MapThenFoldSet
  <1>2. ASSUME NEW s \in SUBSET S, s # {}
        PROVE  /\ pick(s) \in s /\ s \ {pick(s)} \in SUBSET S
               /\ Cardinality(Copies(f, s)) = f[pick(s)] + Cardinality(Copies(f, s \ {pick(s)}))
    <2>1. pick(s) \in s
      BY <1>2
    <2> HIDE DEF pick
    <2>2. IsFiniteSet(s) /\ Numbers(f, s)
      BY FS_Subset DEF Numbers
    <2> QED BY <2>1, <2>2, CopiesSplit
  <1> HIDE DEF pick
  <1>3. Sums(count)
    <2>1. \A s \in SUBSET S :
            Cardinality(Copies(f, s)) = IF s = {} THEN 0 ELSE f[pick(s)] + count[s \ {pick(s)}]
      BY <1>2, CopiesOfNone
    <2> QED BY <2>1
  <1>4. Sums(iter)
    <2> HIDE DEF Sums
    <2> QED BY <1>3
  <1> HIDE DEF iter
  <1>5. \A s \in SUBSET S : iter[s] = IF s = {} THEN 0 ELSE f[pick(s)] + iter[s \ {pick(s)}]
    BY <1>4
  <1> DEFINE Wrong == {s \in SUBSET S : iter[s] # Cardinality(Copies(f, s))}
  <1>6. Wrong = {}
    <2>1. SUFFICES ASSUME Wrong # {} PROVE FALSE
      OBVIOUS
    <2>2. PICK s \in Wrong : \A t \in Wrong : t \subseteq s => t = s
      <3>1. Wrong \subseteq SUBSET S
        OBVIOUS
      <3> HIDE DEF Wrong
      <3> QED BY <2>1, <3>1, SmallestSet
    <2>3. s # {}
      BY <1>5, <2>2, CopiesOfNone
    <2>4. s \ {pick(s)} \in SUBSET S /\ s \ {pick(s)} \notin Wrong
      BY <1>2, <2>2, <2>3
    <2>5. iter[s \ {pick(s)}] = Cardinality(Copies(f, s \ {pick(s)}))
      BY <2>4
    <2> QED BY <1>2, <1>5, <2>2, <2>3, <2>5
  <1>7. iter[S] = Cardinality(Copies(f, S))
    BY <1>6
  <1> QED BY <1>1, <1>7

-----------------------------------------------------------------------------

\* The sum over no elements, and with one element taken out.
LEMMA SumEmpty == ASSUME NEW f PROVE SumOver(f, {}) = 0
BY SumIsCount, CopiesOfNone, FS_EmptySet DEF Numbers

LEMMA SumRemove ==
    ASSUME NEW S, IsFiniteSet(S), NEW f, Numbers(f, S), NEW x \in S
    PROVE  /\ IsFiniteSet(S \ {x}) /\ Numbers(f, S \ {x}) /\ SumOver(f, S \ {x}) \in Nat
           /\ SumOver(f, S) = f[x] + SumOver(f, S \ {x})
  <1>1. IsFiniteSet(S \ {x}) /\ Numbers(f, S \ {x})
    BY FS_RemoveElement DEF Numbers
  <1> QED BY <1>1, SumIsCount, CopiesSplit, CopiesFinite

LEMMA SumNat ==
    ASSUME NEW S, IsFiniteSet(S), NEW f, Numbers(f, S)
    PROVE  SumOver(f, S) \in Nat
BY SumIsCount, CopiesFinite

\* A sum depends on the numbers at its elements only.
LEMMA SumSame ==
    ASSUME NEW S, IsFiniteSet(S), NEW f, Numbers(f, S), NEW g, \A x \in S : f[x] = g[x]
    PROVE  SumOver(f, S) = SumOver(g, S)
  <1>1. Copies(f, S) = Copies(g, S) /\ Numbers(g, S)
    BY DEF Copies, Numbers
  <1> QED BY <1>1, SumIsCount

\* A sum is the sums over two parts.
LEMMA SumSplit ==
    ASSUME NEW S, IsFiniteSet(S), NEW f, Numbers(f, S), NEW T \in SUBSET S
    PROVE  SumOver(f, S) = SumOver(f, T) + SumOver(f, S \ T)
  <1>1. IsFiniteSet(T) /\ IsFiniteSet(S \ T) /\ Numbers(f, T) /\ Numbers(f, S \ T)
    BY FS_Subset, FS_Difference DEF Numbers
  <1>2. Copies(f, S) = Copies(f, T) \cup Copies(f, S \ T)
    BY DEF Copies
  <1>3. Copies(f, T) \cap Copies(f, S \ T) = {}
    BY DEF Copies
  <1>4. /\ IsFiniteSet(Copies(f, T)) /\ IsFiniteSet(Copies(f, S \ T))
        /\ Cardinality(Copies(f, T)) \in Nat /\ Cardinality(Copies(f, S \ T)) \in Nat
    BY <1>1, CopiesFinite
  <1>5. Cardinality(Copies(f, S)) = Cardinality(Copies(f, T)) + Cardinality(Copies(f, S \ T)) - 0
    BY <1>2, <1>3, <1>4, FS_Union, FS_EmptySet
  <1> QED BY <1>1, <1>4, <1>5, SumIsCount

\* Over fewer elements a sum is no greater.
LEMMA SumSubset ==
    ASSUME NEW S, IsFiniteSet(S), NEW f, Numbers(f, S), NEW T \in SUBSET S
    PROVE  SumOver(f, T) \in Nat /\ SumOver(f, T) <= SumOver(f, S)
  <1>1. IsFiniteSet(T) /\ IsFiniteSet(S \ T) /\ Numbers(f, T) /\ Numbers(f, S \ T)
    BY FS_Subset, FS_Difference DEF Numbers
  <1>2. SumOver(f, T) \in Nat /\ SumOver(f, S \ T) \in Nat
    BY <1>1, SumNat
  <1> QED BY <1>2, SumSplit

\* Numbers that are greater by at most c each have a sum that is greater by at most c
\* for every element.
LEMMA SumWithin ==
    ASSUME NEW S, IsFiniteSet(S), NEW f, Numbers(f, S), NEW g, Numbers(g, S),
           NEW c \in Nat, \A x \in S : f[x] <= g[x] + c
    PROVE  SumOver(f, S) <= SumOver(g, S) + c * Cardinality(S)
  <1> DEFINE Wrong == {s \in SUBSET S : ~(SumOver(f, s) <= SumOver(g, s) + c * Cardinality(s))}
  <1>1. Wrong = {}
    <2>1. SUFFICES ASSUME Wrong # {} PROVE FALSE
      OBVIOUS
    <2>2. PICK s \in Wrong : \A t \in Wrong : t \subseteq s => t = s
      <3>1. Wrong \subseteq SUBSET S
        OBVIOUS
      <3> HIDE DEF Wrong
      <3> QED BY <2>1, <3>1, SmallestSet
    <2>3. s \in SUBSET S /\ ~(SumOver(f, s) <= SumOver(g, s) + c * Cardinality(s))
      OBVIOUS
    <2>4. s # {}
      <3>1. c * 0 = 0
        OBVIOUS
      <3> QED BY <2>3, <3>1, SumEmpty, FS_EmptySet
    <2>5. PICK x \in s : TRUE
      BY <2>4
    <2>6. /\ IsFiniteSet(s) /\ Numbers(f, s) /\ Numbers(g, s)
          /\ f[x] \in Nat /\ g[x] \in Nat /\ f[x] <= g[x] + c
      BY <2>3, FS_Subset DEF Numbers
    <2> DEFINE t == s \ {x}
    <2>7. t \in SUBSET S /\ t \notin Wrong
      BY <2>2, <2>3
    <2>8. SumOver(f, t) <= SumOver(g, t) + c * Cardinality(t)
      BY <2>7
    <2>9. /\ SumOver(f, t) \in Nat /\ SumOver(f, s) = f[x] + SumOver(f, t)
          /\ SumOver(g, t) \in Nat /\ SumOver(g, s) = g[x] + SumOver(g, t)
      BY <2>6, SumRemove
    <2>10. Cardinality(t) \in Nat /\ Cardinality(s) = Cardinality(t) + 1
      <3>1. IsFiniteSet(t) /\ Cardinality(t) = Cardinality(s) - 1
        BY <2>5, <2>6, FS_RemoveElement
      <3>2. Cardinality(s) \in Nat /\ Cardinality(t) \in Nat
        BY <2>6, <3>1, FS_CardinalityType
      <3> QED BY <3>1, <3>2
    <2> HIDE DEF t, Wrong
    <2>11. c * Cardinality(s) = c * Cardinality(t) + c /\ c * Cardinality(t) \in Nat
      <3>1. ASSUME NEW m \in Nat PROVE c * (m + 1) = c * m + c /\ c * m \in Nat
        OBVIOUS
      <3> QED BY <2>10, <3>1
    <2> QED BY <2>3, <2>6, <2>8, <2>9, <2>11
  <1>2. S \notin Wrong
    BY <1>1
  <1> QED BY <1>2

\* Numbers that are no greater have a sum that is no greater.
LEMMA SumBelow ==
    ASSUME NEW S, IsFiniteSet(S), NEW f, Numbers(f, S), NEW g, Numbers(g, S),
           \A x \in S : f[x] <= g[x]
    PROVE  SumOver(f, S) <= SumOver(g, S)
  <1>1. \A x \in S : f[x] <= g[x] + 0
    BY DEF Numbers
  <1>2. SumOver(f, S) <= SumOver(g, S) + 0 * Cardinality(S)
    BY <1>1, SumWithin
  <1>3. SumOver(g, S) \in Nat /\ Cardinality(S) \in Nat
    BY SumNat, FS_CardinalityType
  <1> QED BY <1>2, <1>3

\* A common factor of the numbers is a factor of the sum.
LEMMA SumScale ==
    ASSUME NEW S, IsFiniteSet(S), NEW f, Numbers(f, S), NEW c \in Nat, NEW g,
           \A x \in S : g[x] = f[x] * c
    PROVE  SumOver(g, S) = SumOver(f, S) * c /\ Numbers(g, S)
  <1>1. Numbers(g, S)
    BY DEF Numbers
  <1> DEFINE Wrong == {s \in SUBSET S : SumOver(g, s) # SumOver(f, s) * c}
  <1>2. Wrong = {}
    <2>1. SUFFICES ASSUME Wrong # {} PROVE FALSE
      OBVIOUS
    <2>2. PICK s \in Wrong : \A t \in Wrong : t \subseteq s => t = s
      <3>1. Wrong \subseteq SUBSET S
        OBVIOUS
      <3> HIDE DEF Wrong
      <3> QED BY <2>1, <3>1, SmallestSet
    <2>3. s \in SUBSET S /\ SumOver(g, s) # SumOver(f, s) * c
      OBVIOUS
    <2>4. s # {}
      BY <2>3, SumEmpty
    <2>5. PICK x \in s : TRUE
      BY <2>4
    <2>6. IsFiniteSet(s) /\ Numbers(f, s) /\ Numbers(g, s) /\ f[x] \in Nat /\ g[x] = f[x] * c
      BY <1>1, <2>3, FS_Subset DEF Numbers
    <2> DEFINE t == s \ {x}
    <2>7. t \in SUBSET S /\ t \notin Wrong
      BY <2>2, <2>3
    <2>8. SumOver(g, t) = SumOver(f, t) * c
      BY <2>7
    <2>9. /\ SumOver(f, t) \in Nat /\ SumOver(f, s) = f[x] + SumOver(f, t)
          /\ SumOver(g, t) \in Nat /\ SumOver(g, s) = g[x] + SumOver(g, t)
      BY <2>6, SumRemove
    <2> HIDE DEF t, Wrong
    <2>10. ASSUME NEW m \in Nat, NEW n \in Nat PROVE (m + n) * c = m * c + n * c
      OBVIOUS
    <2> QED BY <2>3, <2>6, <2>8, <2>9, <2>10
  <1>3. S \notin Wrong
    BY <1>2
  <1> QED BY <1>1, <1>3
=============================================================================
