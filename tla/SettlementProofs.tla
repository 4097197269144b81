-------------------------- MODULE SettlementProofs --------------------------
(***************************************************************************)
(* The safety properties of Settlement for every set of accounts,          *)
(* documents, rows, cheques and sessions.                                  *)
(***************************************************************************)
EXTENDS SettlementSerial, FiniteSetTheorems, SequenceTheorems, TLAPS

-----------------------------------------------------------------------------
(* Sums over finite sets, and the first and the last of one. *)

(* The fold behind a sum picks one element after the other.                 *)
PartialSums(F, sum, S) ==
    sum = [T \in SUBSET S |-> IF T = {} THEN 0
                              ELSE F[CHOOSE x \in T : TRUE] + sum[T \ {CHOOSE x \in T : TRUE}]]

LEMMA SumIsPartial ==
    ASSUME NEW F, NEW S
    PROVE  SumFunctionOnSet(F, S) = (CHOOSE sum : PartialSums(F, sum, S))[S]
BY Zenon DEF SumFunctionOnSet, FoldFunctionOnSet, MapThenFoldSet, PartialSums

(* Induction over a finite set: of the sets that lack something one lacks it *)
(* first.                                                                   *)
LEMMA SmallestSet ==
    ASSUME NEW S, IsFiniteSet(S), NEW Bad \in SUBSET SUBSET S, Bad # {}
    PROVE  \E T \in Bad : \A U \in SUBSET T : U # T => U \notin Bad
<1>1. IsWellFoundedOn(StrictSubsetOrdering(S), FiniteSubsetsOf(S))
      BY FS_StrictSubsetOrderingWellFounded
<1>2. Bad \subseteq FiniteSubsetsOf(S)
      BY FS_Subset DEF FiniteSubsetsOf
<1>3. PICK T \in Bad : \A U \in Bad : ~ (<<U, T>> \in StrictSubsetOrdering(S))
      BY <1>1, <1>2, WFMin
<1>4. QED
      BY <1>3 DEF StrictSubsetOrdering

LEMMA PartialsAgree ==
    ASSUME NEW S, IsFiniteSet(S), NEW F, NEW A \in SUBSET S, NEW B \in SUBSET S,
           NEW f, NEW g, PartialSums(F, f, A), PartialSums(F, g, B)
    PROVE  \A T \in SUBSET (A \cap B) : f[T] = g[T]
<1> DEFINE Bad == {T \in SUBSET (A \cap B) : f[T] # g[T]}
<1>1. SUFFICES ASSUME Bad # {} PROVE FALSE
      OBVIOUS
<1>a. Bad \in SUBSET SUBSET S
      OBVIOUS
<1>2. PICK T \in Bad : \A U \in SUBSET T : U # T => U \notin Bad
  <2> HIDE DEF Bad
  <2>1. QED
        BY <1>1, <1>a, SmallestSet
<1> DEFINE x == CHOOSE x \in T : TRUE
<1>3. T \in SUBSET A /\ T \in SUBSET B
      BY <1>2
<1>4. /\ f[T] = IF T = {} THEN 0 ELSE F[x] + f[T \ {x}]
      /\ g[T] = IF T = {} THEN 0 ELSE F[x] + g[T \ {x}]
      BY <1>3 DEF PartialSums
<1>5. T # {}
      BY <1>2, <1>4
<1>6. x \in T
      BY <1>5
<1>7. T \ {x} \notin Bad
      BY <1>2, <1>6
<1>8. f[T \ {x}] = g[T \ {x}]
      BY <1>2, <1>7
<1>9. QED
      BY <1>2, <1>4, <1>5, <1>8

LEMMA PartialsExist ==
    ASSUME NEW S, IsFiniteSet(S), NEW F
    PROVE  \A A \in SUBSET S : \E sum : PartialSums(F, sum, A)
<1> DEFINE Bad == {A \in SUBSET S : ~ \E sum : PartialSums(F, sum, A)}
           Of(A) == CHOOSE sum : PartialSums(F, sum, A)
           x(T) == CHOOSE y \in T : TRUE
<1>1. SUFFICES ASSUME Bad # {} PROVE FALSE
      OBVIOUS
<1>2. Bad \in SUBSET SUBSET S
      OBVIOUS
<1>3. PICK A \in Bad : \A U \in SUBSET A : U # A => U \notin Bad
  <2> HIDE DEF Bad
  <2>1. QED
        BY <1>1, <1>2, SmallestSet
<1>4. \A U \in SUBSET A : U # A => PartialSums(F, Of(U), U)
      BY <1>3
<1>5. \A T \in SUBSET A : T # {} => x(T) \in T
      OBVIOUS
<1> DEFINE sum == [T \in SUBSET A |-> IF T = {} THEN 0 ELSE F[x(T)] + Of(T \ {x(T)})[T \ {x(T)}]]
<1>6. \A T \in SUBSET A : T # {} => sum[T] = F[x(T)] + Of(T \ {x(T)})[T \ {x(T)}]
  <2> HIDE DEF Of, x
  <2>1. QED
        OBVIOUS
<1>7. sum[{}] = 0
  <2> HIDE DEF Of, x
  <2>1. QED
        OBVIOUS
<1>8. \A U \in SUBSET A : U # A =>
          \A T \in SUBSET U : Of(U)[T] = IF T = {} THEN 0 ELSE F[x(T)] + Of(U)[T \ {x(T)}]
  <2>1. SUFFICES ASSUME NEW U \in SUBSET A, U # A, NEW T \in SUBSET U
                 PROVE  Of(U)[T] = IF T = {} THEN 0 ELSE F[x(T)] + Of(U)[T \ {x(T)}]
        OBVIOUS
  <2>2. PartialSums(F, Of(U), U)
        BY <1>4, <2>1
  <2> HIDE DEF Of
  <2>3. QED
        BY <2>2 DEF PartialSums
<1> HIDE DEF sum, x
<1>9. ASSUME NEW T \in SUBSET A, T # {}
      PROVE  sum[T \ {x(T)}] = Of(T \ {x(T)})[T \ {x(T)}]
  <2> DEFINE U == T \ {x(T)}
  <2>1. U \in SUBSET A /\ U # A
        BY <1>5, <1>9
  <2> HIDE DEF Of, U
  <2>2. CASE U = {}
    <3>1. Of(U)[U] = 0
          BY <1>8, <2>1, <2>2
    <3>2. QED
          BY <1>7, <2>2, <3>1 DEF U
  <2>3. CASE U # {}
    <3> DEFINE V == U \ {x(U)}
    <3>1. x(U) \in U /\ V \in SUBSET A /\ V # A /\ V \in SUBSET U
          BY <1>5, <2>1, <2>3
    <3>2. PartialSums(F, Of(V), V) /\ PartialSums(F, Of(U), U)
          BY <1>4, <2>1, <3>1
    <3>3. Of(U)[U] = F[x(U)] + Of(U)[V]
          BY <1>8, <2>1, <2>3
    <3>4. U \in SUBSET S /\ V \in SUBSET S
          BY <1>2, <2>1, <3>1
    <3> HIDE DEF V
    <3>5. \A W \in SUBSET (U \cap V) : Of(U)[W] = Of(V)[W]
          BY <3>2, <3>4, PartialsAgree
    <3>6. Of(U)[V] = Of(V)[V]
          BY <3>1, <3>5
    <3>7. sum[U] = F[x(U)] + Of(V)[V]
          BY <1>6, <2>1, <2>3 DEF V
    <3>8. QED
          BY <3>3, <3>6, <3>7 DEF U
  <2>4. QED
        BY <2>2, <2>3
<1>10. \A T \in SUBSET A : sum[T] = IF T = {} THEN 0 ELSE F[x(T)] + sum[T \ {x(T)}]
      BY <1>6, <1>7, <1>9
<1>11. sum = [T \in SUBSET A |-> sum[T]]
      BY DEF sum
<1>12. sum = [T \in SUBSET A |-> IF T = {} THEN 0 ELSE F[x(T)] + sum[T \ {x(T)}]]
      BY <1>10, <1>11
<1>13. PartialSums(F, sum, A)
      BY <1>12 DEF PartialSums, x
<1>14. QED
      BY <1>3, <1>13

(* A sum adds what one element has to the sum of the others; which one the  *)
(* fold picked first is settled by SumOfOne below.                          *)
LEMMA SumPicks ==
    ASSUME NEW S, IsFiniteSet(S), NEW F
    PROVE  SumFunctionOnSet(F, S) =
              IF S = {} THEN 0
              ELSE F[CHOOSE x \in S : TRUE] + SumFunctionOnSet(F, S \ {CHOOSE x \in S : TRUE})
<1> DEFINE Of(A) == CHOOSE sum : PartialSums(F, sum, A)
           x == CHOOSE x \in S : TRUE
           U == S \ {x}
<1>1. S \in SUBSET S /\ U \in SUBSET S
      OBVIOUS
<1>2. PartialSums(F, Of(S), S) /\ PartialSums(F, Of(U), U)
      BY <1>1, PartialsExist
<1>3. SumFunctionOnSet(F, S) = Of(S)[S] /\ SumFunctionOnSet(F, U) = Of(U)[U]
      BY SumIsPartial
<1> HIDE DEF Of
<1>4. Of(S)[S] = IF S = {} THEN 0 ELSE F[x] + Of(S)[U]
      BY <1>1, <1>2 DEF PartialSums
<1>5. Of(S)[U] = Of(U)[U]
  <2> HIDE DEF U
  <2>1. \A T \in SUBSET (S \cap U) : Of(S)[T] = Of(U)[T]
        BY <1>1, <1>2, PartialsAgree
  <2>2. QED
        BY <1>1, <2>1
<1>6. QED
      BY <1>3, <1>4, <1>5

LEMMA SumOfNone == \A F : SumFunctionOnSet(F, {}) = 0
<1>1. ASSUME NEW F PROVE SumFunctionOnSet(F, {}) = 0
  <2>1. IsFiniteSet({})
        BY FS_EmptySet
  <2>2. QED
        BY <2>1, SumPicks
<1>2. QED
      BY <1>1

LEMMA SumType ==
    ASSUME NEW S, IsFiniteSet(S), NEW F, \A x \in S : F[x] \in Int
    PROVE  SumFunctionOnSet(F, S) \in Int
<1> DEFINE Bad == {T \in SUBSET S : SumFunctionOnSet(F, T) \notin Int}
<1>1. SUFFICES ASSUME Bad # {} PROVE FALSE
      OBVIOUS
<1>2. Bad \in SUBSET SUBSET S
      OBVIOUS
<1>3. PICK T \in Bad : \A U \in SUBSET T : U # T => U \notin Bad
  <2> HIDE DEF Bad
  <2>1. QED
        BY <1>1, <1>2, SmallestSet
<1>4. PICK x : x = CHOOSE y \in T : TRUE
      OBVIOUS
<1>5. IsFiniteSet(T)
      BY <1>2, FS_Subset
<1>6. SumFunctionOnSet(F, T) = IF T = {} THEN 0 ELSE F[x] + SumFunctionOnSet(F, T \ {x})
      BY <1>4, <1>5, SumPicks
<1>7. T # {}
      BY <1>6
<1>8. x \in T
      BY <1>4, <1>7
<1>9. SumFunctionOnSet(F, T \ {x}) \in Int
      BY <1>3, <1>8
<1>10. QED
      BY <1>6, <1>7, <1>8, <1>9

LEMMA SumOfOne ==
    ASSUME NEW S, IsFiniteSet(S), NEW F, \A x \in S : F[x] \in Int, NEW x \in S
    PROVE  SumFunctionOnSet(F, S) = F[x] + SumFunctionOnSet(F, S \ {x})
<1> DEFINE Bad == {T \in SUBSET S : \E y \in T : SumFunctionOnSet(F, T) # F[y] + SumFunctionOnSet(F, T \ {y})}
<1>1. SUFFICES ASSUME Bad # {} PROVE FALSE
      OBVIOUS
<1>2. Bad \in SUBSET SUBSET S
      OBVIOUS
<1>3. PICK T \in Bad : \A U \in SUBSET T : U # T => U \notin Bad
  <2> HIDE DEF Bad
  <2>1. QED
        BY <1>1, <1>2, SmallestSet
<1>4. PICK y \in T : SumFunctionOnSet(F, T) # F[y] + SumFunctionOnSet(F, T \ {y})
      OBVIOUS
<1>5. PICK z : z = CHOOSE u \in T : TRUE
      OBVIOUS
<1>6. z \in T
      BY <1>4, <1>5
<1>7. IsFiniteSet(T) /\ IsFiniteSet(T \ {y}) /\ IsFiniteSet(T \ {z}) /\ IsFiniteSet((T \ {y}) \ {z})
      BY <1>2, FS_Subset
<1>8. SumFunctionOnSet(F, T) = F[z] + SumFunctionOnSet(F, T \ {z})
      BY <1>5, <1>6, <1>7, SumPicks
<1>9. y # z
      BY <1>4, <1>8
<1>10. T \ {z} \notin Bad /\ T \ {y} \notin Bad
      BY <1>3, <1>4, <1>6
<1>11. SumFunctionOnSet(F, T \ {z}) = F[y] + SumFunctionOnSet(F, (T \ {z}) \ {y})
      BY <1>4, <1>9, <1>10
<1>12. SumFunctionOnSet(F, T \ {y}) = F[z] + SumFunctionOnSet(F, (T \ {y}) \ {z})
      BY <1>4, <1>6, <1>9, <1>10
<1>13. (T \ {z}) \ {y} = (T \ {y}) \ {z}
      OBVIOUS
<1>14. SumFunctionOnSet(F, (T \ {y}) \ {z}) \in Int
      BY <1>7, SumType
<1>15. F[y] \in Int /\ F[z] \in Int
      BY <1>4, <1>6
<1>16. SumFunctionOnSet(F, T) = F[y] + SumFunctionOnSet(F, T \ {y})
  <2>1. \A a, b, c \in Int : c + (a + b) = a + (c + b)
        OBVIOUS
  <2>2. F[z] + (F[y] + SumFunctionOnSet(F, (T \ {y}) \ {z})) = F[y] + (F[z] + SumFunctionOnSet(F, (T \ {y}) \ {z}))
    <3> HIDE DEF Bad
    <3>1. QED
          BY <1>14, <1>15, <2>1, Zenon
  <2>3. QED
        BY <1>8, <1>11, <1>12, <1>13, <2>2, Zenon
<1>17. QED
      BY <1>4, <1>16

LEMMA SumSame ==
    ASSUME NEW S, IsFiniteSet(S), NEW F, NEW G, \A x \in S : F[x] = G[x]
    PROVE  SumFunctionOnSet(F, S) = SumFunctionOnSet(G, S)
<1> DEFINE Bad == {T \in SUBSET S : SumFunctionOnSet(F, T) # SumFunctionOnSet(G, T)}
<1>1. SUFFICES ASSUME Bad # {} PROVE FALSE
      OBVIOUS
<1>2. Bad \in SUBSET SUBSET S
      OBVIOUS
<1>3. PICK T \in Bad : \A U \in SUBSET T : U # T => U \notin Bad
  <2> HIDE DEF Bad
  <2>1. QED
        BY <1>1, <1>2, SmallestSet
<1>4. PICK x : x = CHOOSE y \in T : TRUE
      OBVIOUS
<1>5. IsFiniteSet(T)
      BY <1>2, FS_Subset
<1>6. /\ SumFunctionOnSet(F, T) = IF T = {} THEN 0 ELSE F[x] + SumFunctionOnSet(F, T \ {x})
      /\ SumFunctionOnSet(G, T) = IF T = {} THEN 0 ELSE G[x] + SumFunctionOnSet(G, T \ {x})
      BY <1>4, <1>5, SumPicks
<1>7. T # {}
      BY <1>3, <1>6
<1>8. x \in T
      BY <1>4, <1>7
<1>9. SumFunctionOnSet(F, T \ {x}) = SumFunctionOnSet(G, T \ {x})
      BY <1>3, <1>8
<1>10. QED
      BY <1>3, <1>6, <1>7, <1>8, <1>9

(* Terms that are nothing may be left out.                                  *)
LEMMA SumWithout ==
    ASSUME NEW S, IsFiniteSet(S), NEW F, \A x \in S : F[x] \in Int,
           NEW T \in SUBSET S, \A x \in S \ T : F[x] = 0
    PROVE  SumFunctionOnSet(F, S) = SumFunctionOnSet(F, T)
<1> DEFINE Bad == {U \in SUBSET S : T \subseteq U /\ SumFunctionOnSet(F, U) # SumFunctionOnSet(F, T)}
<1>1. SUFFICES ASSUME Bad # {} PROVE FALSE
      OBVIOUS
<1>2. Bad \in SUBSET SUBSET S
      OBVIOUS
<1>3. PICK U \in Bad : \A R \in SUBSET U : R # U => R \notin Bad
  <2> HIDE DEF Bad
  <2>1. QED
        BY <1>1, <1>2, SmallestSet
<1>4. PICK x \in U \ T : TRUE
      OBVIOUS
<1>5. IsFiniteSet(U) /\ IsFiniteSet(U \ {x}) /\ \A y \in U : F[y] \in Int
      BY <1>2, FS_Subset
<1>6. SumFunctionOnSet(F, U) = F[x] + SumFunctionOnSet(F, U \ {x})
      BY <1>4, <1>5, SumOfOne
<1>7. F[x] = 0 /\ SumFunctionOnSet(F, U \ {x}) \in Int
      BY <1>4, <1>5, SumType
<1>8. U \ {x} \notin Bad /\ T \subseteq U \ {x}
      BY <1>3, <1>4
<1>9. QED
      BY <1>3, <1>6, <1>7, <1>8

(* What is not negative adds up to nothing negative.                        *)
LEMMA SumOfNaturals ==
    ASSUME NEW S, IsFiniteSet(S), NEW F, \A x \in S : F[x] \in Nat
    PROVE  SumFunctionOnSet(F, S) \in Nat
<1> DEFINE Bad == {U \in SUBSET S : SumFunctionOnSet(F, U) \notin Nat}
<1>1. SUFFICES ASSUME Bad # {} PROVE FALSE
      OBVIOUS
<1>2. Bad \in SUBSET SUBSET S
      OBVIOUS
<1>3. PICK U \in Bad : \A R \in SUBSET U : R # U => R \notin Bad
  <2> HIDE DEF Bad
  <2>1. QED
        BY <1>1, <1>2, SmallestSet
<1>10. SumFunctionOnSet(F, {}) \in Nat
      BY SumOfNone
<1>11. U # {}
  <2>1. SumFunctionOnSet(F, U) \notin Nat
        BY <1>3
  <2>2. QED
        BY <1>10, <2>1, Zenon
<1>4. PICK x \in U : TRUE
      BY <1>11
<1>5. IsFiniteSet(U) /\ \A y \in U : F[y] \in Int
      BY <1>2, FS_Subset
<1>6. SumFunctionOnSet(F, U) = F[x] + SumFunctionOnSet(F, U \ {x})
      BY <1>4, <1>5, SumOfOne
<1>7. SumFunctionOnSet(F, U \ {x}) \in Nat
      BY <1>3, <1>4
<1>8. QED
      BY <1>3, <1>4, <1>6, <1>7

(* Of elements with a key one is last.                                      *)
LEMMA LastOfSet ==
    ASSUME NEW S, IsFiniteSet(S), S # {}, NEW key \in [S -> Int]
    PROVE  \E m \in S : \A x \in S : key[x] <= key[m]
<1> DEFINE Bad == {T \in SUBSET S : T # {} /\ ~ \E m \in T : \A x \in T : key[x] <= key[m]}
<1>1. SUFFICES ASSUME Bad # {} PROVE FALSE
      OBVIOUS
<1>2. Bad \in SUBSET SUBSET S
      OBVIOUS
<1>3. PICK T \in Bad : \A U \in SUBSET T : U # T => U \notin Bad
  <2> HIDE DEF Bad
  <2>1. QED
        BY <1>1, <1>2, SmallestSet
<1>4. PICK x \in T : TRUE
      OBVIOUS
<1>5. \A z \in T : key[z] \in Int
      OBVIOUS
<1>6. CASE T \ {x} = {}
  <2>1. \A z \in T : z = x
        BY <1>6
  <2>2. QED
        BY <1>4, <1>5, <2>1
<1>7. CASE T \ {x} # {}
  <2>a. T \ {x} \notin Bad
    <3> HIDE DEF Bad
    <3>1. T \ {x} \in SUBSET T /\ T \ {x} # T
          BY <1>4
    <3>2. QED
          BY <1>3, <3>1
  <2>b. T \ {x} \in SUBSET S
        BY <1>3
  <2>1. PICK m \in T \ {x} : \A z \in T \ {x} : key[z] <= key[m]
        BY <1>7, <2>a, <2>b
  <2>2. CASE key[x] <= key[m]
        BY <1>5, <2>1, <2>2
  <2>3. CASE ~ (key[x] <= key[m])
    <3>1. \A z \in T : key[z] <= key[x]
          BY <1>4, <1>5, <2>1, <2>3
    <3>2. QED
          BY <1>4, <3>1
  <2>4. QED
        BY <2>2, <2>3
<1>8. QED
      BY <1>6, <1>7

(* A finite nonempty set of numbers has a maximum and a minimum.            *)
LEMMA MaxOfFinite ==
    ASSUME NEW S \in SUBSET Int, IsFiniteSet(S), S # {}
    PROVE  Max(S) \in S /\ \A y \in S : y <= Max(S)
<1> DEFINE key == [x \in S |-> x]
<1>1. key \in [S -> Int]
      OBVIOUS
<1>2. \E m \in S : \A x \in S : key[x] <= key[m]
  <2> HIDE DEF key
  <2>1. QED
        BY <1>1, LastOfSet
<1>3. \E m \in S : \A x \in S : m >= x
      BY <1>2
<1>4. Max(S) \in S /\ \A x \in S : Max(S) >= x
      BY <1>3 DEF Max
<1>5. QED
      BY <1>4

LEMMA NthOfSet ==
    ASSUME NEW S, IsFiniteSet(S), NEW key \in [S -> Int], \A x, y \in S : key[x] = key[y] => x = y
    PROVE  \A n \in 1..Cardinality(S) : \E x \in S : Cardinality({y \in S : key[y] < key[x]}) = n - 1
<1> DEFINE Before(T, x) == {y \in T : key[y] < key[x]}
           Bad == {T \in SUBSET S : \E n \in 1..Cardinality(T) : \A x \in T : Cardinality(Before(T, x)) # n - 1}
<1>1. SUFFICES ASSUME Bad # {} PROVE FALSE
  <2>1. ASSUME NEW n \in 1..Cardinality(S), \A x \in S : Cardinality(Before(S, x)) # n - 1 PROVE S \in Bad
    <3> HIDE DEF Before
    <3>1. QED
          BY <2>1
  <2>2. QED
        BY <2>1
<1>2. Bad \in SUBSET SUBSET S
      OBVIOUS
<1>3. PICK T \in Bad : \A U \in SUBSET T : U # T => U \notin Bad
  <2> HIDE DEF Bad
  <2>1. QED
        BY <1>1, <1>2, SmallestSet
<1>4. PICK n \in 1..Cardinality(T) : \A x \in T : Cardinality(Before(T, x)) # n - 1
      OBVIOUS
<1>5. IsFiniteSet(T) /\ T \in SUBSET S
      BY <1>3, FS_Subset
<1>6. Cardinality(T) \in Nat /\ n \in Nat /\ n >= 1 /\ n <= Cardinality(T)
      BY <1>4, <1>5, FS_CardinalityType
<1>7. T # {}
      BY <1>6, FS_EmptySet
<1>8. PICK m \in T : \A x \in T : key[x] <= key[m]
  <2>1. PICK k : k = [x \in T |-> key[x]]
        OBVIOUS
  <2>2. k \in [T -> Int] /\ \A x \in T : k[x] = key[x]
        BY <1>5, <2>1
  <2>3. \E m \in T : \A x \in T : k[x] <= k[m]
        BY <1>5, <1>7, <2>2, LastOfSet
  <2>4. QED
        BY <2>2, <2>3
<1>9. PICK U : U = T \ {m}
      OBVIOUS
<1>10. IsFiniteSet(U) /\ Cardinality(U) = Cardinality(T) - 1 /\ U \in SUBSET T /\ U # T /\ U \in SUBSET S
      BY <1>5, <1>8, <1>9, FS_RemoveElement
<1>11. \A x \in T : key[x] \in Int
      BY <1>5
<1>12. CASE n = Cardinality(T)
  <2>1. Before(T, m) = U
        BY <1>5, <1>8, <1>9, <1>11
  <2>2. Cardinality(Before(T, m)) = n - 1
        BY <1>10, <1>12, <2>1
  <2>3. QED
        BY <1>4, <1>8, <2>2
<1>13. CASE n # Cardinality(T)
  <2>1. n \in 1..Cardinality(U)
        BY <1>6, <1>10, <1>13
  <2>2. PICK x \in U : Cardinality(Before(U, x)) = n - 1
        BY <1>3, <1>10, <2>1
  <2>3. ~ (key[m] < key[x])
        BY <1>8, <1>9, <1>11, <2>2
  <2>4. Before(T, x) = Before(U, x)
        BY <1>9, <2>3
  <2>5. QED
        BY <1>4, <1>9, <2>2, <2>4
<1>14. QED
      BY <1>12, <1>13

-----------------------------------------------------------------------------
(* Lists of locks: in one order, and with every lock that was asked for.    *)

Kinds == {"bank", "cheque", "doc", "row"}
RankOf == [on \in Kinds |-> IF on = "bank" THEN 1 ELSE IF on = "cheque" THEN 2 ELSE IF on = "doc" THEN 3 ELSE 4]
Before(a, b) == RankOf[a.on] < RankOf[b.on] \/ (a.on = b.on /\ a.id < b.id)
Listed(q) == {q[i] : i \in 1..Len(q)}
Ascending(q) == \A i, j \in 1..Len(q) : i < j => Before(q[i], q[j])
LocksOn(on, ids, mode) == {[on |-> on, id |-> x, mode |-> mode] : x \in ids}

(* Ids are counted in ascending order.                                      *)
LEMMA InOrderIs ==
    ASSUME NEW on \in Kinds, NEW ids \in SUBSET Nat, IsFiniteSet(ids), NEW mode \in 1..4
    PROVE  LET q == InOrder(on, ids, mode) IN
           q \in Seq(Locks) /\ Ascending(q) /\ Listed(q) = LocksOn(on, ids, mode)
<1> DEFINE Less(x) == {y \in ids : y < x}
<1>1. Cardinality(ids) \in Nat /\ \A x \in ids : x \in Nat
  BY FS_CardinalityType
<1>2. ASSUME NEW x \in ids, NEW y \in ids, x < y
      PROVE  Cardinality(Less(x)) < Cardinality(Less(y))
  <2>a. x \in Nat /\ y \in Nat /\ Less(x) \in SUBSET Nat
    BY <1>1
  <2>b. \A z \in Nat : z < x => z < y
    BY <1>2, <2>a
  <2>1. Less(x) \in SUBSET Less(y) /\ x \in Less(y) /\ x \notin Less(x)
    BY <1>2, <2>a, <2>b
  <2>c. IsFiniteSet(Less(y))
    BY FS_Subset
  <2> HIDE DEF Less
  <2>2. Less(x) # Less(y) /\ IsFiniteSet(Less(y))
    BY <2>1, <2>c
  <2> QED BY <2>1, <2>2, FS_Subset, FS_CardinalityType
<1>3. \A x \in ids : Cardinality(Less(x)) \in Nat
  BY <1>1, FS_Subset, FS_CardinalityType
<1>4. \A x, y \in ids : /\ Cardinality(Less(x)) = Cardinality(Less(y)) => x = y
                        /\ Cardinality(Less(x)) < Cardinality(Less(y)) => x < y
  <2> HIDE DEF Less
  <2> QED BY <1>1, <1>2, <1>3
<1>5. \A n \in 1..Cardinality(ids) : \E x \in ids : Cardinality(Less(x)) = n - 1
  <2>1. PICK key : key = [x \in ids |-> x]
    OBVIOUS
  <2>2. key \in [ids -> Int] /\ (\A x, y \in ids : key[x] = key[y] => x = y)
    BY <1>1, <2>1
  <2>3. \A n \in 1..Cardinality(ids) : \E x \in ids : Cardinality({y \in ids : key[y] < key[x]}) = n - 1
    BY <2>2, NthOfSet
  <2>4. \A x \in ids : {y \in ids : key[y] < key[x]} = Less(x)
    BY <2>1
  <2> QED BY <2>3, <2>4
<1>6. ASSUME NEW x \in ids PROVE Cardinality(Less(x)) + 1 \in 1..Cardinality(ids)
  <2>1. Less(x) \in SUBSET ids /\ x \notin Less(x)
    BY <1>1
  <2> HIDE DEF Less
  <2>2. Less(x) # ids
    BY <2>1
  <2>3. Cardinality(Less(x)) < Cardinality(ids)
    BY <2>1, <2>2, FS_Subset, FS_CardinalityType
  <2> QED BY <1>1, <1>3, <2>3
<1> DEFINE Nth(n) == CHOOSE x \in ids : Cardinality(Less(x)) = n - 1
<1>7. \A n \in 1..Cardinality(ids) : Nth(n) \in ids /\ Cardinality(Less(Nth(n))) = n - 1
  <2> HIDE DEF Less
  <2> QED BY <1>5
<1>8. PICK q : q = InOrder(on, ids, mode)
  OBVIOUS
<1>9. q = [n \in 1..Cardinality(ids) |-> [on |-> on, id |-> Nth(n), mode |-> mode]]
  BY <1>8 DEF InOrder
<1> HIDE DEF Less, Nth
<1>10. \A n \in 1..Cardinality(ids) : q[n] = [on |-> on, id |-> Nth(n), mode |-> mode] /\ q[n] \in Locks
  BY <1>1, <1>7, <1>9 DEF Locks, Kinds
<1>11. q \in Seq(Locks) /\ Len(q) = Cardinality(ids)
  <2>1. q \in [1..Cardinality(ids) -> Locks]
    BY <1>9, <1>10
  <2> QED BY <1>1, <2>1
<1>12. Ascending(q)
  <2>1. ASSUME NEW i \in 1..Cardinality(ids), NEW j \in 1..Cardinality(ids), i < j PROVE Nth(i) < Nth(j)
    <3>1. Nth(i) \in ids /\ Nth(j) \in ids /\ Cardinality(Less(Nth(i))) = i - 1 /\ Cardinality(Less(Nth(j))) = j - 1
      BY <1>7
    <3>2. i - 1 < j - 1
      BY <1>1, <2>1
    <3>3. Cardinality(Less(Nth(i))) < Cardinality(Less(Nth(j)))
      BY <3>1, <3>2
    <3>4. PICK x \in ids : x = Nth(i)
      BY <3>1
    <3>5. PICK y \in ids : y = Nth(j)
      BY <3>1
    <3> QED BY <1>4, <3>3, <3>4, <3>5
  <2> QED BY <1>10, <1>11, <2>1 DEF Ascending, Before
<1>13. Listed(q) = LocksOn(on, ids, mode)
  <2>1. ASSUME NEW i \in 1..Cardinality(ids) PROVE q[i] \in LocksOn(on, ids, mode)
    BY <1>7, <1>10 DEF LocksOn
  <2>2. ASSUME NEW x \in ids PROVE \E i \in 1..Cardinality(ids) : q[i] = [on |-> on, id |-> x, mode |-> mode]
    <3>1. PICK i : i = Cardinality(Less(x)) + 1
      OBVIOUS
    <3>2. i \in 1..Cardinality(ids) /\ Cardinality(Less(x)) = i - 1
      BY <1>3, <1>6, <3>1
    <3>3. Nth(i) = x
      BY <1>4, <1>7, <3>2
    <3> QED BY <1>10, <3>2, <3>3
  <2> QED BY <1>11, <2>1, <2>2 DEF Listed, LocksOn
<1> QED BY <1>8, <1>11, <1>12, <1>13

LEMMA EmptyList == << >> \in Seq(Locks) /\ Ascending(<< >>) /\ Listed(<< >>) = {}
BY DEF Ascending, Listed

(* One list after another.                                                  *)
LEMMA JoinedLists ==
    ASSUME NEW p \in Seq(Locks), NEW q \in Seq(Locks), Ascending(p), Ascending(q),
           \A a \in Listed(p), b \in Listed(q) : Before(a, b)
    PROVE  p \o q \in Seq(Locks) /\ Ascending(p \o q) /\ Listed(p \o q) = Listed(p) \cup Listed(q)
<1>1. /\ p \o q \in Seq(Locks) /\ Len(p \o q) = Len(p) + Len(q) /\ Len(p) \in Nat /\ Len(q) \in Nat
      /\ \A i \in 1..Len(p \o q) : (p \o q)[i] = IF i <= Len(p) THEN p[i] ELSE q[i - Len(p)]
  BY ConcatProperties
<1>2. PICK r : r = p \o q
  OBVIOUS
<1>3. \A i \in 1..Len(r) : (i <= Len(p) => i \in 1..Len(p) /\ r[i] = p[i])
                           /\ (~ (i <= Len(p)) => i - Len(p) \in 1..Len(q) /\ r[i] = q[i - Len(p)])
  BY <1>1, <1>2
<1>4. \A i \in 1..Len(p) : i \in 1..Len(r) /\ r[i] = p[i]
  BY <1>1, <1>2
<1>5. \A i \in 1..Len(q) : i + Len(p) \in 1..Len(r) /\ r[i + Len(p)] = q[i]
  BY <1>1, <1>2
<1>6. Listed(r) = Listed(p) \cup Listed(q)
  <2>1. ASSUME NEW i \in 1..Len(r) PROVE r[i] \in Listed(p) \cup Listed(q)
    BY <1>3 DEF Listed
  <2>2. ASSUME NEW i \in 1..Len(p) PROVE p[i] \in Listed(r)
    BY <1>4 DEF Listed
  <2>3. ASSUME NEW i \in 1..Len(q) PROVE q[i] \in Listed(r)
    BY <1>5 DEF Listed
  <2>4. Listed(r) \subseteq Listed(p) \cup Listed(q)
    BY <2>1 DEF Listed
  <2>5. Listed(p) \subseteq Listed(r) /\ Listed(q) \subseteq Listed(r)
    BY <2>2, <2>3 DEF Listed
  <2> QED BY <2>4, <2>5
<1>7. ASSUME NEW i \in 1..Len(r), NEW j \in 1..Len(r), i < j PROVE Before(r[i], r[j])
  <2>1. CASE j <= Len(p)
    <3>1. i \in 1..Len(p) /\ j \in 1..Len(p) /\ r[i] = p[i] /\ r[j] = p[j]
      BY <1>1, <1>3, <1>7, <2>1
    <3> QED BY <1>7, <3>1 DEF Ascending
  <2>2. CASE ~ (j <= Len(p)) /\ i <= Len(p)
    <3>1. r[i] \in Listed(p) /\ r[j] \in Listed(q)
      BY <1>3, <2>2 DEF Listed
    <3> QED BY <3>1
  <2>3. CASE ~ (j <= Len(p)) /\ ~ (i <= Len(p))
    <3>1. i - Len(p) \in 1..Len(q) /\ j - Len(p) \in 1..Len(q) /\ r[i] = q[i - Len(p)] /\ r[j] = q[j - Len(p)]
      BY <1>3, <2>3
    <3>2. i - Len(p) < j - Len(p)
      BY <1>1, <1>7
    <3> QED BY <3>1, <3>2 DEF Ascending
  <2> QED BY <2>1, <2>2, <2>3
<1>8. Ascending(r)
  BY <1>7 DEF Ascending
<1> QED BY <1>1, <1>2, <1>6, <1>8

(* The first of a list comes before the rest.                               *)
LEMMA HeadOfList ==
    ASSUME NEW q \in Seq(Locks), q # << >>, Ascending(q)
    PROVE  /\ Head(q) \in Locks /\ Tail(q) \in Seq(Locks) /\ Ascending(Tail(q))
           /\ Listed(q) = {Head(q)} \cup Listed(Tail(q))
           /\ \A b \in Listed(Tail(q)) : Before(Head(q), b)
<1>1. Len(q) \in Nat /\ Len(q) # 0 /\ Head(q) = q[1] /\ Head(q) \in Locks
  BY HeadTailProperties, EmptySeq, LenProperties
<1>2. PICK r : r = Tail(q)
  OBVIOUS
<1>3. r \in Seq(Locks) /\ Len(r) = Len(q) - 1 /\ \A i \in 1..Len(r) : r[i] = q[i + 1]
  BY <1>2, HeadTailProperties
<1>4. \A i \in 1..Len(r) : i + 1 \in 1..Len(q)
  BY <1>1, <1>3
<1>5. \A i \in 1..Len(q) : i = 1 \/ (i - 1 \in 1..Len(r) /\ r[i - 1] = q[i])
  <2>1. \A i \in 1..Len(q) : i # 1 => i - 1 \in 1..Len(r) /\ (i - 1) + 1 = i
    BY <1>1, <1>3
  <2> QED BY <1>3, <2>1
<1>6. 1 \in 1..Len(q)
  BY <1>1
<1>7. Listed(q) = {q[1]} \cup Listed(r)
  BY <1>3, <1>4, <1>5, <1>6 DEF Listed
<1>8. \A i \in 1..Len(r) : 1 < i + 1
  OBVIOUS
<1>9. \A b \in Listed(r) : Before(q[1], b)
  BY <1>3, <1>4, <1>6, <1>8 DEF Listed, Ascending
<1>10. Ascending(r)
  <2>1. ASSUME NEW i \in 1..Len(r), NEW j \in 1..Len(r), i < j PROVE Before(r[i], r[j])
    <3>1. i + 1 < j + 1 /\ i + 1 \in 1..Len(q) /\ j + 1 \in 1..Len(q)
      BY <1>4, <2>1
    <3>2. Before(q[i + 1], q[j + 1])
      BY <3>1 DEF Ascending
    <3> QED BY <1>3, <3>2
  <2> QED BY <2>1 DEF Ascending
<1> QED BY <1>1, <1>2, <1>3, <1>7, <1>9, <1>10

-----------------------------------------------------------------------------
(* What a session has locked, what it works on, and what it relies on.      *)

DocumentOps == {"edit", "finalize", "return", "voidDocument"}

BanksOf(s) ==
    LET t == tx[s] IN
    IF t.op \in {"receipt", "payment"} \/ (t.op = "step" /\ t.want = "passed") THEN {t.bank}
    ELSE IF t.op = "transfer" THEN {t.bank, t.to}
    ELSE IF t.op = "void" THEN {row[q].bank : q \in SidesOf(t.id)}
    ELSE {}
RowsOf(s) ==
    IF tx[s].op = "void" THEN SidesOf(tx[s].id) ELSE IF tx[s].op \in {"relink", "replace"} THEN {tx[s].id} ELSE {}
ChequesOf(s) == IF tx[s].op \in {"step", "replaceCheque", "deleteCheque"} THEN {tx[s].id} ELSE {}
DocsOf(s) == ({tx[s].doc} \ {0}) \cup Chosen(tx[s].parts)
DocMode(s) == IF tx[s].op \in DocumentOps THEN Update ELSE NoKeyUpdate

(* The locks a session works under, asked for or held.                      *)
Wanted(s) ==
    LocksOn("bank", BanksOf(s), Update) \cup LocksOn("cheque", ChequesOf(s), Update)
    \cup LocksOn("doc", DocsOf(s), DocMode(s)) \cup LocksOn("row", RowsOf(s), Update)
Asked(s) == tx[s].held \cup Listed(tx[s].need)

(* Locks are taken in one order; after the checks only the key of a         *)
(* document is still to take, and the steps of a document take one lock.    *)
Keeps(s) ==
    LET t == tx[s] IN
    /\ t.op = "none" => t = Idle
    /\ Ascending(t.need)
    /\ ~ t.checked => \A h \in t.held, n \in Listed(t.need) : Before(h, n)
    /\ t.checked => \A n \in Listed(t.need) : n.on = "doc" /\ n.mode = KeyShare
    /\ t.op \in DocumentOps => t.need = << >> \/ (t.held = {} /\ Tail(t.need) = << >>)
    /\ \A l \in Asked(s) : l.on = "doc" /\ l.mode = Update => t.op \in DocumentOps
    /\ \A n \in Listed(t.need) : n.id \in Banks \cup Docs \cup Rows \cup Cheques
    /\ Wanted(s) \subseteq Asked(s)

(* A cheque we issued from an account clears there.                         *)
IssuedFrom(c, b) ==
    cheque[c].type = "paid" /\ cheque[c].bank # 0 /\ cheque[c].status # "passed" => b = cheque[c].bank

(* What a session was asked to do.                                          *)
Own(s) ==
    LET t == tx[s] IN
    /\ t.op \in {"receipt", "payment"} \/ (t.op = "step" /\ t.want = "passed") => t.bank \in Banks
    /\ t.op = "transfer" => t.bank \in Banks /\ t.to \in Banks /\ t.bank # t.to
    /\ t.op \in {"void", "relink", "replace"} => t.id \in Rows /\ row[t.id].status # "none"
    /\ t.op \in {"relink", "replace"} => row[t.id].type = "receipt" /\ row[t.id].pair = 0
    /\ t.op \in {"step", "replaceCheque", "deleteCheque"} => t.id \in Cheques /\ cheque[t.id].status # "none"
    /\ t.op = "replaceCheque" => cheque[t.id].type = "received"
    /\ t.op = "step" => /\ t.want \in ChequeStatus
                        /\ t.want \notin {"passed", "in_collection"} => t.bank = 0
                        /\ t.want = "passed" => IssuedFrom(t.id, t.bank)
    /\ t.op = "cheque" => t.want \in {"received", "paid"} /\ (t.want = "paid" => t.parts = NoParts)
    /\ t.op = "receipt" => t.doc = 0 \/ t.parts = NoParts
    /\ t.op \in DocumentOps => t.doc \in Docs
    /\ t.op \in {"edit", "finalize"} => t.payable \in 1..MaxPayable /\ t.want \in {"draft", "proforma", "final"}
    /\ Total(t.parts) <= Amount

Room(d, amount, kept) ==
    /\ doc[d].status # "void"
    /\ doc[d].status \in {"final", "proforma"} \/ (kept > 0 /\ amount <= kept)
    /\ Settled(d) - kept + doc[d].returned + amount <= doc[d].payable

(* What a session has checked stays true until it writes.                   *)
Claims(s) ==
    LET t == tx[s]
        x == t.id
        d == t.doc
    IN
    /\ t.op \in {"payment", "transfer"} => balance[t.bank] - Amount >= 0
    /\ t.op = "void" => Live(x) /\ \A q \in SidesOf(x) : balance[row[q].bank] + Back(q) >= 0
    /\ t.op \in {"receipt", "relink"} /\ d # 0 => Room(d, Amount, 0)
    /\ t.op \in {"receipt", "cheque"} => \A e \in Chosen(t.parts) : Room(e, t.parts[e], 0)
    /\ t.op = "relink" => Live(x) /\ row[x].parts = NoParts /\ row[x].link # d
    /\ t.op = "replace" => Live(x) /\ \A e \in Chosen(t.parts) : Room(e, t.parts[e], RowShare(x, e))
    /\ t.op = "step" => t.want \in chequeNextStatuses(x) /\ (t.want = "passed" => balance[t.bank] + Clears(x) >= 0)
    /\ t.op = "replaceCheque" => ~ Lapsed(x) /\ \A e \in Chosen(t.parts) : Room(e, t.parts[e], ChequeShare(x, e))
    /\ t.op = "deleteCheque" => cheque[x].status \notin {"passed", "spent", "deleted"}
    /\ t.op \in {"edit", "finalize"} => doc[d].status \in {"draft", "proforma"} /\ Covers(d, t.payable)
    /\ t.op = "return" => doc[d].status = "final" /\ doc[d].returned < doc[d].payable
    /\ t.op = "voidDocument" => doc[d].status # "void" /\ doc[d].returned = 0 /\ Settled(d) = 0
Facts(s) == tx[s].checked => (\A b \in BanksOf(s) : tx[s].saw[b] = balance[b]) /\ Claims(s)

(* A row that was written keeps its account and its other side; only a      *)
(* receipt settles, by a link or by parts.                                  *)
RowInv(r) ==
    LET me == row[r]
        other == row[me.pair]
    IN
    /\ me.status = "none" => me = NoRow
    /\ me.status # "none" => me.bank \in Banks
    /\ me.link = 0 \/ me.parts = NoParts
    /\ Total(me.parts) <= Amount
    /\ me.type = "payment" => me.link = 0 /\ me.parts = NoParts
    /\ me.pair # 0 => /\ me.pair # r /\ other.pair = r /\ other.status = me.status
                      /\ other.bank # me.bank /\ other.type # me.type
                      /\ me.link = 0 /\ me.parts = NoParts

ChequeInv(c) ==
    /\ cheque[c].status = "none" => cheque[c] = NoCheque
    /\ Total(cheque[c].parts) <= Amount
    /\ cheque[c].status = "passed" => cheque[c].bank \in Banks

DocInv(d) == doc[d].returned > 0 => doc[d].status = "final"

Apart == \A s, t \in Sessions : s # t => \A h \in tx[s].held, g \in tx[t].held : ~ Conflict(h, g)

RecordsInv == (\A r \in Rows : RowInv(r)) /\ (\A c \in Cheques : ChequeInv(c)) /\ (\A d \in Docs : DocInv(d))
SessionInv == \A s \in Sessions : Keeps(s) /\ Own(s) /\ Facts(s)

IInv == TypeOK /\ RecordsInv /\ SessionInv /\ Apart

-----------------------------------------------------------------------------
(* Nobody waits in a circle.                                                *)

LEMMA LockTypes ==
    ASSUME TypeOK, NEW s \in Sessions
    PROVE  /\ tx[s].need \in Seq(Locks) /\ tx[s].held \in SUBSET Locks /\ tx[s].checked \in BOOLEAN
           /\ tx[s].need # << >> => Head(tx[s].need) \in Locks /\ Head(tx[s].need) \in Listed(tx[s].need)
<1>1. tx[s] \in Transactions
  BY DEF TypeOK
<1>2. tx[s].need \in Seq(Locks) /\ tx[s].held \in SUBSET Locks /\ tx[s].checked \in BOOLEAN
  BY <1>1 DEF Transactions
<1>3. PICK q \in Seq(Locks) : q = tx[s].need
  BY <1>2
<1>4. q # << >> => Head(q) \in Locks /\ Head(q) \in Listed(q)
  <2>1. q # << >> => Head(q) = q[1] /\ Head(q) \in Locks /\ 1 \in 1..Len(q)
    BY HeadTailProperties, EmptySeq, LenProperties
  <2> QED BY <2>1 DEF Listed
<1> QED BY <1>2, <1>3, <1>4

LEMMA RankTypes == \A l \in Locks : l.on \in Kinds /\ RankOf[l.on] \in 1..4 /\ l.id \in Nat /\ l.mode \in 1..4
BY DEF Locks, RankOf, Kinds

LEMMA LastLock ==
    ASSUME NEW L \in SUBSET Locks, L # {}, IsFiniteSet({l.id : l \in L})
    PROVE  \E l \in L : \A k \in L : ~ Before(l, k)
<1>1. \A l \in L : RankOf[l.on] \in 1..4 /\ l.id \in Nat
  BY RankTypes
<1>2. PICK R : R = {RankOf[l.on] : l \in L}
  OBVIOUS
<1>3. R \in SUBSET (1..4) /\ R # {}
  BY <1>1, <1>2
<1>4. IsFiniteSet(R) /\ R \in SUBSET Int
  <2>1. IsFiniteSet(1..4)
    BY FS_Interval, 1 \in Int, 4 \in Int
  <2>2. 1..4 \subseteq Int
    OBVIOUS
  <2>3. IsFiniteSet(R)
    BY <1>3, <2>1, FS_Subset
  <2> QED BY <1>3, <2>2, <2>3
<1>5. PICK m \in R : \A n \in R : n <= m
  BY <1>3, <1>4, MaxOfFinite
<1>6. PICK T : T = {l \in L : RankOf[l.on] = m}
  OBVIOUS
<1>7. PICK I : I = {l.id : l \in T}
  OBVIOUS
<1>8. I \in SUBSET Int /\ I # {} /\ IsFiniteSet(I)
  <2>1. I \subseteq {l.id : l \in L}
    BY <1>6, <1>7
  <2>2. I # {}
    BY <1>2, <1>6, <1>7
  <2>3. I \in SUBSET Int
    BY <1>1, <1>6, <1>7
  <2> QED BY <2>1, <2>2, <2>3, FS_Subset
<1>9. PICK i \in I : \A n \in I : n <= i
  BY <1>8, MaxOfFinite
<1>10. PICK l \in T : l.id = i
  BY <1>7
<1>11. ASSUME NEW k \in L, Before(l, k) PROVE FALSE
  <2>1. RankOf[k.on] <= m /\ RankOf[l.on] = m /\ RankOf[k.on] \in Int /\ m \in Int
    BY <1>2, <1>3, <1>5, <1>6, <1>1
  <2>2. l.on = k.on /\ l.id < k.id
    BY <1>11, <2>1 DEF Before
  <2>3. k \in T
    BY <1>6, <2>2, <2>1
  <2>4. k.id <= l.id /\ k.id \in Int /\ l.id \in Int
    BY <1>1, <1>6, <1>7, <1>9, <1>10, <2>3
  <2> QED BY <2>2, <2>4
<1> QED BY <1>6, <1>11

(* The blocker of a session holds the row the session asks for, and a       *)
(* blocker that still needs a lock needs a later one; the key of a document *)
(* is only refused by a step of that document, which needs nothing more.    *)
LEMMA BlockersNeedLater ==
    ASSUME TypeOK, SessionInv, NEW s \in Sessions, tx[s].need # << >>,
           NEW p \in Blockers(s), tx[p].need # << >>
    PROVE  /\ tx[s].need # << >> /\ ~ tx[s].checked
           /\ ~ tx[p].checked => Before(Head(tx[s].need), Head(tx[p].need))
<1>1. p \in Sessions /\ Keeps(p) /\ Keeps(s)
  BY DEF Blockers, SessionInv
<1>2. PICK l \in tx[p].held : Conflict(l, Head(tx[s].need))
  BY DEF Blockers
<1>3. /\ l \in Locks /\ Head(tx[s].need) \in Locks /\ Head(tx[s].need) \in Listed(tx[s].need)
      /\ Head(tx[p].need) \in Locks /\ Head(tx[p].need) \in Listed(tx[p].need)
  BY <1>1, <1>2, LockTypes
<1>4. l.on = Head(tx[s].need).on /\ l.id = Head(tx[s].need).id /\ l.mode + Head(tx[s].need).mode >= 5
  BY <1>2 DEF Conflict
<1>5. ~ tx[s].checked
  <2>1. SUFFICES ASSUME tx[s].checked PROVE FALSE
    OBVIOUS
  <2>2. Head(tx[s].need).on = "doc" /\ Head(tx[s].need).mode = 1
    BY <1>1, <1>3, <2>1 DEF Keeps, KeyShare
  <2>3. l.on = "doc" /\ l.mode = Update
    BY <1>3, <1>4, <2>2, RankTypes DEF Update
  <2>4. tx[p].op \in DocumentOps
    BY <1>1, <1>2, <2>3 DEF Keeps, Asked
  <2> QED BY <1>1, <1>2, <2>4 DEF Keeps
<1>6. ASSUME ~ tx[p].checked PROVE Before(Head(tx[s].need), Head(tx[p].need))
  <2>1. Before(l, Head(tx[p].need))
    BY <1>1, <1>2, <1>3, <1>6 DEF Keeps
  <2> QED BY <1>4, <2>1 DEF Before
<1> QED BY <1>5, <1>6

LEMMA NobodyWaits ==
    ASSUME SettlementAssumption, TypeOK, SessionInv
    PROVE  NoCircularWait
<1>1. SUFFICES ASSUME NEW S \in (SUBSET Waits) \ {{}}, \A s \in S : Blockers(s) \cap S # {}
               PROVE  FALSE
  BY DEF NoCircularWait
<1>2. S # {} /\ \A s \in S : s \in Sessions /\ tx[s].need # << >>
  BY DEF Waits
<1>3. \A s \in S : \E p \in S : p \in Blockers(s)
  BY <1>1
<1>4. \A s \in S : ~ tx[s].checked
  BY <1>2, <1>3, BlockersNeedLater
<1>5. PICK L : L = {Head(tx[s].need) : s \in S}
  OBVIOUS
<1>6. \A s \in S : Head(tx[s].need) \in Locks /\ Head(tx[s].need) \in Listed(tx[s].need)
  BY <1>2, LockTypes
<1>7. L \in SUBSET Locks /\ L # {}
  BY <1>2, <1>5, <1>6
<1>8. IsFiniteSet({l.id : l \in L})
  <2>1. {l.id : l \in L} \subseteq Banks \cup Docs \cup Rows \cup Cheques
    BY <1>2, <1>5, <1>6 DEF SessionInv, Keeps
  <2>2. IsFiniteSet(Banks \cup Docs \cup Rows \cup Cheques)
    BY FS_Union DEF SettlementAssumption
  <2> QED BY <2>1, <2>2, FS_Subset
<1>9. PICK l \in L : \A k \in L : ~ Before(l, k)
  BY <1>7, <1>8, LastLock
<1>10. PICK s \in S : l = Head(tx[s].need)
  BY <1>5
<1>11. PICK p \in S : p \in Blockers(s)
  BY <1>3
<1>12. Before(Head(tx[s].need), Head(tx[p].need))
  BY <1>2, <1>4, <1>11, BlockersNeedLater
<1> QED BY <1>5, <1>9, <1>10, <1>12

-----------------------------------------------------------------------------
(* What settles a document, of any rows and cheques.                        *)

RowPart(me, d) == IF me.status = "completed" THEN (IF me.link = d THEN Amount ELSE 0) + me.parts[d] ELSE 0
ChequePart(me, d) == IF me.status \in {"none", "deleted", "bounced", "returned"} THEN 0 ELSE me.parts[d]
SettledIn(rs, cs, d) ==
    SumFunctionOnSet([r \in Rows |-> RowPart(rs[r], d)], Rows)
    + SumFunctionOnSet([c \in Cheques |-> ChequePart(cs[c], d)], Cheques)

AllRows == [Rows -> RowRecords]
AllCheques == [Cheques -> ChequeRecords]

SameBut(F, G, S, x) == \A y \in S \ {x} : F[y] = G[y]
Integral(F, S) == \A y \in S : F[y] \in Int
SumMoves(F, G, S, x) ==
    /\ SumFunctionOnSet(F, S) \in Int
    /\ SumFunctionOnSet(G, S) = SumFunctionOnSet(F, S) - F[x] + G[x]

(* A sum changes by what one term changes.                                  *)
LEMMA SumChange ==
    ASSUME NEW S, IsFiniteSet(S), NEW F, NEW G, NEW x \in S, Integral(F, S), Integral(G, S), SameBut(F, G, S, x)
    PROVE  SumMoves(F, G, S, x)
<1>a. (\A y \in S : F[y] \in Int) /\ (\A y \in S : G[y] \in Int)
  BY DEF Integral
<1>1. SumFunctionOnSet(F, S) = F[x] + SumFunctionOnSet(F, S \ {x})
  BY <1>a, SumOfOne
<1>2. SumFunctionOnSet(G, S) = G[x] + SumFunctionOnSet(G, S \ {x})
  BY <1>a, SumOfOne
<1>3. IsFiniteSet(S \ {x})
  BY FS_Subset
<1>4. SumFunctionOnSet(F, S \ {x}) = SumFunctionOnSet(G, S \ {x})
  BY <1>3, SumSame DEF SameBut
<1>5. SumFunctionOnSet(F, S \ {x}) \in Int /\ SumFunctionOnSet(F, S) \in Int
  BY <1>3, <1>a, SumType
<1> QED BY <1>a, <1>1, <1>2, <1>4, <1>5 DEF SumMoves

(* A sum of smaller terms is smaller.                                       *)
LEMMA SumMonotone ==
    ASSUME NEW S, IsFiniteSet(S), NEW F, NEW G, \A x \in S : F[x] \in Int /\ G[x] \in Int /\ F[x] <= G[x]
    PROVE  SumFunctionOnSet(F, S) <= SumFunctionOnSet(G, S)
<1> DEFINE Bad == {U \in SUBSET S : ~ (SumFunctionOnSet(F, U) <= SumFunctionOnSet(G, U))}
<1>1. SUFFICES ASSUME Bad # {} PROVE FALSE
  OBVIOUS
<1>2. Bad \in SUBSET SUBSET S
  OBVIOUS
<1>3. PICK U \in Bad : \A R \in SUBSET U : R # U => R \notin Bad
  <2> HIDE DEF Bad
  <2> QED BY <1>1, <1>2, SmallestSet
<1>4. ~ (SumFunctionOnSet(F, U) <= SumFunctionOnSet(G, U)) /\ U \in SUBSET S
  BY <1>3
<1>5. U # {}
  <2>1. SUFFICES ASSUME U = {} PROVE FALSE
    OBVIOUS
  <2>2. SumFunctionOnSet(F, U) = 0 /\ SumFunctionOnSet(G, U) = 0
    BY <2>1, SumOfNone
  <2> QED BY <1>4, <2>2
<1>6. PICK x \in U : TRUE
  BY <1>5
<1>7. IsFiniteSet(U) /\ IsFiniteSet(U \ {x}) /\ \A y \in U : F[y] \in Int /\ G[y] \in Int
  BY <1>4, FS_Subset
<1>8. /\ SumFunctionOnSet(F, U) = F[x] + SumFunctionOnSet(F, U \ {x})
      /\ SumFunctionOnSet(G, U) = G[x] + SumFunctionOnSet(G, U \ {x})
  BY <1>6, <1>7, SumOfOne
<1>9. SumFunctionOnSet(F, U \ {x}) \in Int /\ SumFunctionOnSet(G, U \ {x}) \in Int
  BY <1>7, SumType
<1>10. SumFunctionOnSet(F, U \ {x}) <= SumFunctionOnSet(G, U \ {x})
  BY <1>3, <1>4, <1>6
<1>11. F[x] <= G[x] /\ F[x] \in Int /\ G[x] \in Int
  BY <1>4, <1>6
<1> HIDE DEF Bad
<1> QED BY <1>4, <1>8, <1>9, <1>10, <1>11

LEMMA PartTypes ==
    ASSUME SettlementAssumption, NEW d \in Docs
    PROVE  /\ \A me \in RowRecords : RowPart(me, d) \in Nat
           /\ \A me \in ChequeRecords : ChequePart(me, d) \in Nat
<1>1. Amount \in Nat /\ 0 \in Nat /\ \A n \in 0..Amount : n \in Nat
  BY DEF SettlementAssumption
<1>2. \A p \in Parts : p[d] \in Nat
  BY <1>1 DEF Parts
<1>3. \A me \in RowRecords : me.parts[d] \in Nat
  BY <1>2 DEF RowRecords
<1>4. \A me \in ChequeRecords : me.parts[d] \in Nat
  BY <1>2 DEF ChequeRecords
<1> QED BY <1>1, <1>3, <1>4 DEF RowPart, ChequePart

LEMMA SettledInType ==
    ASSUME SettlementAssumption, NEW rs \in AllRows, NEW cs \in AllCheques, NEW d \in Docs
    PROVE  /\ SumFunctionOnSet([r \in Rows |-> RowPart(rs[r], d)], Rows) \in Nat
           /\ SumFunctionOnSet([c \in Cheques |-> ChequePart(cs[c], d)], Cheques) \in Nat
           /\ SettledIn(rs, cs, d) \in Nat
<1>1. PICK F : F = [r \in Rows |-> RowPart(rs[r], d)]
  OBVIOUS
<1>2. PICK G : G = [c \in Cheques |-> ChequePart(cs[c], d)]
  OBVIOUS
<1>3. (\A r \in Rows : F[r] \in Nat) /\ (\A c \in Cheques : G[c] \in Nat)
  BY <1>1, <1>2, PartTypes DEF AllRows, AllCheques
<1>4. SumFunctionOnSet(F, Rows) \in Nat /\ SumFunctionOnSet(G, Cheques) \in Nat
  BY <1>3, SumOfNaturals DEF SettlementAssumption
<1> QED BY <1>1, <1>2, <1>4 DEF SettledIn

LEMMA SettledIsIn ==
    ASSUME NEW d
    PROVE  /\ Settled(d) = SettledIn(row, cheque, d)
           /\ \A r \in Rows : RowShare(r, d) = RowPart(row[r], d)
           /\ \A c \in Cheques : ChequeShare(c, d) = ChequePart(cheque[c], d)
           /\ Settled(d)' = SettledIn(row', cheque', d)
           /\ \A r \in Rows : RowShare(r, d)' = RowPart(row'[r], d)
           /\ \A c \in Cheques : ChequeShare(c, d)' = ChequePart(cheque'[c], d)
BY DEF Settled, SettledByRows, SettledByCheques, SettledIn, RowShare, RowPart, LinkShare, Live, ChequeShare, ChequePart, Lapsed

(* One row, or one cheque, settles more or less.                            *)
LEMMA RowSettles ==
    ASSUME SettlementAssumption, NEW rs \in AllRows, NEW qs \in AllRows, NEW cs \in AllCheques, NEW d \in Docs,
           NEW r \in Rows, SameBut(rs, qs, Rows, r)
    PROVE  SettledIn(qs, cs, d) = SettledIn(rs, cs, d) - RowPart(rs[r], d) + RowPart(qs[r], d)
<1>1. PICK F : F = [q \in Rows |-> RowPart(rs[q], d)]
  OBVIOUS
<1>2. PICK G : G = [q \in Rows |-> RowPart(qs[q], d)]
  OBVIOUS
<1>3. (\A q \in Rows : F[q] \in Int) /\ (\A q \in Rows : G[q] \in Int)
  BY <1>1, <1>2, PartTypes DEF AllRows
<1>4. SameBut(F, G, Rows, r)
  BY <1>1, <1>2 DEF SameBut
<1>5. IsFiniteSet(Rows)
  BY DEF SettlementAssumption
<1>6. SumFunctionOnSet(F, Rows) \in Int /\ SumFunctionOnSet(G, Rows) = SumFunctionOnSet(F, Rows) - F[r] + G[r]
  <2>1. Integral(F, Rows) /\ Integral(G, Rows)
    BY <1>3 DEF Integral
  <2>2. SumMoves(F, G, Rows, r)
    BY <1>4, <1>5, <2>1, SumChange
  <2> QED BY <2>2 DEF SumMoves
<1>7. SumFunctionOnSet([c \in Cheques |-> ChequePart(cs[c], d)], Cheques) \in Nat
  BY SettledInType
<1> QED BY <1>1, <1>2, <1>3, <1>6, <1>7 DEF SettledIn

LEMMA ChequeSettles ==
    ASSUME SettlementAssumption, NEW rs \in AllRows, NEW cs \in AllCheques, NEW es \in AllCheques, NEW d \in Docs,
           NEW c \in Cheques, SameBut(cs, es, Cheques, c)
    PROVE  SettledIn(rs, es, d) = SettledIn(rs, cs, d) - ChequePart(cs[c], d) + ChequePart(es[c], d)
<1>1. PICK F : F = [e \in Cheques |-> ChequePart(cs[e], d)]
  OBVIOUS
<1>2. PICK G : G = [e \in Cheques |-> ChequePart(es[e], d)]
  OBVIOUS
<1>3. (\A e \in Cheques : F[e] \in Int) /\ (\A e \in Cheques : G[e] \in Int)
  BY <1>1, <1>2, PartTypes DEF AllCheques
<1>4. SameBut(F, G, Cheques, c)
  BY <1>1, <1>2 DEF SameBut
<1>5. IsFiniteSet(Cheques)
  BY DEF SettlementAssumption
<1>6. SumFunctionOnSet(F, Cheques) \in Int /\ SumFunctionOnSet(G, Cheques) = SumFunctionOnSet(F, Cheques) - F[c] + G[c]
  <2>1. Integral(F, Cheques) /\ Integral(G, Cheques)
    BY <1>3 DEF Integral
  <2>2. SumMoves(F, G, Cheques, c)
    BY <1>4, <1>5, <2>1, SumChange
  <2> QED BY <2>2 DEF SumMoves
<1>7. SumFunctionOnSet([r \in Rows |-> RowPart(rs[r], d)], Rows) \in Nat
  BY SettledInType
<1> QED BY <1>1, <1>2, <1>3, <1>6, <1>7 DEF SettledIn

(* Rows that settle no more than before.                                    *)
LEMMA RowsSettleLess ==
    ASSUME SettlementAssumption, NEW rs \in AllRows, NEW qs \in AllRows, NEW cs \in AllCheques, NEW d \in Docs,
           \A q \in Rows : RowPart(qs[q], d) <= RowPart(rs[q], d)
    PROVE  SettledIn(qs, cs, d) <= SettledIn(rs, cs, d)
<1>1. PICK F : F = [q \in Rows |-> RowPart(rs[q], d)]
  OBVIOUS
<1>2. PICK G : G = [q \in Rows |-> RowPart(qs[q], d)]
  OBVIOUS
<1>3. \A q \in Rows : F[q] \in Int /\ G[q] \in Int /\ G[q] <= F[q]
  BY <1>1, <1>2, PartTypes DEF AllRows
<1>4. SumFunctionOnSet(G, Rows) <= SumFunctionOnSet(F, Rows)
  BY <1>3, SumMonotone DEF SettlementAssumption
<1>5. /\ SumFunctionOnSet([c \in Cheques |-> ChequePart(cs[c], d)], Cheques) \in Nat
      /\ SumFunctionOnSet(F, Rows) \in Nat /\ SumFunctionOnSet(G, Rows) \in Nat
  BY <1>1, <1>2, SettledInType
<1> QED BY <1>1, <1>2, <1>4, <1>5 DEF SettledIn

-----------------------------------------------------------------------------
(* Steps that only lock, check or end.                                      *)

LEMMA NothingSettles ==
    ASSUME SettlementAssumption
    PROVE  NoParts \in Parts /\ Total(NoParts) = 0 /\ Chosen(NoParts) = {}
<1>1. NoParts \in Parts /\ Chosen(NoParts) = {}
  BY DEF NoParts, Parts, Chosen, SettlementAssumption
<1>2. PICK F : F = NoParts
  OBVIOUS
<1>3. \A d \in Docs : F[d] \in Int /\ F[d] = 0
  BY <1>2 DEF NoParts
<1>4. IsFiniteSet(Docs) /\ IsFiniteSet({}) /\ {} \in SUBSET Docs
  BY FS_EmptySet DEF SettlementAssumption
<1>5. SumFunctionOnSet(F, Docs) = SumFunctionOnSet(F, {})
  <2>1. (\A x \in Docs : F[x] \in Int) /\ (\A x \in Docs \ {} : F[x] = 0)
    BY <1>3
  <2> QED BY <1>4, <2>1, SumWithout
<1>6. SumFunctionOnSet(F, Docs) = 0
  BY <1>5, SumOfNone
<1> QED BY <1>1, <1>2, <1>6 DEF Total

LEMMA IdleIs ==
    ASSUME SettlementAssumption
    PROVE  /\ Idle \in Transactions
           /\ Idle.op = "none" /\ Idle.id = 0 /\ Idle.bank = 0 /\ Idle.to = 0 /\ Idle.doc = 0
           /\ Idle.parts = NoParts /\ Idle.want = "none" /\ Idle.payable = 0
           /\ Idle.need = << >> /\ Idle.held = {} /\ Idle.checked = FALSE
<1>1. NoParts \in Parts /\ Nothing \in [Banks -> Nat] /\ 0 \in 0..MaxPayable
  BY NothingSettles DEF Nothing, SettlementAssumption
<1>a. << >> \in Seq(Locks)
  BY EmptyList
<1>b. {} \in SUBSET Locks
  OBVIOUS
<1>d. "none" \in Wants
  BY DEF Wants
<1>c. "none" \in Operations \cup {"none"} /\ "none" \in Wants
  BY <1>d
<1>2. << >> \in Seq(Locks) /\ {} \in SUBSET Locks /\ "none" \in Operations \cup {"none"} /\ "none" \in Wants
  BY <1>a, <1>b, <1>c
<1>3. Idle \in Transactions
  <2> HIDE DEF NoParts, Nothing, Parts, Locks, Operations
  <2> QED BY <1>1, <1>2 DEF Idle, Transactions
<1> QED BY <1>3 DEF Idle

LEMMA IdleKeeps ==
    ASSUME SettlementAssumption
    PROVE  /\ \A s : tx[s] = Idle => Keeps(s) /\ Own(s) /\ Facts(s) /\ tx[s].held = {}
           /\ \A s : tx'[s] = Idle => Keeps(s)' /\ Own(s)' /\ Facts(s)' /\ tx'[s].held = {}
<1>1. /\ Idle.op = "none" /\ Idle.doc = 0 /\ Idle.parts = NoParts
      /\ Idle.need = << >> /\ Idle.held = {} /\ Idle.checked = FALSE
  BY IdleIs
<1>2. LocksOn("bank", {}, Update) = {} /\ LocksOn("cheque", {}, Update) = {} /\ LocksOn("doc", {}, NoKeyUpdate) = {}
      /\ LocksOn("row", {}, Update) = {}
  BY DEF LocksOn
<1>3. Listed(<< >>) = {} /\ Ascending(<< >>)
  BY EmptyList
<1>4. Total(NoParts) <= Amount /\ Chosen(NoParts) = {}
  BY NothingSettles DEF SettlementAssumption
<1>5. ASSUME NEW s, tx[s] = Idle PROVE Keeps(s) /\ Own(s) /\ Facts(s) /\ tx[s].held = {}
  <2>1. /\ tx[s].op = "none" /\ tx[s].doc = 0 /\ tx[s].parts = NoParts
        /\ tx[s].need = << >> /\ tx[s].held = {} /\ tx[s].checked = FALSE
    BY <1>1, <1>5
  <2>2. BanksOf(s) = {} /\ RowsOf(s) = {} /\ ChequesOf(s) = {} /\ DocsOf(s) = {} /\ DocMode(s) = NoKeyUpdate
    BY <1>4, <2>1 DEF BanksOf, RowsOf, ChequesOf, DocsOf, DocMode, DocumentOps
  <2>3. Wanted(s) = {} /\ Asked(s) = {}
    BY <1>2, <1>3, <2>1, <2>2 DEF Wanted, Asked
  <2>4. Keeps(s)
    BY <1>3, <1>5, <2>1, <2>3 DEF Keeps
  <2>5. Own(s)
    BY <1>4, <2>1 DEF Own, DocumentOps
  <2>6. Facts(s)
    BY <2>1 DEF Facts
  <2> QED BY <2>1, <2>4, <2>5, <2>6
<1>6. ASSUME NEW s, tx'[s] = Idle PROVE Keeps(s)' /\ Own(s)' /\ Facts(s)' /\ tx'[s].held = {}
  <2>1. /\ tx'[s].op = "none" /\ tx'[s].doc = 0 /\ tx'[s].parts = NoParts
        /\ tx'[s].need = << >> /\ tx'[s].held = {} /\ tx'[s].checked = FALSE
    BY <1>1, <1>6
  <2>2. BanksOf(s)' = {} /\ RowsOf(s)' = {} /\ ChequesOf(s)' = {} /\ DocsOf(s)' = {} /\ DocMode(s)' = NoKeyUpdate
    BY <1>4, <2>1 DEF BanksOf, RowsOf, ChequesOf, DocsOf, DocMode, DocumentOps
  <2>3. Wanted(s)' = {} /\ Asked(s)' = {}
    BY <1>2, <1>3, <2>1, <2>2 DEF Wanted, Asked
  <2>4. Keeps(s)'
    BY <1>3, <1>6, <2>1, <2>3 DEF Keeps
  <2>5. Own(s)'
    BY <1>4, <2>1 DEF Own, DocumentOps
  <2>6. Facts(s)'
    BY <2>1 DEF Facts
  <2> QED BY <2>1, <2>4, <2>5, <2>6
<1> QED BY <1>5, <1>6

LEMMA InitInv ==
    ASSUME SettlementAssumption, Init
    PROVE  IInv
<1>1. NoRow \in RowRecords /\ NoCheque \in ChequeRecords
  BY NothingSettles DEF NoRow, NoCheque, RowRecords, ChequeRecords, ChequeStatus
<1>2. scene.start \in {"proforma", "final"} /\ scene \in Scenes
  BY DEF Init, SettlementAssumption
<1>3. Idle \in Transactions
  BY IdleIs
<1>4. TypeOK
  <2>1. balance \in [Banks -> Nat]
    BY DEF Init, SettlementAssumption
  <2>2. row \in [Rows -> RowRecords]
    BY <1>1 DEF Init
  <2>3. cheque \in [Cheques -> ChequeRecords]
    BY <1>1 DEF Init
  <2>4. MaxPayable \in 1..MaxPayable /\ 0 \in 0..MaxPayable
    BY DEF SettlementAssumption
  <2>5. doc \in [Docs -> DocRecords]
    BY <1>2, <2>4 DEF Init, DocRecords
  <2>6. tx \in [Sessions -> Transactions]
    BY <1>3 DEF Init
  <2> QED BY <1>2, <2>1, <2>2, <2>3, <2>5, <2>6 DEF TypeOK
<1>5. Total(NoParts) <= Amount
  BY NothingSettles DEF SettlementAssumption
<1>6. RecordsInv
  <2>1. \A r \in Rows : row[r] = NoRow
    BY DEF Init
  <2>2. \A c \in Cheques : cheque[c] = NoCheque
    BY DEF Init
  <2>3. \A d \in Docs : doc[d].returned = 0
    BY DEF Init
  <2>a. NoRow.link = 0 /\ NoRow.parts = NoParts /\ NoRow.status = "none" /\ NoRow.pair = 0
    BY DEF NoRow
  <2>4. ASSUME NEW r \in Rows PROVE RowInv(r)
    BY <1>5, <2>1, <2>a DEF RowInv
  <2>5. ASSUME NEW c \in Cheques PROVE ChequeInv(c)
    BY <1>5, <2>2 DEF ChequeInv, NoCheque
  <2> QED BY <2>3, <2>4, <2>5 DEF RecordsInv, DocInv
<1>7. \A s \in Sessions : tx[s] = Idle
  BY DEF Init
<1>8. SessionInv
  BY <1>7, IdleKeeps DEF SessionInv
<1>9. Apart
  BY <1>7, IdleKeeps DEF Apart
<1> QED BY <1>4, <1>6, <1>8, <1>9 DEF IInv

(* A session that did not step, while the records are as they were.         *)
LEMMA Unmoved ==
    ASSUME UNCHANGED data, NEW u, tx'[u] = tx[u]
    PROVE  /\ Keeps(u) => Keeps(u)'
           /\ Own(u) => Own(u)'
           /\ Facts(u) => Facts(u)'
<1>1. balance' = balance /\ row' = row /\ cheque' = cheque /\ doc' = doc
  BY DEF data
<1>2. /\ BanksOf(u)' = BanksOf(u) /\ RowsOf(u)' = RowsOf(u) /\ ChequesOf(u)' = ChequesOf(u)
      /\ DocsOf(u)' = DocsOf(u) /\ DocMode(u)' = DocMode(u) /\ Asked(u)' = Asked(u)
  BY <1>1 DEF BanksOf, RowsOf, ChequesOf, DocsOf, DocMode, Asked, SidesOf
<1>3. Wanted(u)' = Wanted(u)
  BY <1>2 DEF Wanted
<1>4. Keeps(u) => Keeps(u)'
  BY <1>2, <1>3 DEF Keeps
<1>5. Own(u) => Own(u)'
  BY <1>1 DEF Own, IssuedFrom
<1>6. \A d : Settled(d)' = Settled(d)
  BY <1>1 DEF Settled, SettledByRows, SettledByCheques, RowShare, LinkShare, Live, ChequeShare, Lapsed
<1>7. \A d, amount, kept : Room(d, amount, kept)' = Room(d, amount, kept)
  BY <1>1, <1>6 DEF Room
<1>8. /\ \A r : Live(r)' = Live(r) /\ SidesOf(r)' = SidesOf(r) /\ Back(r)' = Back(r)
      /\ \A c : Lapsed(c)' = Lapsed(c) /\ Clears(c)' = Clears(c) /\ chequeNextStatuses(c)' = chequeNextStatuses(c)
      /\ \A r, d : RowShare(r, d)' = RowShare(r, d)
      /\ \A c, d : ChequeShare(c, d)' = ChequeShare(c, d)
      /\ \A d, payable : Covers(d, payable)' = Covers(d, payable)
  BY <1>1, <1>6 DEF Live, SidesOf, Back, Lapsed, Clears, chequeNextStatuses, RowShare, LinkShare, ChequeShare, Covers
<1>9. Facts(u) => Facts(u)'
  BY <1>1, <1>2, <1>6, <1>7, <1>8 DEF Facts, Claims
<1> QED BY <1>4, <1>5, <1>9

(* A step of one session that leaves the records alone.                     *)
LEMMA SessionStep ==
    ASSUME IInv, NEW s \in Sessions, UNCHANGED <<scene, data>>, NEW t \in Transactions, tx' = [tx EXCEPT ![s] = t],
           Keeps(s)', Own(s)', Facts(s)',
           \A h \in t.held : h \in tx[s].held \/ \A p \in Sessions \ {s} : \A g \in tx[p].held : ~ Conflict(g, h)
    PROVE  IInv'
<1>1. TypeOK /\ RecordsInv /\ SessionInv /\ Apart
  BY DEF IInv
<1>2. tx \in [Sessions -> Transactions] /\ tx' \in [Sessions -> Transactions]
      /\ tx'[s] = t /\ \A u \in Sessions \ {s} : tx'[u] = tx[u]
  BY <1>1 DEF TypeOK
<1>3. TypeOK'
  BY <1>1, <1>2 DEF TypeOK, data
<1>4. RecordsInv'
  BY <1>1 DEF RecordsInv, RowInv, ChequeInv, DocInv, data
<1>5. SessionInv'
  <2>1. ASSUME NEW u \in Sessions \ {s} PROVE Keeps(u)' /\ Own(u)' /\ Facts(u)'
    BY <1>1, <1>2, <2>1, Unmoved DEF SessionInv
  <2> QED BY <2>1 DEF SessionInv
<1>6. \A a, b \in Locks : Conflict(a, b) => Conflict(b, a)
  BY DEF Conflict, Locks
<1>7. Apart'
  <2>1. SUFFICES ASSUME NEW u \in Sessions, NEW v \in Sessions, u # v, NEW h \in tx'[u].held, NEW g \in tx'[v].held
                 PROVE  ~ Conflict(h, g)
    BY DEF Apart, Conflict
  <2>a. h \in Locks /\ g \in Locks
    BY <1>3, LockTypes DEF TypeOK, Transactions
  <2>2. CASE u # s /\ v # s
    BY <1>1, <1>2, <2>1, <2>2 DEF Apart
  <2>3. CASE u = s
    <3>1. g \in tx[v].held /\ v \in Sessions \ {s} /\ h \in t.held
      BY <1>2, <2>1, <2>3
    <3>2. h \in tx[s].held => ~ Conflict(h, g)
      BY <1>1, <2>1, <2>3, <3>1 DEF Apart
    <3> QED BY <1>6, <2>a, <3>1, <3>2
  <2>4. CASE v = s
    <3>1. h \in tx[u].held /\ u \in Sessions \ {s} /\ g \in t.held
      BY <1>2, <2>1, <2>4
    <3>2. g \in tx[s].held => ~ Conflict(h, g)
      BY <1>1, <2>1, <2>4, <3>1 DEF Apart
    <3> QED BY <3>1, <3>2
  <2> QED BY <2>2, <2>3, <2>4
<1> QED BY <1>3, <1>4, <1>5, <1>7 DEF IInv

LEMMA RollBackKeeps ==
    ASSUME SettlementAssumption, IInv, NEW s \in Sessions, RollBack(s)
    PROVE  IInv'
<1>1. Idle \in Transactions /\ Idle.held = {}
  BY IdleIs
<1>2. tx' = [tx EXCEPT ![s] = Idle] /\ UNCHANGED <<scene, data>>
  BY DEF RollBack, Ends
<1>3. tx'[s] = Idle
  BY <1>2 DEF IInv, TypeOK
<1>4. Keeps(s)' /\ Own(s)' /\ Facts(s)'
  BY <1>3, IdleKeeps
<1> QED BY <1>1, <1>2, <1>4, SessionStep

LEMMA LockKeeps ==
    ASSUME SettlementAssumption, IInv, NEW s \in Sessions, Lock(s)
    PROVE  IInv'
<1> DEFINE l == Head(tx[s].need)
           t == [tx[s] EXCEPT !.need = Tail(@), !.held = @ \cup {l}]
<1>1. TypeOK /\ Keeps(s) /\ Own(s) /\ Facts(s) /\ tx[s] \in Transactions /\ tx[s].need # << >>
  BY DEF IInv, SessionInv, TypeOK, Lock
<1>2. tx[s].need \in Seq(Locks) /\ tx[s].held \in SUBSET Locks
  BY <1>1, LockTypes
<1>3. PICK q \in Seq(Locks) : q = tx[s].need
  BY <1>2
<1>4. /\ l \in Locks /\ Tail(tx[s].need) \in Seq(Locks) /\ Ascending(Tail(tx[s].need))
      /\ Listed(tx[s].need) = {l} \cup Listed(Tail(tx[s].need))
      /\ \A b \in Listed(Tail(tx[s].need)) : Before(l, b)
  <2>1. q # << >> /\ Ascending(q)
    BY <1>1, <1>3 DEF Keeps
  <2> QED BY <1>3, <2>1, HeadOfList
<1>5. t \in Transactions
  <2> HIDE DEF l
  <2> QED BY <1>1, <1>2, <1>4 DEF Transactions
<1>6. tx' = [tx EXCEPT ![s] = t] /\ UNCHANGED <<scene, data>>
  BY <1>1 DEF Lock, TypeOK
<1>7. /\ t.op = tx[s].op /\ t.id = tx[s].id /\ t.bank = tx[s].bank /\ t.to = tx[s].to /\ t.doc = tx[s].doc
      /\ t.parts = tx[s].parts /\ t.want = tx[s].want /\ t.payable = tx[s].payable
      /\ t.checked = tx[s].checked /\ t.saw = tx[s].saw
      /\ t.need = Tail(tx[s].need) /\ t.held = tx[s].held \cup {l}
  <2> HIDE DEF l
  <2> QED BY <1>1 DEF Transactions
<1>8. tx'[s] = t
  BY <1>6, <1>1 DEF TypeOK
<1> HIDE DEF t, l
<1>9. balance' = balance /\ row' = row /\ cheque' = cheque /\ doc' = doc
  BY <1>6 DEF data
<1>10. /\ BanksOf(s)' = BanksOf(s) /\ RowsOf(s)' = RowsOf(s) /\ ChequesOf(s)' = ChequesOf(s)
       /\ DocsOf(s)' = DocsOf(s) /\ DocMode(s)' = DocMode(s)
  BY <1>7, <1>8, <1>9 DEF BanksOf, RowsOf, ChequesOf, DocsOf, DocMode, SidesOf
<1>11. Asked(s)' = Asked(s) /\ Wanted(s)' = Wanted(s)
  BY <1>4, <1>7, <1>8, <1>10 DEF Asked, Wanted
<1>12. Keeps(s)'
  <2>1. tx[s].op # "none"
    BY <1>1, IdleIs DEF Keeps
  <2>2. ~ t.checked => \A h \in t.held, n \in Listed(t.need) : Before(h, n)
    BY <1>1, <1>4, <1>7 DEF Keeps
  <2>3. \A n \in Listed(t.need) : n \in Listed(tx[s].need)
    BY <1>4, <1>7
  <2>4. t.op \in DocumentOps => t.need = << >>
    BY <1>1, <1>7 DEF Keeps
  <2> QED BY <1>1, <1>4, <1>7, <1>8, <1>11, <2>1, <2>2, <2>3, <2>4 DEF Keeps
<1>13. Own(s)'
  BY <1>1, <1>7, <1>8, <1>9 DEF Own, IssuedFrom
<1>14. /\ \A d : Settled(d)' = Settled(d)
       /\ \A r : Live(r)' = Live(r) /\ SidesOf(r)' = SidesOf(r) /\ Back(r)' = Back(r)
       /\ \A c : Lapsed(c)' = Lapsed(c) /\ Clears(c)' = Clears(c) /\ chequeNextStatuses(c)' = chequeNextStatuses(c)
       /\ \A r, d : RowShare(r, d)' = RowShare(r, d)
       /\ \A c, d : ChequeShare(c, d)' = ChequeShare(c, d)
  BY <1>9 DEF Settled, SettledByRows, SettledByCheques, RowShare, LinkShare, Live, ChequeShare, Lapsed, SidesOf, Back,
              Clears, chequeNextStatuses
<1>15. /\ \A d, amount, kept : Room(d, amount, kept)' = Room(d, amount, kept)
       /\ \A d, payable : Covers(d, payable)' = Covers(d, payable)
  BY <1>9, <1>14 DEF Room, Covers
<1>16. Facts(s)'
  BY <1>1, <1>7, <1>8, <1>9, <1>10, <1>14, <1>15 DEF Facts, Claims
<1>17. \A h \in t.held : h \in tx[s].held \/ \A p \in Sessions \ {s} : \A g \in tx[p].held : ~ Conflict(g, h)
  BY <1>7 DEF Lock, Blockers, l
<1> QED BY <1>5, <1>6, <1>12, <1>13, <1>16, <1>17, SessionStep

-----------------------------------------------------------------------------
(* A session begins: it asks for the locks it will work under, in order.    *)

Proper(q, L) == q \in Seq(Locks) /\ Ascending(q) /\ Listed(q) = L

LEMMA LockLists ==
    ASSUME SettlementAssumption
    PROVE  /\ Proper(<< >>, {})
           /\ \A ids \in SUBSET Banks : Proper(lockTreasuryBanks(ids), LocksOn("bank", ids, Update))
           /\ \A ids \in SUBSET Docs : Proper(lockSettlementDocuments(ids), LocksOn("doc", ids, NoKeyUpdate))
           /\ \A ids \in SUBSET Rows : Proper(lockRows(ids), LocksOn("row", ids, Update))
           /\ \A c \in Cheques : Proper(lockCheque(c), LocksOn("cheque", {c}, Update))
           /\ \A d \in Docs : Proper(lockDocument(d), LocksOn("doc", {d}, Update))
           /\ \A b \in Banks \cup {0} : Proper(shareBank(b), LocksOn("bank", {b} \ {0}, Share))
           /\ \A d \in Docs \cup {0} : Proper(referenceDocument(d), LocksOn("doc", {d} \ {0}, KeyShare))
<1>1. /\ \A ids \in SUBSET Banks : ids \in SUBSET Nat /\ IsFiniteSet(ids)
      /\ \A ids \in SUBSET Docs : ids \in SUBSET Nat /\ IsFiniteSet(ids)
      /\ \A ids \in SUBSET Rows : ids \in SUBSET Nat /\ IsFiniteSet(ids)
      /\ \A ids \in SUBSET Cheques : ids \in SUBSET Nat /\ IsFiniteSet(ids)
  BY FS_Subset DEF SettlementAssumption
<1>2. Update \in 1..4 /\ NoKeyUpdate \in 1..4 /\ Share \in 1..4 /\ KeyShare \in 1..4
      /\ "bank" \in Kinds /\ "doc" \in Kinds /\ "row" \in Kinds /\ "cheque" \in Kinds
  BY DEF Update, NoKeyUpdate, Share, KeyShare, Kinds
<1>3. \A on \in Kinds, ids \in SUBSET Nat, mode \in 1..4 :
          IsFiniteSet(ids) => Proper(InOrder(on, ids, mode), LocksOn(on, ids, mode))
  BY InOrderIs DEF Proper
<1>4. Proper(<< >>, {})
  BY EmptyList DEF Proper
<1>5. \A ids \in SUBSET Banks : Proper(lockTreasuryBanks(ids), LocksOn("bank", ids, Update))
  BY <1>1, <1>2, <1>3 DEF lockTreasuryBanks
<1>6. \A ids \in SUBSET Docs : Proper(lockSettlementDocuments(ids), LocksOn("doc", ids, NoKeyUpdate))
  BY <1>1, <1>2, <1>3 DEF lockSettlementDocuments
<1>7. \A ids \in SUBSET Rows : Proper(lockRows(ids), LocksOn("row", ids, Update))
  BY <1>1, <1>2, <1>3 DEF lockRows
<1>8. \A c \in Cheques : Proper(lockCheque(c), LocksOn("cheque", {c}, Update))
  BY <1>1, <1>2, <1>3 DEF lockCheque
<1>9. \A d \in Docs : Proper(lockDocument(d), LocksOn("doc", {d}, Update))
  BY <1>1, <1>2, <1>3 DEF lockDocument
<1>10. LocksOn("bank", {}, Share) = {} /\ LocksOn("doc", {}, KeyShare) = {} /\ 0 \notin Banks /\ 0 \notin Docs
  BY DEF LocksOn, SettlementAssumption
<1>11. ASSUME NEW b \in Banks \cup {0} PROVE Proper(shareBank(b), LocksOn("bank", {b} \ {0}, Share))
  <2>1. CASE b = 0
    <3>1. {b} \ {0} = {} /\ shareBank(b) = << >>
      BY <2>1 DEF shareBank
    <3> QED BY <1>4, <1>10, <3>1
  <2>2. CASE b # 0
    <3>1. {b} \ {0} = {b} /\ shareBank(b) = InOrder("bank", {b}, Share) /\ {b} \in SUBSET Banks
      BY <2>2 DEF shareBank
    <3>2. {b} \in SUBSET Nat /\ IsFiniteSet({b})
      BY <1>1, <3>1
    <3>3. Proper(InOrder("bank", {b}, Share), LocksOn("bank", {b}, Share))
      BY <1>2, <1>3, <3>2
    <3> QED BY <3>1, <3>3
  <2> QED BY <2>1, <2>2
<1>12. ASSUME NEW d \in Docs \cup {0} PROVE Proper(referenceDocument(d), LocksOn("doc", {d} \ {0}, KeyShare))
  <2>1. CASE d = 0
    <3>1. {d} \ {0} = {} /\ referenceDocument(d) = << >>
      BY <2>1 DEF referenceDocument
    <3> QED BY <1>4, <1>10, <3>1
  <2>2. CASE d # 0
    <3>1. {d} \ {0} = {d} /\ referenceDocument(d) = InOrder("doc", {d}, KeyShare) /\ {d} \in SUBSET Docs
      BY <2>2 DEF referenceDocument
    <3>2. {d} \in SUBSET Nat /\ IsFiniteSet({d})
      BY <1>1, <3>1
    <3>3. Proper(InOrder("doc", {d}, KeyShare), LocksOn("doc", {d}, KeyShare))
      BY <1>2, <1>3, <3>2
    <3> QED BY <3>1, <3>3
  <2> QED BY <2>1, <2>2
<1> QED BY <1>4, <1>5, <1>6, <1>7, <1>8, <1>9, <1>11, <1>12

(* Lists of two kinds, the earlier kind first.                              *)
LEMMA ProperJoin ==
    ASSUME NEW p, NEW q, NEW K, NEW L, Proper(p, K), Proper(q, L), \A a \in K, b \in L : RankOf[a.on] < RankOf[b.on]
    PROVE  Proper(p \o q, K \cup L)
BY JoinedLists DEF Proper, Before

LEMMA KindsInOrder ==
    ASSUME NEW ids, NEW jds, NEW m, NEW n
    PROVE  /\ \A a \in LocksOn("bank", ids, m), b \in LocksOn("cheque", jds, n) : RankOf[a.on] < RankOf[b.on]
           /\ \A a \in LocksOn("bank", ids, m), b \in LocksOn("doc", jds, n) : RankOf[a.on] < RankOf[b.on]
           /\ \A a \in LocksOn("bank", ids, m), b \in LocksOn("row", jds, n) : RankOf[a.on] < RankOf[b.on]
           /\ \A a \in LocksOn("cheque", ids, m), b \in LocksOn("doc", jds, n) : RankOf[a.on] < RankOf[b.on]
           /\ \A a \in LocksOn("doc", ids, m), b \in LocksOn("row", jds, n) : RankOf[a.on] < RankOf[b.on]
<1>1. RankOf["bank"] = 1 /\ RankOf["cheque"] = 2 /\ RankOf["doc"] = 3 /\ RankOf["row"] = 4
  BY DEF RankOf, Kinds
<1>2. \A on, is, mode : \A l \in LocksOn(on, is, mode) : l.on = on
  BY DEF LocksOn
<1> QED BY <1>1, <1>2

(* What holds of a session that has just begun.                             *)
LEMMA Begun ==
    ASSUME SettlementAssumption, IInv, NEW s \in Sessions, NEW t \in Transactions, Begins(s, t),
           t.op \in Operations, t.held = {}, t.checked = FALSE, NEW L, Proper(t.need, L),
           t.op \in DocumentOps => Tail(t.need) = << >>,
           \A l \in L : l.id \in Banks \cup Docs \cup Rows \cup Cheques,
           \A l \in L : l.on = "doc" /\ l.mode = Update => t.op \in DocumentOps,
           Wanted(s)' \subseteq L, Own(s)'
    PROVE  IInv'
<1>1. tx' = [tx EXCEPT ![s] = t] /\ UNCHANGED <<scene, data>>
  BY DEF Begins
<1>2. tx'[s] = t
  BY <1>1 DEF IInv, TypeOK
<1>3. t.op # "none"
  BY DEF Operations
<1>4. Ascending(t.need) /\ Listed(t.need) = L
  BY DEF Proper
<1>5. Asked(s)' = L
  BY <1>2, <1>4 DEF Asked
<1>6. Keeps(s)'
  BY <1>2, <1>3, <1>4, <1>5 DEF Keeps
<1>7. Facts(s)'
  BY <1>2 DEF Facts
<1> QED BY <1>1, <1>6, <1>7, SessionStep

(* What a session begins with.                                              *)
Arguments(op, id, bank, to, d, parts, want, payable) ==
    /\ op \in Operations /\ id \in Nat /\ bank \in Banks \cup {0} /\ to \in Banks \cup {0} /\ d \in Docs \cup {0}
    /\ parts \in Parts /\ want \in Wants /\ payable \in 0..MaxPayable

IsFresh(t, op, id, bank, to, d, parts, want, payable, need) ==
    /\ t \in Transactions /\ t.op = op /\ t.id = id /\ t.bank = bank /\ t.to = to /\ t.doc = d /\ t.parts = parts
    /\ t.want = want /\ t.payable = payable /\ t.need = need /\ t.held = {} /\ t.checked = FALSE

LEMMA ReceiptIsFresh ==
    ASSUME SettlementAssumption, NEW need \in Seq(Locks), NEW b, NEW d, NEW parts,
           Arguments("receipt", 0, b, 0, d, parts, "none", 0)
    PROVE  IsFresh([Idle EXCEPT !.op = "receipt", !.bank = b, !.doc = d, !.parts = parts, !.need = need],
                   "receipt", 0, b, 0, d, parts, "none", 0, need)
<1>1. PICK i : i = Idle
  OBVIOUS
<1>2. /\ i \in Transactions
      /\ i.op = "none" /\ i.id = 0 /\ i.bank = 0 /\ i.to = 0 /\ i.doc = 0
      /\ i.parts = NoParts /\ i.want = "none" /\ i.payable = 0 /\ i.held = {} /\ i.checked = FALSE
  BY <1>1, IdleIs
<1>3. PICK t : t = [i EXCEPT !.op = "receipt", !.bank = b, !.doc = d, !.parts = parts, !.need = need]
  OBVIOUS
<1>4. t \in Transactions
  BY <1>2, <1>3 DEF Transactions, Arguments
<1>5. /\ t.op = "receipt" /\ t.need = need /\ t.bank = b /\ t.doc = d /\ t.parts = parts
      /\ t.id = i.id /\ t.to = i.to /\ t.want = i.want /\ t.payable = i.payable /\ t.held = i.held /\ t.checked = i.checked
  BY <1>2, <1>3 DEF Transactions
<1> QED BY <1>1, <1>2, <1>3, <1>4, <1>5 DEF IsFresh

LEMMA PaymentIsFresh ==
    ASSUME SettlementAssumption, NEW need \in Seq(Locks), NEW b,
           Arguments("payment", 0, b, 0, 0, NoParts, "none", 0)
    PROVE  IsFresh([Idle EXCEPT !.op = "payment", !.bank = b, !.need = need],
                   "payment", 0, b, 0, 0, NoParts, "none", 0, need)
<1>1. PICK i : i = Idle
  OBVIOUS
<1>2. /\ i \in Transactions
      /\ i.op = "none" /\ i.id = 0 /\ i.bank = 0 /\ i.to = 0 /\ i.doc = 0
      /\ i.parts = NoParts /\ i.want = "none" /\ i.payable = 0 /\ i.held = {} /\ i.checked = FALSE
  BY <1>1, IdleIs
<1>3. PICK t : t = [i EXCEPT !.op = "payment", !.bank = b, !.need = need]
  OBVIOUS
<1>4. t \in Transactions
  BY <1>2, <1>3 DEF Transactions, Arguments
<1>5. /\ t.op = "payment" /\ t.need = need /\ t.bank = b
      /\ t.id = i.id /\ t.to = i.to /\ t.doc = i.doc /\ t.parts = i.parts /\ t.want = i.want /\ t.payable = i.payable /\ t.held = i.held /\ t.checked = i.checked
  BY <1>2, <1>3 DEF Transactions
<1> QED BY <1>1, <1>2, <1>3, <1>4, <1>5 DEF IsFresh

LEMMA TransferIsFresh ==
    ASSUME SettlementAssumption, NEW need \in Seq(Locks), NEW b, NEW c,
           Arguments("transfer", 0, b, c, 0, NoParts, "none", 0)
    PROVE  IsFresh([Idle EXCEPT !.op = "transfer", !.bank = b, !.to = c, !.need = need],
                   "transfer", 0, b, c, 0, NoParts, "none", 0, need)
<1>1. PICK i : i = Idle
  OBVIOUS
<1>2. /\ i \in Transactions
      /\ i.op = "none" /\ i.id = 0 /\ i.bank = 0 /\ i.to = 0 /\ i.doc = 0
      /\ i.parts = NoParts /\ i.want = "none" /\ i.payable = 0 /\ i.held = {} /\ i.checked = FALSE
  BY <1>1, IdleIs
<1>3. PICK t : t = [i EXCEPT !.op = "transfer", !.bank = b, !.to = c, !.need = need]
  OBVIOUS
<1>4. t \in Transactions
  BY <1>2, <1>3 DEF Transactions, Arguments
<1>5. /\ t.op = "transfer" /\ t.need = need /\ t.bank = b /\ t.to = c
      /\ t.id = i.id /\ t.doc = i.doc /\ t.parts = i.parts /\ t.want = i.want /\ t.payable = i.payable /\ t.held = i.held /\ t.checked = i.checked
  BY <1>2, <1>3 DEF Transactions
<1> QED BY <1>1, <1>2, <1>3, <1>4, <1>5 DEF IsFresh

LEMMA VoidIsFresh ==
    ASSUME SettlementAssumption, NEW need \in Seq(Locks), NEW id,
           Arguments("void", id, 0, 0, 0, NoParts, "none", 0)
    PROVE  IsFresh([Idle EXCEPT !.op = "void", !.id = id, !.need = need],
                   "void", id, 0, 0, 0, NoParts, "none", 0, need)
<1>1. PICK i : i = Idle
  OBVIOUS
<1>2. /\ i \in Transactions
      /\ i.op = "none" /\ i.id = 0 /\ i.bank = 0 /\ i.to = 0 /\ i.doc = 0
      /\ i.parts = NoParts /\ i.want = "none" /\ i.payable = 0 /\ i.held = {} /\ i.checked = FALSE
  BY <1>1, IdleIs
<1>3. PICK t : t = [i EXCEPT !.op = "void", !.id = id, !.need = need]
  OBVIOUS
<1>4. t \in Transactions
  BY <1>2, <1>3 DEF Transactions, Arguments
<1>5. /\ t.op = "void" /\ t.need = need /\ t.id = id
      /\ t.bank = i.bank /\ t.to = i.to /\ t.doc = i.doc /\ t.parts = i.parts /\ t.want = i.want /\ t.payable = i.payable /\ t.held = i.held /\ t.checked = i.checked
  BY <1>2, <1>3 DEF Transactions
<1> QED BY <1>1, <1>2, <1>3, <1>4, <1>5 DEF IsFresh

LEMMA RelinkIsFresh ==
    ASSUME SettlementAssumption, NEW need \in Seq(Locks), NEW id, NEW d,
           Arguments("relink", id, 0, 0, d, NoParts, "none", 0)
    PROVE  IsFresh([Idle EXCEPT !.op = "relink", !.id = id, !.doc = d, !.need = need],
                   "relink", id, 0, 0, d, NoParts, "none", 0, need)
<1>1. PICK i : i = Idle
  OBVIOUS
<1>2. /\ i \in Transactions
      /\ i.op = "none" /\ i.id = 0 /\ i.bank = 0 /\ i.to = 0 /\ i.doc = 0
      /\ i.parts = NoParts /\ i.want = "none" /\ i.payable = 0 /\ i.held = {} /\ i.checked = FALSE
  BY <1>1, IdleIs
<1>3. PICK t : t = [i EXCEPT !.op = "relink", !.id = id, !.doc = d, !.need = need]
  OBVIOUS
<1>4. t \in Transactions
  BY <1>2, <1>3 DEF Transactions, Arguments
<1>5. /\ t.op = "relink" /\ t.need = need /\ t.id = id /\ t.doc = d
      /\ t.bank = i.bank /\ t.to = i.to /\ t.parts = i.parts /\ t.want = i.want /\ t.payable = i.payable /\ t.held = i.held /\ t.checked = i.checked
  BY <1>2, <1>3 DEF Transactions
<1> QED BY <1>1, <1>2, <1>3, <1>4, <1>5 DEF IsFresh

LEMMA ReplaceIsFresh ==
    ASSUME SettlementAssumption, NEW need \in Seq(Locks), NEW id, NEW parts,
           Arguments("replace", id, 0, 0, 0, parts, "none", 0)
    PROVE  IsFresh([Idle EXCEPT !.op = "replace", !.id = id, !.parts = parts, !.need = need],
                   "replace", id, 0, 0, 0, parts, "none", 0, need)
<1>1. PICK i : i = Idle
  OBVIOUS
<1>2. /\ i \in Transactions
      /\ i.op = "none" /\ i.id = 0 /\ i.bank = 0 /\ i.to = 0 /\ i.doc = 0
      /\ i.parts = NoParts /\ i.want = "none" /\ i.payable = 0 /\ i.held = {} /\ i.checked = FALSE
  BY <1>1, IdleIs
<1>3. PICK t : t = [i EXCEPT !.op = "replace", !.id = id, !.parts = parts, !.need = need]
  OBVIOUS
<1>4. t \in Transactions
  BY <1>2, <1>3 DEF Transactions, Arguments
<1>5. /\ t.op = "replace" /\ t.need = need /\ t.id = id /\ t.parts = parts
      /\ t.bank = i.bank /\ t.to = i.to /\ t.doc = i.doc /\ t.want = i.want /\ t.payable = i.payable /\ t.held = i.held /\ t.checked = i.checked
  BY <1>2, <1>3 DEF Transactions
<1> QED BY <1>1, <1>2, <1>3, <1>4, <1>5 DEF IsFresh

LEMMA ChequeIsFresh ==
    ASSUME SettlementAssumption, NEW need \in Seq(Locks), NEW b, NEW parts, NEW want,
           Arguments("cheque", 0, b, 0, 0, parts, want, 0)
    PROVE  IsFresh([Idle EXCEPT !.op = "cheque", !.want = want, !.bank = b, !.parts = parts, !.need = need],
                   "cheque", 0, b, 0, 0, parts, want, 0, need)
<1>1. PICK i : i = Idle
  OBVIOUS
<1>2. /\ i \in Transactions
      /\ i.op = "none" /\ i.id = 0 /\ i.bank = 0 /\ i.to = 0 /\ i.doc = 0
      /\ i.parts = NoParts /\ i.want = "none" /\ i.payable = 0 /\ i.held = {} /\ i.checked = FALSE
  BY <1>1, IdleIs
<1>3. PICK t : t = [i EXCEPT !.op = "cheque", !.want = want, !.bank = b, !.parts = parts, !.need = need]
  OBVIOUS
<1>4. t \in Transactions
  BY <1>2, <1>3 DEF Transactions, Arguments
<1>5. /\ t.op = "cheque" /\ t.need = need /\ t.want = want /\ t.bank = b /\ t.parts = parts
      /\ t.id = i.id /\ t.to = i.to /\ t.doc = i.doc /\ t.payable = i.payable /\ t.held = i.held /\ t.checked = i.checked
  BY <1>2, <1>3 DEF Transactions
<1> QED BY <1>1, <1>2, <1>3, <1>4, <1>5 DEF IsFresh

LEMMA StepIsFresh ==
    ASSUME SettlementAssumption, NEW need \in Seq(Locks), NEW id, NEW b, NEW want,
           Arguments("step", id, b, 0, 0, NoParts, want, 0)
    PROVE  IsFresh([Idle EXCEPT !.op = "step", !.id = id, !.want = want, !.bank = b, !.need = need],
                   "step", id, b, 0, 0, NoParts, want, 0, need)
<1>1. PICK i : i = Idle
  OBVIOUS
<1>2. /\ i \in Transactions
      /\ i.op = "none" /\ i.id = 0 /\ i.bank = 0 /\ i.to = 0 /\ i.doc = 0
      /\ i.parts = NoParts /\ i.want = "none" /\ i.payable = 0 /\ i.held = {} /\ i.checked = FALSE
  BY <1>1, IdleIs
<1>3. PICK t : t = [i EXCEPT !.op = "step", !.id = id, !.want = want, !.bank = b, !.need = need]
  OBVIOUS
<1>4. t \in Transactions
  BY <1>2, <1>3 DEF Transactions, Arguments
<1>5. /\ t.op = "step" /\ t.need = need /\ t.id = id /\ t.want = want /\ t.bank = b
      /\ t.to = i.to /\ t.doc = i.doc /\ t.parts = i.parts /\ t.payable = i.payable /\ t.held = i.held /\ t.checked = i.checked
  BY <1>2, <1>3 DEF Transactions
<1> QED BY <1>1, <1>2, <1>3, <1>4, <1>5 DEF IsFresh

LEMMA ReplaceChequeIsFresh ==
    ASSUME SettlementAssumption, NEW need \in Seq(Locks), NEW id, NEW parts,
           Arguments("replaceCheque", id, 0, 0, 0, parts, "none", 0)
    PROVE  IsFresh([Idle EXCEPT !.op = "replaceCheque", !.id = id, !.parts = parts, !.need = need],
                   "replaceCheque", id, 0, 0, 0, parts, "none", 0, need)
<1>1. PICK i : i = Idle
  OBVIOUS
<1>2. /\ i \in Transactions
      /\ i.op = "none" /\ i.id = 0 /\ i.bank = 0 /\ i.to = 0 /\ i.doc = 0
      /\ i.parts = NoParts /\ i.want = "none" /\ i.payable = 0 /\ i.held = {} /\ i.checked = FALSE
  BY <1>1, IdleIs
<1>3. PICK t : t = [i EXCEPT !.op = "replaceCheque", !.id = id, !.parts = parts, !.need = need]
  OBVIOUS
<1>4. t \in Transactions
  BY <1>2, <1>3 DEF Transactions, Arguments
<1>5. /\ t.op = "replaceCheque" /\ t.need = need /\ t.id = id /\ t.parts = parts
      /\ t.bank = i.bank /\ t.to = i.to /\ t.doc = i.doc /\ t.want = i.want /\ t.payable = i.payable /\ t.held = i.held /\ t.checked = i.checked
  BY <1>2, <1>3 DEF Transactions
<1> QED BY <1>1, <1>2, <1>3, <1>4, <1>5 DEF IsFresh

LEMMA DeleteChequeIsFresh ==
    ASSUME SettlementAssumption, NEW need \in Seq(Locks), NEW id,
           Arguments("deleteCheque", id, 0, 0, 0, NoParts, "none", 0)
    PROVE  IsFresh([Idle EXCEPT !.op = "deleteCheque", !.id = id, !.need = need],
                   "deleteCheque", id, 0, 0, 0, NoParts, "none", 0, need)
<1>1. PICK i : i = Idle
  OBVIOUS
<1>2. /\ i \in Transactions
      /\ i.op = "none" /\ i.id = 0 /\ i.bank = 0 /\ i.to = 0 /\ i.doc = 0
      /\ i.parts = NoParts /\ i.want = "none" /\ i.payable = 0 /\ i.held = {} /\ i.checked = FALSE
  BY <1>1, IdleIs
<1>3. PICK t : t = [i EXCEPT !.op = "deleteCheque", !.id = id, !.need = need]
  OBVIOUS
<1>4. t \in Transactions
  BY <1>2, <1>3 DEF Transactions, Arguments
<1>5. /\ t.op = "deleteCheque" /\ t.need = need /\ t.id = id
      /\ t.bank = i.bank /\ t.to = i.to /\ t.doc = i.doc /\ t.parts = i.parts /\ t.want = i.want /\ t.payable = i.payable /\ t.held = i.held /\ t.checked = i.checked
  BY <1>2, <1>3 DEF Transactions
<1> QED BY <1>1, <1>2, <1>3, <1>4, <1>5 DEF IsFresh

LEMMA DocumentIsFresh ==
    ASSUME SettlementAssumption, NEW need \in Seq(Locks), NEW op, NEW d, NEW want, NEW payable,
           Arguments(op, 0, 0, 0, d, NoParts, want, payable)
    PROVE  IsFresh([Idle EXCEPT !.op = op, !.doc = d, !.want = want, !.payable = payable, !.need = need],
                   op, 0, 0, 0, d, NoParts, want, payable, need)
<1>1. PICK i : i = Idle
  OBVIOUS
<1>2. /\ i \in Transactions
      /\ i.op = "none" /\ i.id = 0 /\ i.bank = 0 /\ i.to = 0 /\ i.doc = 0
      /\ i.parts = NoParts /\ i.want = "none" /\ i.payable = 0 /\ i.held = {} /\ i.checked = FALSE
  BY <1>1, IdleIs
<1>3. PICK t : t = [i EXCEPT !.op = op, !.doc = d, !.want = want, !.payable = payable, !.need = need]
  OBVIOUS
<1>4. t \in Transactions
  BY <1>2, <1>3 DEF Transactions, Arguments
<1>5. /\ t.op = op /\ t.need = need /\ t.doc = d /\ t.want = want /\ t.payable = payable
      /\ t.id = i.id /\ t.bank = i.bank /\ t.to = i.to /\ t.parts = i.parts /\ t.held = i.held /\ t.checked = i.checked
  BY <1>2, <1>3 DEF Transactions
<1> QED BY <1>1, <1>2, <1>3, <1>4, <1>5 DEF IsFresh

LEMMA SceneTypes ==
    ASSUME SettlementAssumption, TypeOK
    PROVE  /\ scene.banks \in SUBSET Banks /\ scene.docs \in SUBSET Docs /\ scene.rows \in SUBSET Rows
           /\ scene.splits \in SUBSET Parts /\ scene.ops \in SUBSET Operations
<1>1. scene \in [ops : SUBSET Operations, banks : SUBSET Banks, docs : SUBSET Docs,
                 rows : SUBSET Rows, splits : SUBSET Parts, start : {"proforma", "final"}]
  BY DEF SettlementAssumption, TypeOK
<1> QED BY <1>1

LEMMA ConstantFacts ==
    ASSUME SettlementAssumption
    PROVE  /\ NoParts \in Parts /\ Total(NoParts) <= Amount /\ Chosen(NoParts) = {}
           /\ \A parts : Chosen(parts) \in SUBSET Docs
           /\ 0 \in Nat /\ 0 \notin Banks /\ 0 \notin Docs /\ 0 \notin Rows /\ 0 \notin Cheques /\ 0 \in 0..MaxPayable
           /\ Rows \subseteq Nat /\ Cheques \subseteq Nat /\ Docs \subseteq Nat /\ Banks \subseteq Nat
           /\ "none" \in Wants
           /\ \A on, m : LocksOn(on, {}, m) = {}
           /\ \A on, ids, m : \A l \in LocksOn(on, ids, m) : l.on = on /\ l.id \in ids /\ l.mode = m
           /\ Update = 4 /\ NoKeyUpdate = 3 /\ Share = 2 /\ KeyShare = 1
<1>1. NoParts \in Parts /\ Total(NoParts) <= Amount /\ Chosen(NoParts) = {}
  BY NothingSettles DEF SettlementAssumption
<1>2. \A parts : Chosen(parts) \in SUBSET Docs
  BY DEF Chosen
<1>3. /\ 0 \in Nat /\ 0 \notin Banks /\ 0 \notin Docs /\ 0 \notin Rows /\ 0 \notin Cheques /\ 0 \in 0..MaxPayable
      /\ Rows \subseteq Nat /\ Cheques \subseteq Nat /\ Docs \subseteq Nat /\ Banks \subseteq Nat
  BY DEF SettlementAssumption
<1>4. (\A on, m : LocksOn(on, {}, m) = {})
      /\ \A on, ids, m : \A l \in LocksOn(on, ids, m) : l.on = on /\ l.id \in ids /\ l.mode = m
  BY DEF LocksOn
<1>5. "none" \in Wants /\ Update = 4 /\ NoKeyUpdate = 3 /\ Share = 2 /\ KeyShare = 1
  BY DEF Wants, Update, NoKeyUpdate, Share, KeyShare
<1> QED BY <1>1, <1>2, <1>3, <1>4, <1>5

(* Locks a session of this kind may ask for.                                *)
Fitting(L, op) ==
    \A l \in L : /\ l.id \in Banks \cup Docs \cup Rows \cup Cheques
                 /\ l.on = "doc" /\ l.mode = Update => op \in DocumentOps

LEMMA FreshFacts ==
    ASSUME IInv, NEW s \in Sessions, NEW op, NEW id, NEW bank, NEW to, NEW d, NEW parts,
           NEW want, NEW payable, NEW need, NEW t, IsFresh(t, op, id, bank, to, d, parts, want, payable, need),
           Begins(s, t)
    PROVE  /\ tx'[s].op = op /\ tx'[s].id = id /\ tx'[s].bank = bank /\ tx'[s].to = to /\ tx'[s].doc = d
           /\ tx'[s].parts = parts /\ tx'[s].want = want /\ tx'[s].payable = payable
           /\ balance' = balance /\ row' = row /\ cheque' = cheque /\ doc' = doc
<1>1. tx'[s] = t /\ UNCHANGED data
  BY DEF IInv, TypeOK, Begins
<1> QED BY <1>1 DEF data, IsFresh

LEMMA Started ==
    ASSUME SettlementAssumption, IInv, NEW s \in Sessions, NEW op \in Operations, NEW id, NEW bank, NEW to, NEW d, NEW parts,
           NEW want, NEW payable, NEW need, NEW t, IsFresh(t, op, id, bank, to, d, parts, want, payable, need),
           Begins(s, t), NEW L, Proper(need, L), Fitting(L, op), op \in DocumentOps => Tail(need) = << >>,
           Wanted(s)' \subseteq L, Own(s)'
    PROVE  IInv'
<1>1. /\ \A l \in L : l.id \in Banks \cup Docs \cup Rows \cup Cheques
      /\ \A l \in L : l.on = "doc" /\ l.mode = Update => t.op \in DocumentOps
  BY DEF Fitting, IsFresh
<1>2. t \in Transactions /\ t.op \in Operations /\ t.held = {} /\ t.checked = FALSE /\ Proper(t.need, L)
      /\ (t.op \in DocumentOps => Tail(t.need) = << >>)
  BY DEF IsFresh
<1> QED BY <1>1, <1>2, Begun

LEMMA FittingSet ==
    ASSUME NEW op, NEW on, NEW m, NEW ids \in SUBSET (Banks \cup Docs \cup Rows \cup Cheques),
           on # "doc" \/ m # Update \/ op \in DocumentOps
    PROVE  Fitting(LocksOn(on, ids, m), op)
<1>1. ASSUME NEW l \in LocksOn(on, ids, m)
      PROVE  l.id \in Banks \cup Docs \cup Rows \cup Cheques /\ (l.on = "doc" /\ l.mode = Update => op \in DocumentOps)
  <2>1. PICK x \in ids : l = [on |-> on, id |-> x, mode |-> m]
    BY DEF LocksOn
  <2>2. l.on = on /\ l.id = x /\ l.mode = m
    BY <2>1
  <2> QED BY <2>2
<1> QED BY <1>1 DEF Fitting

LEMMA FittingSets ==
    ASSUME NEW op
    PROVE  /\ \A b \in Banks : Fitting(LocksOn("bank", {b}, Update), op)
           /\ \A ids \in SUBSET Banks : Fitting(LocksOn("bank", ids, Update), op)
           /\ \A ids \in SUBSET Banks : Fitting(LocksOn("bank", ids, Share), op)
           /\ \A r \in Rows : Fitting(LocksOn("row", {r}, Update), op)
           /\ \A b, c \in Banks : Fitting(LocksOn("bank", {b, c}, Update), op)
           /\ \A ids \in SUBSET Rows : Fitting(LocksOn("row", ids, Update), op)
           /\ \A c \in Cheques : Fitting(LocksOn("cheque", {c}, Update), op)
           /\ \A ids \in SUBSET Docs : Fitting(LocksOn("doc", ids, NoKeyUpdate), op)
           /\ \A d \in Docs : op \in DocumentOps => Fitting(LocksOn("doc", {d}, Update), op)
           /\ \A K, L : Fitting(K, op) /\ Fitting(L, op) => Fitting(K \cup L, op)
<1>1. "bank" # "doc" /\ "row" # "doc" /\ "cheque" # "doc" /\ NoKeyUpdate # Update
  BY DEF NoKeyUpdate, Update
<1>2. PICK All : All = Banks \cup Docs \cup Rows \cup Cheques
  OBVIOUS
<1>3. \A on, m : \A ids \in SUBSET All : (on # "doc" \/ m # Update \/ op \in DocumentOps) => Fitting(LocksOn(on, ids, m), op)
  BY <1>2, FittingSet
<1>4. /\ \A ids \in SUBSET Banks : ids \in SUBSET All
      /\ \A ids \in SUBSET Docs : ids \in SUBSET All
      /\ \A ids \in SUBSET Rows : ids \in SUBSET All
      /\ \A b \in Banks : {b} \in SUBSET All
      /\ \A c \in Cheques : {c} \in SUBSET All
      /\ \A d \in Docs : {d} \in SUBSET All
      /\ \A r \in Rows : {r} \in SUBSET All
      /\ \A b, c \in Banks : {b, c} \in SUBSET All
  BY <1>2
<1>5. \A K, L : Fitting(K, op) /\ Fitting(L, op) => Fitting(K \cup L, op)
  BY DEF Fitting
<1>6. /\ \A b \in Banks : Fitting(LocksOn("bank", {b}, Update), op)
      /\ \A ids \in SUBSET Banks : Fitting(LocksOn("bank", ids, Update), op)
  BY <1>1, <1>3, <1>4
<1>9. /\ \A r \in Rows : Fitting(LocksOn("row", {r}, Update), op)
      /\ \A b, c \in Banks : Fitting(LocksOn("bank", {b, c}, Update), op)
  BY <1>1, <1>3, <1>4
<1>7. /\ \A ids \in SUBSET Banks : Fitting(LocksOn("bank", ids, Share), op)
      /\ \A ids \in SUBSET Rows : Fitting(LocksOn("row", ids, Update), op)
      /\ \A c \in Cheques : Fitting(LocksOn("cheque", {c}, Update), op)
  BY <1>1, <1>3, <1>4
<1>8. /\ \A ids \in SUBSET Docs : Fitting(LocksOn("doc", ids, NoKeyUpdate), op)
      /\ \A d \in Docs : op \in DocumentOps => Fitting(LocksOn("doc", {d}, Update), op)
  BY <1>1, <1>3, <1>4
<1> QED BY <1>5, <1>6, <1>7, <1>8, <1>9

LEMMA ReceiptBegins ==
    ASSUME SettlementAssumption, IInv, NEW s \in Sessions, NEW b \in scene.banks, NEW d \in scene.docs \cup {0},
           NEW parts \in scene.splits, BeginReceipt(s, b, d, parts)
    PROVE  IInv'
<1>1. b \in Banks /\ d \in Docs \cup {0} /\ parts \in Parts
  BY SceneTypes DEF IInv
<1>2. PICK ids : ids = ({d} \ {0}) \cup Chosen(parts)
  OBVIOUS
<1>3. ids \in SUBSET Docs
  BY <1>1, <1>2, ConstantFacts
<1>4. PICK need : need = lockTreasuryBanks({b}) \o lockSettlementDocuments(ids)
  OBVIOUS
<1>5. PICK L : L = LocksOn("bank", {b}, Update) \cup LocksOn("doc", ids, NoKeyUpdate)
  OBVIOUS
<1>6. Proper(need, L)
  <2>1. Proper(lockTreasuryBanks({b}), LocksOn("bank", {b}, Update))
    BY <1>1, LockLists
  <2>2. Proper(lockSettlementDocuments(ids), LocksOn("doc", ids, NoKeyUpdate))
    BY <1>3, LockLists
  <2> QED BY <1>4, <1>5, <2>1, <2>2, ProperJoin, KindsInOrder
<1>7. PICK t : t = [Idle EXCEPT !.op = "receipt", !.bank = b, !.doc = d, !.parts = parts, !.need = need]
  OBVIOUS
<1>8. Begins(s, t) /\ Total(parts) <= Amount /\ (d = 0 \/ parts = NoParts)
  BY <1>2, <1>4, <1>7 DEF BeginReceipt
<1>9. "receipt" \in Operations /\ "receipt" \notin DocumentOps
  BY DEF Operations, DocumentOps
<1>10. IsFresh(t, "receipt", 0, b, 0, d, parts, "none", 0, need)
  <2>1. Arguments("receipt", 0, b, 0, d, parts, "none", 0) /\ need \in Seq(Locks)
    BY <1>1, <1>6, <1>9, ConstantFacts DEF Arguments, Proper
  <2> QED BY <1>7, <2>1, ReceiptIsFresh
<1>11. tx'[s].op = "receipt" /\ tx'[s].bank = b /\ tx'[s].doc = d /\ tx'[s].parts = parts
  BY <1>8, <1>10, FreshFacts
<1>12. BanksOf(s)' = {b} /\ RowsOf(s)' = {} /\ ChequesOf(s)' = {} /\ DocsOf(s)' = ids /\ DocMode(s)' = NoKeyUpdate
  BY <1>2, <1>9, <1>11 DEF BanksOf, RowsOf, ChequesOf, DocsOf, DocMode
<1>13. Wanted(s)' \subseteq L
  BY <1>5, <1>12, ConstantFacts DEF Wanted
<1>14. Own(s)'
  BY <1>1, <1>8, <1>9, <1>11 DEF Own
<1>15. Fitting(L, "receipt")
  <2>1. Fitting(LocksOn("bank", {b}, Update), "receipt")
    BY <1>1, FittingSets
  <2>2. Fitting(LocksOn("doc", ids, NoKeyUpdate), "receipt")
    BY <1>3, FittingSets
  <2> QED BY <1>5, <2>1, <2>2, FittingSets
<1> QED BY <1>6, <1>8, <1>9, <1>10, <1>13, <1>14, <1>15, Started

(* The two rows of a transfer, or the one row.                              *)
LEMMA SidesFacts ==
    ASSUME SettlementAssumption, IInv, NEW r \in Rows, row[r].status # "none"
    PROVE  /\ SidesOf(r) \in SUBSET Rows /\ r \in SidesOf(r)
           /\ {row[q].bank : q \in SidesOf(r)} \in SUBSET Banks
           /\ \A q \in SidesOf(r) : q \in Rows /\ row[q].bank \in Banks /\ row[q].status = row[r].status
           /\ row[r].pair # 0 => row[r].pair \in Rows /\ RowInv(row[r].pair)
<1>1. row[r] \in RowRecords /\ RowInv(r) /\ 0 \notin Rows
  BY ConstantFacts DEF IInv, TypeOK, RecordsInv
<1>2. row[r].pair \in Rows \cup {0}
  BY <1>1 DEF RowRecords
<1>3. row[r].pair # 0 => row[r].pair \in Rows /\ RowInv(row[r].pair) /\ row[row[r].pair].status = row[r].status
  BY <1>1, <1>2 DEF IInv, RecordsInv, RowInv
<1>4. row[r].pair # 0 => row[row[r].pair].bank \in Banks
  BY <1>3 DEF RowInv
<1>5. row[r].bank \in Banks
  BY <1>1 DEF RowInv
<1>6. r # 0 /\ SidesOf(r) = {r} \cup ({row[r].pair} \ {0})
  BY <1>1 DEF SidesOf
<1>7. \A q \in SidesOf(r) : q \in Rows /\ row[q].bank \in Banks /\ row[q].status = row[r].status
  BY <1>3, <1>4, <1>5, <1>6
<1> QED BY <1>3, <1>6, <1>7

LEMMA OneLock ==
    ASSUME SettlementAssumption, NEW d \in Docs
    PROVE  Tail(lockDocument(d)) = << >>
<1>1. PICK q : q = lockDocument(d)
  OBVIOUS
<1>2. q \in Seq(Locks)
  BY <1>1, LockLists DEF Proper
<1>3. Cardinality({d}) = 1 /\ Cardinality({d}) \in Nat
  BY FS_Singleton
<1>4. DOMAIN q = 1..1
  BY <1>1, <1>3 DEF lockDocument, InOrder
<1>5. Len(q) = 1
  BY <1>2, <1>4, LenProperties
<1>6. q # << >>
  BY <1>5, EmptySeq
<1>7. Tail(q) \in Seq(Locks) /\ Len(Tail(q)) = 0
  BY <1>2, <1>5, <1>6, HeadTailProperties
<1> QED BY <1>1, <1>7, EmptySeq

LEMMA PaymentBegins ==
    ASSUME SettlementAssumption, IInv, NEW s \in Sessions, NEW b \in scene.banks, BeginPayment(s, b)
    PROVE  IInv'
<1>1. b \in Banks
  BY SceneTypes DEF IInv
<1>4. PICK need : need = lockTreasuryBanks({b})
  OBVIOUS
<1>5. PICK L : L = LocksOn("bank", {b}, Update)
  OBVIOUS
<1>6. Proper(need, L)
  BY <1>1, <1>4, <1>5, LockLists
<1>7. PICK t : t = [Idle EXCEPT !.op = "payment", !.bank = b, !.need = need]
  OBVIOUS
<1>8. Begins(s, t)
  BY <1>4, <1>7 DEF BeginPayment
<1>9. "payment" \in Operations /\ "payment" \notin DocumentOps
  BY DEF Operations, DocumentOps
<1>10. IsFresh(t, "payment", 0, b, 0, 0, NoParts, "none", 0, need)
  <2>1. Arguments("payment", 0, b, 0, 0, NoParts, "none", 0) /\ need \in Seq(Locks)
    BY <1>1, <1>6, <1>9, ConstantFacts DEF Arguments, Proper
  <2> QED BY <1>7, <2>1, PaymentIsFresh
<1>11. tx'[s].op = "payment" /\ tx'[s].bank = b /\ tx'[s].doc = 0 /\ tx'[s].parts = NoParts
  BY <1>8, <1>10, FreshFacts
<1>12. BanksOf(s)' = {b} /\ RowsOf(s)' = {} /\ ChequesOf(s)' = {} /\ DocsOf(s)' = {} /\ DocMode(s)' = NoKeyUpdate
  BY <1>9, <1>11, ConstantFacts DEF BanksOf, RowsOf, ChequesOf, DocsOf, DocMode
<1>13. Wanted(s)' \subseteq L
  BY <1>5, <1>12, ConstantFacts DEF Wanted
<1>14. Own(s)'
  BY <1>1, <1>9, <1>11, ConstantFacts DEF Own
<1>15. Fitting(L, "payment")
  BY <1>1, <1>5, FittingSets
<1> QED BY <1>6, <1>8, <1>9, <1>10, <1>13, <1>14, <1>15, Started

LEMMA TransferBegins ==
    ASSUME SettlementAssumption, IInv, NEW s \in Sessions, NEW b \in scene.banks, NEW c \in scene.banks, BeginTransfer(s, b, c)
    PROVE  IInv'
<1>1. b \in Banks /\ c \in Banks
  BY SceneTypes DEF IInv
<1>4. PICK need : need = lockTreasuryBanks({b, c})
  OBVIOUS
<1>5. PICK L : L = LocksOn("bank", {b, c}, Update)
  OBVIOUS
<1>6. Proper(need, L)
  BY <1>1, <1>4, <1>5, LockLists
<1>7. PICK t : t = [Idle EXCEPT !.op = "transfer", !.bank = b, !.to = c, !.need = need]
  OBVIOUS
<1>8. Begins(s, t) /\ b # c
  BY <1>4, <1>7 DEF BeginTransfer
<1>9. "transfer" \in Operations /\ "transfer" \notin DocumentOps
  BY DEF Operations, DocumentOps
<1>10. IsFresh(t, "transfer", 0, b, c, 0, NoParts, "none", 0, need)
  <2>1. Arguments("transfer", 0, b, c, 0, NoParts, "none", 0) /\ need \in Seq(Locks)
    BY <1>1, <1>6, <1>9, ConstantFacts DEF Arguments, Proper
  <2> QED BY <1>7, <2>1, TransferIsFresh
<1>11. tx'[s].op = "transfer" /\ tx'[s].bank = b /\ tx'[s].to = c /\ tx'[s].doc = 0 /\ tx'[s].parts = NoParts
  BY <1>8, <1>10, FreshFacts
<1>12. BanksOf(s)' = {b, c} /\ RowsOf(s)' = {} /\ ChequesOf(s)' = {} /\ DocsOf(s)' = {} /\ DocMode(s)' = NoKeyUpdate
  BY <1>9, <1>11, ConstantFacts DEF BanksOf, RowsOf, ChequesOf, DocsOf, DocMode
<1>13. Wanted(s)' \subseteq L
  BY <1>5, <1>12, ConstantFacts DEF Wanted
<1>14. Own(s)'
  BY <1>1, <1>8, <1>9, <1>11, ConstantFacts DEF Own
<1>15. Fitting(L, "transfer")
  BY <1>1, <1>5, FittingSets
<1> QED BY <1>6, <1>8, <1>9, <1>10, <1>13, <1>14, <1>15, Started

LEMMA VoidBegins ==
    ASSUME SettlementAssumption, IInv, NEW s \in Sessions, NEW r \in Rows, BeginVoid(s, r)
    PROVE  IInv'
<1>1. TypeOK /\ row[r] \in RowRecords
  BY DEF IInv, TypeOK
<1>2. PICK ids : ids = SidesOf(r)
  OBVIOUS
<1>3. PICK banks : banks = {row[q].bank : q \in SidesOf(r)}
  OBVIOUS
<1>a. row[r].status # "none"
  BY DEF BeginVoid
<1>b. ids \in SUBSET Rows /\ banks \in SUBSET Banks
  BY <1>2, <1>3, <1>a, SidesFacts
<1>4. PICK need : need = lockTreasuryBanks(banks) \o lockRows(ids)
  OBVIOUS
<1>5. PICK L : L = LocksOn("bank", banks, Update) \cup LocksOn("row", ids, Update)
  OBVIOUS
<1>6. Proper(need, L)
  <2>1. Proper(lockTreasuryBanks(banks), LocksOn("bank", banks, Update))
    BY <1>b, LockLists
  <2>2. Proper(lockRows(ids), LocksOn("row", ids, Update))
    BY <1>b, LockLists
  <2> QED BY <1>4, <1>5, <2>1, <2>2, ProperJoin, KindsInOrder
<1>7. PICK t : t = [Idle EXCEPT !.op = "void", !.id = r, !.need = need]
  OBVIOUS
<1>8. Begins(s, t)
  BY <1>4, <1>7, <1>2, <1>3 DEF BeginVoid
<1>9. "void" \in Operations /\ "void" \notin DocumentOps
  BY DEF Operations, DocumentOps
<1>10. IsFresh(t, "void", r, 0, 0, 0, NoParts, "none", 0, need)
  <2>1. Arguments("void", r, 0, 0, 0, NoParts, "none", 0) /\ need \in Seq(Locks)
    BY <1>1, <1>6, <1>9, ConstantFacts DEF Arguments, Proper
  <2> QED BY <1>7, <2>1, VoidIsFresh
<1>11. tx'[s].op = "void" /\ tx'[s].id = r /\ tx'[s].doc = 0 /\ tx'[s].parts = NoParts /\ row' = row
  BY <1>8, <1>10, FreshFacts
<1>12. BanksOf(s)' = banks /\ RowsOf(s)' = ids /\ ChequesOf(s)' = {} /\ DocsOf(s)' = {} /\ DocMode(s)' = NoKeyUpdate
  BY <1>2, <1>3, <1>9, <1>11, ConstantFacts DEF BanksOf, RowsOf, ChequesOf, DocsOf, DocMode, SidesOf
<1>13. Wanted(s)' \subseteq L
  BY <1>5, <1>12, ConstantFacts DEF Wanted
<1>14. Own(s)'
  BY <1>1, <1>a, <1>9, <1>11, ConstantFacts DEF Own
<1>15. Fitting(L, "void")
  <2>1. Fitting(LocksOn("bank", banks, Update), "void")
    BY <1>b, FittingSets
  <2>2. Fitting(LocksOn("row", ids, Update), "void")
    BY <1>b, FittingSets
  <2> QED BY <1>5, <2>1, <2>2, FittingSets
<1> QED BY <1>6, <1>8, <1>9, <1>10, <1>13, <1>14, <1>15, Started

LEMMA RelinkBegins ==
    ASSUME SettlementAssumption, IInv, NEW s \in Sessions, NEW r \in Rows, NEW d \in scene.docs \cup {0}, BeginRelink(s, r, d)
    PROVE  IInv'
<1>1. TypeOK /\ d \in Docs \cup {0}
  BY SceneTypes DEF IInv
<1>2. PICK ids : ids = {d} \ {0}
  OBVIOUS
<1>a. row[r].status # "none" /\ row[r].type = "receipt" /\ row[r].pair = 0
  BY DEF BeginRelink
<1>3. PICK bank \in Banks : bank = row[r].bank
  BY <1>a DEF IInv, RecordsInv, RowInv
<1>b. ids \in SUBSET Docs
  BY <1>1, <1>2
<1>4. PICK need : need = lockTreasuryBanks({bank}) \o lockSettlementDocuments(ids) \o lockRows({r})
  OBVIOUS
<1>5. PICK L : L = LocksOn("bank", {bank}, Update) \cup LocksOn("doc", ids, NoKeyUpdate) \cup LocksOn("row", {r}, Update)
  OBVIOUS
<1>6. Proper(need, L)
  <2>1. Proper(lockTreasuryBanks({bank}), LocksOn("bank", {bank}, Update))
    BY LockLists
  <2>2. Proper(lockSettlementDocuments(ids), LocksOn("doc", ids, NoKeyUpdate))
    BY <1>b, LockLists
  <2>3. Proper(lockRows({r}), LocksOn("row", {r}, Update))
    BY LockLists
  <2>4. PICK K : K = LocksOn("bank", {bank}, Update) \cup LocksOn("doc", ids, NoKeyUpdate)
    OBVIOUS
  <2>5. PICK q : q = lockTreasuryBanks({bank}) \o lockSettlementDocuments(ids)
    OBVIOUS
  <2>6. Proper(q, K)
    BY <2>1, <2>2, <2>4, <2>5, ProperJoin, KindsInOrder
  <2>7. \A a \in K, b \in LocksOn("row", {r}, Update) : RankOf[a.on] < RankOf[b.on]
    BY <2>4, KindsInOrder
  <2>8. Proper(q \o lockRows({r}), K \cup LocksOn("row", {r}, Update))
    BY <2>3, <2>6, <2>7, ProperJoin
  <2> QED BY <1>4, <1>5, <2>4, <2>5, <2>8
<1>7. PICK t : t = [Idle EXCEPT !.op = "relink", !.id = r, !.doc = d, !.need = need]
  OBVIOUS
<1>8. Begins(s, t)
  BY <1>4, <1>7, <1>2, <1>3 DEF BeginRelink
<1>9. "relink" \in Operations /\ "relink" \notin DocumentOps
  BY DEF Operations, DocumentOps
<1>10. IsFresh(t, "relink", r, 0, 0, d, NoParts, "none", 0, need)
  <2>1. Arguments("relink", r, 0, 0, d, NoParts, "none", 0) /\ need \in Seq(Locks)
    BY <1>1, <1>6, <1>9, ConstantFacts DEF Arguments, Proper
  <2> QED BY <1>7, <2>1, RelinkIsFresh
<1>11. tx'[s].op = "relink" /\ tx'[s].id = r /\ tx'[s].doc = d /\ tx'[s].parts = NoParts /\ row' = row
  BY <1>8, <1>10, FreshFacts
<1>12. BanksOf(s)' = {} /\ RowsOf(s)' = {r} /\ ChequesOf(s)' = {} /\ DocsOf(s)' = ids /\ DocMode(s)' = NoKeyUpdate
  BY <1>2, <1>9, <1>11, ConstantFacts DEF BanksOf, RowsOf, ChequesOf, DocsOf, DocMode
<1>13. Wanted(s)' \subseteq L
  BY <1>5, <1>12, ConstantFacts DEF Wanted
<1>14. Own(s)'
  BY <1>1, <1>a, <1>9, <1>11, ConstantFacts DEF Own
<1>15. Fitting(L, "relink")
  <2>1. Fitting(LocksOn("bank", {bank}, Update), "relink")
    BY FittingSets
  <2>2. Fitting(LocksOn("doc", ids, NoKeyUpdate), "relink")
    BY <1>b, FittingSets
  <2>3. Fitting(LocksOn("row", {r}, Update), "relink")
    BY FittingSets
  <2>4. Fitting(LocksOn("bank", {bank}, Update) \cup LocksOn("doc", ids, NoKeyUpdate), "relink")
    BY <2>1, <2>2, FittingSets
  <2> QED BY <1>5, <2>3, <2>4, FittingSets
<1> QED BY <1>6, <1>8, <1>9, <1>10, <1>13, <1>14, <1>15, Started

LEMMA ReplaceBegins ==
    ASSUME SettlementAssumption, IInv, NEW s \in Sessions, NEW r \in Rows, NEW parts \in scene.splits, BeginReplace(s, r, parts)
    PROVE  IInv'
<1>1. TypeOK /\ parts \in Parts
  BY SceneTypes DEF IInv
<1>2. PICK ids : ids = Chosen(parts)
  OBVIOUS
<1>a. row[r].status # "none" /\ row[r].type = "receipt" /\ row[r].pair = 0 /\ Total(parts) <= Amount
  BY DEF BeginReplace
<1>b. ids \in SUBSET Docs
  BY <1>1, <1>2, ConstantFacts
<1>4. PICK need : need = lockSettlementDocuments(ids) \o lockRows({r})
  OBVIOUS
<1>5. PICK L : L = LocksOn("doc", ids, NoKeyUpdate) \cup LocksOn("row", {r}, Update)
  OBVIOUS
<1>6. Proper(need, L)
  <2>2. Proper(lockSettlementDocuments(ids), LocksOn("doc", ids, NoKeyUpdate))
    BY <1>b, LockLists
  <2>3. Proper(lockRows({r}), LocksOn("row", {r}, Update))
    BY LockLists
  <2> QED BY <1>4, <1>5, <2>2, <2>3, ProperJoin, KindsInOrder
<1>7. PICK t : t = [Idle EXCEPT !.op = "replace", !.id = r, !.parts = parts, !.need = need]
  OBVIOUS
<1>8. Begins(s, t)
  BY <1>4, <1>7, <1>2 DEF BeginReplace
<1>9. "replace" \in Operations /\ "replace" \notin DocumentOps
  BY DEF Operations, DocumentOps
<1>10. IsFresh(t, "replace", r, 0, 0, 0, parts, "none", 0, need)
  <2>1. Arguments("replace", r, 0, 0, 0, parts, "none", 0) /\ need \in Seq(Locks)
    BY <1>1, <1>6, <1>9, ConstantFacts DEF Arguments, Proper
  <2> QED BY <1>7, <2>1, ReplaceIsFresh
<1>11. tx'[s].op = "replace" /\ tx'[s].id = r /\ tx'[s].doc = 0 /\ tx'[s].parts = parts /\ row' = row
  BY <1>8, <1>10, FreshFacts
<1>12. BanksOf(s)' = {} /\ RowsOf(s)' = {r} /\ ChequesOf(s)' = {} /\ DocsOf(s)' = ids /\ DocMode(s)' = NoKeyUpdate
  BY <1>2, <1>9, <1>11, ConstantFacts DEF BanksOf, RowsOf, ChequesOf, DocsOf, DocMode
<1>13. Wanted(s)' \subseteq L
  BY <1>5, <1>12, ConstantFacts DEF Wanted
<1>14. Own(s)'
  BY <1>1, <1>a, <1>9, <1>11 DEF Own
<1>15. Fitting(L, "replace")
  <2>2. Fitting(LocksOn("doc", ids, NoKeyUpdate), "replace")
    BY <1>b, FittingSets
  <2>3. Fitting(LocksOn("row", {r}, Update), "replace")
    BY FittingSets
  <2> QED BY <1>5, <2>2, <2>3, FittingSets
<1> QED BY <1>6, <1>8, <1>9, <1>10, <1>13, <1>14, <1>15, Started

LEMMA ChequeBegins ==
    ASSUME SettlementAssumption, IInv, NEW s \in Sessions, NEW type \in {"received", "paid"}, NEW b \in scene.banks \cup {0},
           NEW parts \in scene.splits, BeginCheque(s, type, b, parts)
    PROVE  IInv'
<1>1. TypeOK /\ b \in Banks \cup {0} /\ parts \in Parts /\ type \in Wants
  BY SceneTypes DEF IInv, Wants, ChequeStatus
<1>2. PICK ids : ids = Chosen(parts)
  OBVIOUS
<1>3. PICK banks : banks = {b} \ {0}
  OBVIOUS
<1>a. Total(parts) <= Amount /\ (type = "paid" => parts = NoParts)
  BY DEF BeginCheque
<1>b. ids \in SUBSET Docs /\ banks \in SUBSET Banks
  BY <1>1, <1>2, <1>3, ConstantFacts
<1>4. PICK need : need = shareBank(b) \o lockSettlementDocuments(ids)
  OBVIOUS
<1>5. PICK L : L = LocksOn("bank", banks, Share) \cup LocksOn("doc", ids, NoKeyUpdate)
  OBVIOUS
<1>6. Proper(need, L)
  <2>2. Proper(lockSettlementDocuments(ids), LocksOn("doc", ids, NoKeyUpdate))
    BY <1>b, LockLists
  <2>3. Proper(shareBank(b), LocksOn("bank", banks, Share))
    BY <1>1, <1>3, LockLists
  <2> QED BY <1>4, <1>5, <2>2, <2>3, ProperJoin, KindsInOrder
<1>7. PICK t : t = [Idle EXCEPT !.op = "cheque", !.want = type, !.bank = b, !.parts = parts, !.need = need]
  OBVIOUS
<1>8. Begins(s, t)
  BY <1>4, <1>7, <1>2 DEF BeginCheque
<1>9. "cheque" \in Operations /\ "cheque" \notin DocumentOps
  BY DEF Operations, DocumentOps
<1>10. IsFresh(t, "cheque", 0, b, 0, 0, parts, type, 0, need)
  <2>1. Arguments("cheque", 0, b, 0, 0, parts, type, 0) /\ need \in Seq(Locks)
    BY <1>1, <1>6, <1>9, ConstantFacts DEF Arguments, Proper
  <2> QED BY <1>7, <2>1, ChequeIsFresh
<1>11. tx'[s].op = "cheque" /\ tx'[s].want = type /\ tx'[s].doc = 0 /\ tx'[s].parts = parts
  BY <1>8, <1>10, FreshFacts
<1>12. BanksOf(s)' = {} /\ RowsOf(s)' = {} /\ ChequesOf(s)' = {} /\ DocsOf(s)' = ids /\ DocMode(s)' = NoKeyUpdate
  BY <1>2, <1>9, <1>11, ConstantFacts DEF BanksOf, RowsOf, ChequesOf, DocsOf, DocMode
<1>13. Wanted(s)' \subseteq L
  BY <1>5, <1>12, ConstantFacts DEF Wanted
<1>14. Own(s)'
  BY <1>1, <1>a, <1>9, <1>11 DEF Own
<1>15. Fitting(L, "cheque")
  <2>2. Fitting(LocksOn("doc", ids, NoKeyUpdate), "cheque")
    BY <1>b, FittingSets
  <2>3. Fitting(LocksOn("bank", banks, Share), "cheque")
    BY <1>b, FittingSets
  <2> QED BY <1>5, <2>2, <2>3, FittingSets
<1> QED BY <1>6, <1>8, <1>9, <1>10, <1>13, <1>14, <1>15, Started

LEMMA ReplaceChequeBegins ==
    ASSUME SettlementAssumption, IInv, NEW s \in Sessions, NEW c \in Cheques, NEW parts \in scene.splits, BeginReplaceCheque(s, c, parts)
    PROVE  IInv'
<1>1. TypeOK /\ parts \in Parts
  BY SceneTypes DEF IInv
<1>2. PICK ids : ids = Chosen(parts)
  OBVIOUS
<1>a. Total(parts) <= Amount /\ cheque[c].type = "received" /\ cheque[c].status # "none"
  BY DEF BeginReplaceCheque
<1>b. ids \in SUBSET Docs
  BY <1>1, <1>2, ConstantFacts
<1>4. PICK need : need = lockCheque(c) \o lockSettlementDocuments(ids)
  OBVIOUS
<1>5. PICK L : L = LocksOn("cheque", {c}, Update) \cup LocksOn("doc", ids, NoKeyUpdate)
  OBVIOUS
<1>6. Proper(need, L)
  <2>2. Proper(lockSettlementDocuments(ids), LocksOn("doc", ids, NoKeyUpdate))
    BY <1>b, LockLists
  <2>3. Proper(lockCheque(c), LocksOn("cheque", {c}, Update))
    BY LockLists
  <2> QED BY <1>4, <1>5, <2>2, <2>3, ProperJoin, KindsInOrder
<1>7. PICK t : t = [Idle EXCEPT !.op = "replaceCheque", !.id = c, !.parts = parts, !.need = need]
  OBVIOUS
<1>8. Begins(s, t)
  BY <1>4, <1>7, <1>2 DEF BeginReplaceCheque
<1>9. "replaceCheque" \in Operations /\ "replaceCheque" \notin DocumentOps
  BY DEF Operations, DocumentOps
<1>10. IsFresh(t, "replaceCheque", c, 0, 0, 0, parts, "none", 0, need)
  <2>1. Arguments("replaceCheque", c, 0, 0, 0, parts, "none", 0) /\ need \in Seq(Locks)
    BY <1>1, <1>6, <1>9, ConstantFacts DEF Arguments, Proper
  <2> QED BY <1>7, <2>1, ReplaceChequeIsFresh
<1>11. tx'[s].op = "replaceCheque" /\ tx'[s].id = c /\ tx'[s].doc = 0 /\ tx'[s].parts = parts /\ cheque' = cheque
  BY <1>8, <1>10, FreshFacts
<1>12. BanksOf(s)' = {} /\ RowsOf(s)' = {} /\ ChequesOf(s)' = {c} /\ DocsOf(s)' = ids /\ DocMode(s)' = NoKeyUpdate
  BY <1>2, <1>9, <1>11, ConstantFacts DEF BanksOf, RowsOf, ChequesOf, DocsOf, DocMode
<1>13. Wanted(s)' \subseteq L
  BY <1>5, <1>12, ConstantFacts DEF Wanted
<1>14. Own(s)'
  BY <1>1, <1>a, <1>9, <1>11 DEF Own
<1>15. Fitting(L, "replaceCheque")
  <2>2. Fitting(LocksOn("doc", ids, NoKeyUpdate), "replaceCheque")
    BY <1>b, FittingSets
  <2>3. Fitting(LocksOn("cheque", {c}, Update), "replaceCheque")
    BY FittingSets
  <2> QED BY <1>5, <2>2, <2>3, FittingSets
<1> QED BY <1>6, <1>8, <1>9, <1>10, <1>13, <1>14, <1>15, Started

LEMMA DeleteChequeBegins ==
    ASSUME SettlementAssumption, IInv, NEW s \in Sessions, NEW c \in Cheques, BeginDeleteCheque(s, c)
    PROVE  IInv'
<1>1. TypeOK /\ cheque[c].status # "none"
  BY DEF IInv, BeginDeleteCheque
<1>4. PICK need : need = lockCheque(c)
  OBVIOUS
<1>5. PICK L : L = LocksOn("cheque", {c}, Update)
  OBVIOUS
<1>6. Proper(need, L)
  BY <1>4, <1>5, LockLists
<1>7. PICK t : t = [Idle EXCEPT !.op = "deleteCheque", !.id = c, !.need = need]
  OBVIOUS
<1>8. Begins(s, t)
  BY <1>4, <1>7 DEF BeginDeleteCheque
<1>9. "deleteCheque" \in Operations /\ "deleteCheque" \notin DocumentOps
  BY DEF Operations, DocumentOps
<1>10. IsFresh(t, "deleteCheque", c, 0, 0, 0, NoParts, "none", 0, need)
  <2>1. Arguments("deleteCheque", c, 0, 0, 0, NoParts, "none", 0) /\ need \in Seq(Locks)
    BY <1>1, <1>6, <1>9, ConstantFacts DEF Arguments, Proper
  <2> QED BY <1>7, <2>1, DeleteChequeIsFresh
<1>11. tx'[s].op = "deleteCheque" /\ tx'[s].id = c /\ tx'[s].doc = 0 /\ tx'[s].parts = NoParts /\ cheque' = cheque
  BY <1>8, <1>10, FreshFacts
<1>12. BanksOf(s)' = {} /\ RowsOf(s)' = {} /\ ChequesOf(s)' = {c} /\ DocsOf(s)' = {} /\ DocMode(s)' = NoKeyUpdate
  BY <1>9, <1>11, ConstantFacts DEF BanksOf, RowsOf, ChequesOf, DocsOf, DocMode
<1>13. Wanted(s)' \subseteq L
  BY <1>5, <1>12, ConstantFacts DEF Wanted
<1>14. Own(s)'
  BY <1>1, <1>9, <1>11, ConstantFacts DEF Own
<1>15. Fitting(L, "deleteCheque")
  BY <1>5, FittingSets
<1> QED BY <1>6, <1>8, <1>9, <1>10, <1>13, <1>14, <1>15, Started

LEMMA StepBegins ==
    ASSUME SettlementAssumption, IInv, NEW s \in Sessions, NEW c \in Cheques, NEW want \in ChequeStatus, NEW b \in scene.banks \cup {0}, BeginStep(s, c, want, b)
    PROVE  IInv'
<1>1. TypeOK /\ b \in Banks \cup {0} /\ want \in Wants /\ want # "none"
  BY SceneTypes DEF IInv, Wants, ChequeStatus
<1>a. cheque[c].status # "none"
  BY DEF BeginStep, chequeNextStatuses
<1>b. want = "passed" => b \in Banks
  <2>1. cheque[c] \in ChequeRecords /\ scene.banks \in SUBSET Banks
    BY SceneTypes DEF IInv, TypeOK
  <2>2. want = "passed" => b \in ClearingBanks(c)
    BY DEF BeginStep
  <2> QED BY <2>1, <2>2 DEF ClearingBanks, ChequeRecords
<1>2. PICK q : q = IF want = "passed" THEN lockTreasuryBanks({b}) ELSE shareBank(b)
  OBVIOUS
<1>3. PICK K : K = IF want = "passed" THEN LocksOn("bank", {b}, Update) ELSE LocksOn("bank", {b} \ {0}, Share)
  OBVIOUS
<1>4. PICK need : need = q \o lockCheque(c)
  OBVIOUS
<1>5. PICK L : L = K \cup LocksOn("cheque", {c}, Update)
  OBVIOUS
<1>6. Proper(need, L)
  <2>1. Proper(q, K)
    BY <1>1, <1>2, <1>3, <1>b, LockLists
  <2>2. Proper(lockCheque(c), LocksOn("cheque", {c}, Update))
    BY LockLists
  <2>3. \A x \in K, y \in LocksOn("cheque", {c}, Update) : RankOf[x.on] < RankOf[y.on]
    BY <1>3, KindsInOrder
  <2> QED BY <1>4, <1>5, <2>1, <2>2, <2>3, ProperJoin
<1>7. PICK t : t = [Idle EXCEPT !.op = "step", !.id = c, !.want = want, !.bank = b, !.need = need]
  OBVIOUS
<1>8. Begins(s, t)
  BY <1>4, <1>7, <1>2 DEF BeginStep
<1>9. "step" \in Operations /\ "step" \notin DocumentOps
  BY DEF Operations, DocumentOps
<1>10. IsFresh(t, "step", c, b, 0, 0, NoParts, want, 0, need)
  <2>1. Arguments("step", c, b, 0, 0, NoParts, want, 0) /\ need \in Seq(Locks)
    BY <1>1, <1>6, <1>9, ConstantFacts DEF Arguments, Proper
  <2> QED BY <1>7, <2>1, StepIsFresh
<1>11. tx'[s].op = "step" /\ tx'[s].id = c /\ tx'[s].want = want /\ tx'[s].bank = b /\ tx'[s].doc = 0 /\ tx'[s].parts = NoParts
      /\ cheque' = cheque
  BY <1>8, <1>10, FreshFacts
<1>12. BanksOf(s)' = (IF want = "passed" THEN {b} ELSE {}) /\ RowsOf(s)' = {} /\ ChequesOf(s)' = {c} /\ DocsOf(s)' = {}
       /\ DocMode(s)' = NoKeyUpdate
  BY <1>9, <1>11, ConstantFacts DEF BanksOf, RowsOf, ChequesOf, DocsOf, DocMode
<1>13. Wanted(s)' \subseteq L
  BY <1>3, <1>5, <1>12, ConstantFacts DEF Wanted
<1>c. /\ want \notin {"passed", "in_collection"} => b = 0
      /\ want = "passed" => IssuedFrom(c, b)'
  <2>1. want = "passed" => b \in ClearingBanks(c)
    BY DEF BeginStep
  <2>2. want = "passed" => IssuedFrom(c, b)'
    BY <1>11, <2>1 DEF ClearingBanks, IssuedFrom
  <2> QED BY <2>2 DEF BeginStep
<1>14. Own(s)'
  BY <1>1, <1>a, <1>b, <1>c, <1>9, <1>11, ConstantFacts DEF Own, IssuedFrom
<1>15. Fitting(L, "step")
  <2>1. {b} \ {0} \in SUBSET Banks
    BY <1>1
  <2>2. Fitting(K, "step")
    BY <1>3, <1>b, <2>1, FittingSets
  <2>3. Fitting(LocksOn("cheque", {c}, Update), "step")
    BY FittingSets
  <2> QED BY <1>5, <2>2, <2>3, FittingSets
<1> QED BY <1>6, <1>8, <1>9, <1>10, <1>13, <1>14, <1>15, Started

LEMMA DocumentBegins ==
    ASSUME SettlementAssumption, IInv, NEW s \in Sessions, NEW op \in DocumentOps, NEW d \in scene.docs, NEW status \in Wants,
           NEW payable \in 0..MaxPayable,
           op \in {"edit", "finalize"} => payable \in 1..MaxPayable /\ status \in {"draft", "proforma", "final"}, BeginDocument(s, op, d, status, payable)
    PROVE  IInv'
<1>1. TypeOK /\ d \in Docs
  BY SceneTypes DEF IInv
<1>4. PICK need : need = lockDocument(d)
  OBVIOUS
<1>5. PICK L : L = LocksOn("doc", {d}, Update)
  OBVIOUS
<1>6. Proper(need, L)
  BY <1>1, <1>4, <1>5, LockLists
<1>7. PICK t : t = [Idle EXCEPT !.op = op, !.doc = d, !.want = status, !.payable = payable, !.need = need]
  OBVIOUS
<1>8. Begins(s, t)
  BY <1>4, <1>7 DEF BeginDocument
<1>9. op \in Operations /\ op \in DocumentOps /\ op # "step"
  BY DEF Operations, DocumentOps
<1>10. IsFresh(t, op, 0, 0, 0, d, NoParts, status, payable, need)
  <2>1. Arguments(op, 0, 0, 0, d, NoParts, status, payable) /\ need \in Seq(Locks)
    BY <1>1, <1>6, <1>9, ConstantFacts DEF Arguments, Proper
  <2> QED BY <1>7, <2>1, DocumentIsFresh
<1>11. tx'[s].op = op /\ tx'[s].doc = d /\ tx'[s].want = status /\ tx'[s].payable = payable /\ tx'[s].parts = NoParts
  BY <1>8, <1>10, FreshFacts
<1>12. BanksOf(s)' = {} /\ RowsOf(s)' = {} /\ ChequesOf(s)' = {} /\ DocsOf(s)' = {d} /\ DocMode(s)' = Update
  BY <1>1, <1>9, <1>11, ConstantFacts DEF BanksOf, RowsOf, ChequesOf, DocsOf, DocMode, DocumentOps
<1>13. Wanted(s)' \subseteq L
  BY <1>5, <1>12, ConstantFacts DEF Wanted
<1>16. Tail(need) = << >>
  BY <1>1, <1>4, OneLock
<1>14. Own(s)'
  BY <1>1, <1>9, <1>11, ConstantFacts DEF Own, DocumentOps
<1>15. Fitting(L, op)
  BY <1>1, <1>5, <1>9, FittingSets
<1> QED BY <1>6, <1>8, <1>9, <1>10, <1>13, <1>14, <1>15, <1>16, Started

-----------------------------------------------------------------------------
(* A session has read and checked everything under its locks.               *)

LEMMA Passed ==
    ASSUME SettlementAssumption, IInv, NEW s \in Sessions, NEW op \in Operations, Checking(s, op), NEW needs,
           Passes(s, needs), NEW L, Proper(needs, L), \A l \in L : l.on = "doc" /\ l.mode = KeyShare /\ l.id \in Docs,
           op \in DocumentOps => needs = << >>, Claims(s)
    PROVE  IInv'
<1>1. TypeOK /\ Keeps(s) /\ Own(s) /\ tx[s] \in Transactions /\ tx[s].op = op /\ tx[s].need = << >> /\ op # "none"
  BY DEF IInv, SessionInv, TypeOK, Checking, Operations
<1>2. PICK t : t = [tx[s] EXCEPT !.checked = TRUE, !.need = needs, !.saw = balance]
  OBVIOUS
<1>3. needs \in Seq(Locks) /\ Ascending(needs) /\ Listed(needs) = L /\ balance \in [Banks -> Nat]
  BY <1>1 DEF Proper, TypeOK
<1>4. t \in Transactions
  <2> HIDE DEF Locks, Parts, Wants, Operations
  <2> QED BY <1>1, <1>2, <1>3 DEF Transactions
<1>5. /\ t.op = tx[s].op /\ t.id = tx[s].id /\ t.bank = tx[s].bank /\ t.to = tx[s].to /\ t.doc = tx[s].doc
      /\ t.parts = tx[s].parts /\ t.want = tx[s].want /\ t.payable = tx[s].payable
      /\ t.checked = TRUE /\ t.saw = balance /\ t.need = needs /\ t.held = tx[s].held
  BY <1>1, <1>2 DEF Transactions
<1>6. tx' = [tx EXCEPT ![s] = t] /\ UNCHANGED <<scene, data>> /\ tx'[s] = t
  BY <1>1, <1>2 DEF Passes, TypeOK
<1>7. balance' = balance /\ row' = row /\ cheque' = cheque /\ doc' = doc
  BY <1>6 DEF data
<1>a. /\ tx'[s].op = tx[s].op /\ tx'[s].id = tx[s].id /\ tx'[s].bank = tx[s].bank /\ tx'[s].to = tx[s].to
      /\ tx'[s].doc = tx[s].doc /\ tx'[s].parts = tx[s].parts /\ tx'[s].want = tx[s].want
  BY <1>5, <1>6
<1>8. /\ BanksOf(s)' = BanksOf(s) /\ RowsOf(s)' = RowsOf(s) /\ ChequesOf(s)' = ChequesOf(s)
      /\ DocsOf(s)' = DocsOf(s) /\ DocMode(s)' = DocMode(s)
  BY <1>a, <1>7 DEF BanksOf, RowsOf, ChequesOf, DocsOf, DocMode, SidesOf
<1>9. Wanted(s)' = Wanted(s) /\ Wanted(s) \subseteq tx[s].held /\ Asked(s)' = tx[s].held \cup L
  BY <1>1, <1>3, <1>5, <1>6, <1>8, EmptyList DEF Asked, Wanted, Keeps
<1>10. Keeps(s)'
  <2>1. tx'[s].op # "none" /\ Ascending(tx'[s].need) /\ tx'[s].checked
    BY <1>1, <1>3, <1>5, <1>6
  <2>2. \A n \in Listed(tx'[s].need) : n.on = "doc" /\ n.mode = KeyShare /\ n.id \in Banks \cup Docs \cup Rows \cup Cheques
    BY <1>3, <1>5, <1>6
  <2>3. tx'[s].op \in DocumentOps => tx'[s].need = << >>
    BY <1>1, <1>5, <1>6
  <2>4. \A l \in tx[s].held : l.on = "doc" /\ l.mode = Update => tx[s].op \in DocumentOps
    BY <1>1 DEF Keeps, Asked
  <2>5. \A l \in Asked(s)' : l.on = "doc" /\ l.mode = Update => tx'[s].op \in DocumentOps
    BY <1>5, <1>6, <1>9, <2>4 DEF KeyShare, Update
  <2>6. Wanted(s)' \subseteq Asked(s)'
    BY <1>9
  <2> QED BY <2>1, <2>2, <2>3, <2>5, <2>6 DEF Keeps
<1>11. Own(s)'
  BY <1>1, <1>5, <1>6, <1>7 DEF Own, IssuedFrom
<1>12. /\ \A d : Settled(d)' = Settled(d)
       /\ \A r : Live(r)' = Live(r) /\ SidesOf(r)' = SidesOf(r) /\ Back(r)' = Back(r)
       /\ \A c : Lapsed(c)' = Lapsed(c) /\ Clears(c)' = Clears(c) /\ chequeNextStatuses(c)' = chequeNextStatuses(c)
       /\ \A r, d : RowShare(r, d)' = RowShare(r, d)
       /\ \A c, d : ChequeShare(c, d)' = ChequeShare(c, d)
  BY <1>7 DEF Settled, SettledByRows, SettledByCheques, RowShare, LinkShare, Live, ChequeShare, Lapsed, SidesOf, Back,
              Clears, chequeNextStatuses
<1>13. /\ \A d, amount, kept : Room(d, amount, kept)' = Room(d, amount, kept)
       /\ \A d, payable : Covers(d, payable)' = Covers(d, payable)
  BY <1>7, <1>12 DEF Room, Covers
<1>14. Facts(s)'
  <2>1. Claims(s)'
    BY <1>5, <1>6, <1>7, <1>12, <1>13 DEF Claims
  <2>2. \A b \in BanksOf(s)' : tx'[s].saw[b] = balance'[b]
    BY <1>5, <1>6, <1>7
  <2> QED BY <2>1, <2>2 DEF Facts
<1>15. \A h \in t.held : h \in tx[s].held
  BY <1>5
<1> QED BY <1>4, <1>6, <1>10, <1>11, <1>14, <1>15, SessionStep

LEMMA PassedPlain ==
    ASSUME SettlementAssumption, IInv, NEW s \in Sessions, NEW op \in Operations, Checking(s, op),
           Passes(s, << >>), Claims(s)
    PROVE  IInv'
<1>1. Proper(<< >>, {})
  BY LockLists
<1> QED BY <1>1, Passed

LEMMA SettledTypes ==
    ASSUME SettlementAssumption, TypeOK, NEW d \in Docs
    PROVE  /\ Settled(d) \in Nat
           /\ \A r \in Rows : RowShare(r, d) \in Nat
           /\ \A c \in Cheques : ChequeShare(c, d) \in Nat
           /\ doc[d].payable \in 1..MaxPayable /\ doc[d].returned \in 0..MaxPayable
           /\ doc[d].payable \in Int /\ doc[d].returned \in Int /\ doc[d].payable >= 0 /\ doc[d].returned >= 0
           /\ doc[d].status \in {"draft", "proforma", "final", "void"}
           /\ Amount \in Nat /\ Amount > 0
<1>1. row \in AllRows /\ cheque \in AllCheques
  BY DEF TypeOK, AllRows, AllCheques
<1>2. Settled(d) \in Nat
  BY <1>1, SettledIsIn, SettledInType
<1>3. (\A r \in Rows : RowShare(r, d) \in Nat) /\ (\A c \in Cheques : ChequeShare(c, d) \in Nat)
  BY <1>1, SettledIsIn, PartTypes DEF AllRows, AllCheques
<1>4. doc[d] \in DocRecords /\ MaxPayable \in Nat
  BY DEF TypeOK, SettlementAssumption
<1>5. /\ doc[d].payable \in 1..MaxPayable /\ doc[d].returned \in 0..MaxPayable
      /\ doc[d].status \in {"draft", "proforma", "final", "void"}
  BY <1>4 DEF DocRecords
<1> QED BY <1>2, <1>3, <1>4, <1>5 DEF SettlementAssumption

(* What the limits of assertWithinDocumentRemaining leave.                  *)
LEMMA FitsRoom ==
    ASSUME SettlementAssumption, TypeOK, NEW d \in Docs, NEW amount \in Int, NEW kept \in Int
    PROVE  Fits(d, amount, kept, Settled(d) - kept) <=> Room(d, amount, kept)
<1>1. /\ Settled(d) \in Int /\ doc[d].payable \in Int /\ doc[d].returned \in Int
  BY SettledTypes
<1>2. amount <= doc[d].payable - (Settled(d) - kept) - doc[d].returned
          <=> Settled(d) - kept + doc[d].returned + amount <= doc[d].payable
  BY <1>1
<1> QED BY <1>2 DEF Room, Fits

LEMMA FitsAnewRoom ==
    ASSUME SettlementAssumption, TypeOK, NEW d \in Docs, NEW amount \in Int
    PROVE  FitsAnew(d, amount) <=> Room(d, amount, 0)
<1>1. Settled(d) \in Int
  BY SettledTypes
<1>2. Settled(d) - 0 = Settled(d) /\ 0 \in Int
  BY <1>1
<1>3. Fits(d, amount, 0, Settled(d) - 0) <=> Room(d, amount, 0)
  BY <1>2, FitsRoom
<1> QED BY <1>2, <1>3 DEF FitsAnew

LEMMA SessionTypes ==
    ASSUME SettlementAssumption, TypeOK, NEW s \in Sessions
    PROVE  /\ tx[s].bank \in Banks \cup {0} /\ tx[s].to \in Banks \cup {0} /\ tx[s].doc \in Docs \cup {0}
           /\ tx[s].parts \in Parts /\ tx[s].op \in Operations \cup {"none"} /\ tx[s].checked \in BOOLEAN
           /\ tx[s].payable \in 0..MaxPayable /\ tx[s].want \in Wants /\ tx[s].saw \in [Banks -> Nat]
           /\ \A d \in Docs : tx[s].parts[d] \in Nat
           /\ \A e \in Chosen(tx[s].parts) : e \in Docs /\ tx[s].parts[e] \in Int /\ tx[s].parts[e] > 0
<1>1. tx[s] \in Transactions
  BY DEF TypeOK
<1>2. /\ tx[s].bank \in Banks \cup {0} /\ tx[s].to \in Banks \cup {0} /\ tx[s].doc \in Docs \cup {0}
      /\ tx[s].parts \in Parts /\ tx[s].op \in Operations \cup {"none"} /\ tx[s].checked \in BOOLEAN
      /\ tx[s].payable \in 0..MaxPayable /\ tx[s].want \in Wants /\ tx[s].saw \in [Banks -> Nat]
  BY <1>1 DEF Transactions
<1>3. \A d \in Docs : tx[s].parts[d] \in Nat
  BY <1>2 DEF Parts, SettlementAssumption
<1>4. \A e \in Chosen(tx[s].parts) : e \in Docs /\ tx[s].parts[e] > 0
  BY DEF Chosen
<1>5. ASSUME NEW e \in Chosen(tx[s].parts) PROVE tx[s].parts[e] \in Int
  <2>1. e \in Docs
    BY <1>4
  <2>2. tx[s].parts[e] \in Nat
    BY <1>3, <2>1
  <2> QED BY <2>2
<1>6. \A e \in Chosen(tx[s].parts) : e \in Docs /\ tx[s].parts[e] \in Int /\ tx[s].parts[e] > 0
  BY <1>4, <1>5
<1> QED BY <1>2, <1>3, <1>6

(* AllFit, for a session's parts.                                           *)
LEMMA AllFitRoom ==
    ASSUME SettlementAssumption, TypeOK, NEW s \in Sessions, AllFit(tx[s].parts)
    PROVE  \A e \in Chosen(tx[s].parts) : Room(e, tx[s].parts[e], 0)
BY SessionTypes, FitsAnewRoom DEF AllFit

LEMMA BalanceTypes ==
    ASSUME SettlementAssumption, TypeOK
    PROVE  (\A b \in Banks : balance[b] \in Nat /\ balance[b] \in Int) /\ Amount \in Nat /\ Amount \in Int
<1>1. balance \in [Banks -> Nat]
  BY DEF TypeOK
<1>2. \A b \in Banks : balance[b] \in Nat
  BY <1>1
<1> QED BY <1>2 DEF SettlementAssumption

LEMMA ReceiptChecked ==
    ASSUME SettlementAssumption, IInv, NEW s \in Sessions, CheckReceipt(s)
    PROVE  IInv'
<1>1. TypeOK /\ Own(s) /\ Checking(s, "receipt") /\ tx[s].op = "receipt" /\ Passes(s, << >>)
  BY DEF IInv, SessionInv, Checking, CheckReceipt
<1>2. "receipt" \in Operations
  BY DEF Operations
<1>3. tx[s].doc # 0 => Room(tx[s].doc, Amount, 0)
  <2>1. tx[s].doc # 0 => tx[s].doc \in Docs /\ FitsAnew(tx[s].doc, Amount)
    BY <1>1, SessionTypes DEF CheckReceipt
  <2>2. Amount \in Int
    BY DEF SettlementAssumption
  <2> QED BY <1>1, <2>1, <2>2, FitsAnewRoom
<1>5. \A e \in Chosen(tx[s].parts) : Room(e, tx[s].parts[e], 0)
  BY <1>1, AllFitRoom DEF CheckReceipt
<1>4. Claims(s)
  BY <1>1, <1>3, <1>5 DEF Claims
<1> QED BY <1>1, <1>2, <1>4, PassedPlain

LEMMA PaymentChecked ==
    ASSUME SettlementAssumption, IInv, NEW s \in Sessions, CheckPayment(s)
    PROVE  IInv'
<1>1. TypeOK /\ Own(s) /\ Checking(s, "payment") /\ tx[s].op = "payment" /\ Passes(s, << >>)
  BY DEF IInv, SessionInv, Checking, CheckPayment
<1>2. "payment" \in Operations
  BY DEF Operations
<1>3. balance[tx[s].bank] - Amount >= 0
  <2>1. tx[s].bank \in Banks /\ balance[tx[s].bank] + (0 - Amount) >= 0
    BY <1>1 DEF Own, CheckPayment, NotOverdrawn
  <2>2. balance[tx[s].bank] \in Int /\ Amount \in Int
    BY <1>1, <2>1, BalanceTypes
  <2> QED BY <2>1, <2>2
<1>4. Claims(s)
  BY <1>1, <1>3 DEF Claims
<1> QED BY <1>1, <1>2, <1>4, PassedPlain

LEMMA TransferChecked ==
    ASSUME SettlementAssumption, IInv, NEW s \in Sessions, CheckTransfer(s)
    PROVE  IInv'
<1>1. TypeOK /\ Own(s) /\ Checking(s, "transfer") /\ tx[s].op = "transfer" /\ Passes(s, << >>)
  BY DEF IInv, SessionInv, Checking, CheckTransfer
<1>2. "transfer" \in Operations
  BY DEF Operations
<1>3. balance[tx[s].bank] - Amount >= 0
  <2>1. tx[s].bank \in Banks /\ balance[tx[s].bank] + (0 - Amount) >= 0
    BY <1>1 DEF Own, CheckTransfer, NotOverdrawn
  <2>2. balance[tx[s].bank] \in Int /\ Amount \in Int
    BY <1>1, <2>1, BalanceTypes
  <2> QED BY <2>1, <2>2
<1>4. Claims(s)
  BY <1>1, <1>3 DEF Claims
<1> QED BY <1>1, <1>2, <1>4, PassedPlain

LEMMA VoidChecked ==
    ASSUME SettlementAssumption, IInv, NEW s \in Sessions, CheckVoid(s)
    PROVE  IInv'
<1>1. TypeOK /\ Own(s) /\ Checking(s, "void") /\ tx[s].op = "void"
  BY DEF IInv, SessionInv, Checking, CheckVoid
<1>2. "void" \in Operations /\ "void" \notin DocumentOps
  BY DEF Operations, DocumentOps
<1>3. PICK d : d = row[tx[s].id].link
  OBVIOUS
<1>4. tx[s].id \in Rows
  BY <1>1 DEF Own, IssuedFrom
<1>5. d \in Docs \cup {0}
  BY <1>1, <1>3, <1>4 DEF TypeOK, RowRecords
<1>6. Passes(s, referenceDocument(d)) /\ Live(tx[s].id) /\ \A q \in SidesOf(tx[s].id) : NotOverdrawn(row[q].bank, Back(q))
  BY <1>3 DEF CheckVoid
<1>7. PICK needs : needs = referenceDocument(d)
  OBVIOUS
<1>8. PICK L : L = LocksOn("doc", {d} \ {0}, KeyShare)
  OBVIOUS
<1>9. Proper(needs, L)
  BY <1>5, <1>7, <1>8, LockLists
<1>10. \A l \in L : l.on = "doc" /\ l.mode = KeyShare /\ l.id \in Docs
  BY <1>5, <1>8, ConstantFacts
<1>11. Claims(s)
  BY <1>1, <1>6 DEF Claims, NotOverdrawn
<1> QED BY <1>1, <1>2, <1>6, <1>7, <1>9, <1>10, <1>11, Passed

LEMMA RelinkChecked ==
    ASSUME SettlementAssumption, IInv, NEW s \in Sessions, CheckRelink(s)
    PROVE  IInv'
<1>1. TypeOK /\ Own(s) /\ Checking(s, "relink") /\ tx[s].op = "relink" /\ Passes(s, << >>)
  BY DEF IInv, SessionInv, Checking, CheckRelink
<1>2. "relink" \in Operations
  BY DEF Operations
<1>3. tx[s].doc # 0 => Room(tx[s].doc, Amount, 0)
  <2>1. tx[s].doc # 0 => tx[s].doc \in Docs /\ FitsAnew(tx[s].doc, Amount)
    BY <1>1, SessionTypes DEF CheckRelink
  <2>2. Amount \in Int
    BY DEF SettlementAssumption
  <2> QED BY <1>1, <2>1, <2>2, FitsAnewRoom
<1>5. row[tx[s].id].parts = NoParts
  <2>1. tx[s].id \in Rows
    BY <1>1 DEF Own
  <2>2. PICK p \in Parts : p = row[tx[s].id].parts
    BY <1>1, <2>1 DEF TypeOK, RowRecords
  <2>3. Chosen(p) = {}
    BY <2>2 DEF CheckRelink, HasParts
  <2>4. \A d \in Docs : p[d] \in Nat /\ ~ (p[d] > 0)
    BY <2>3 DEF Chosen, Parts, SettlementAssumption
  <2>5. \A d \in Docs : p[d] = 0
    BY <2>4
  <2>6. p = [d \in Docs |-> 0]
    BY <2>5 DEF Parts
  <2> QED BY <2>2, <2>6 DEF NoParts
<1>6. Live(tx[s].id) /\ row[tx[s].id].link # tx[s].doc
  BY DEF CheckRelink
<1>4. Claims(s)
  BY <1>1, <1>3, <1>5, <1>6 DEF Claims
<1> QED BY <1>1, <1>2, <1>4, PassedPlain

LEMMA ReplaceChecked ==
    ASSUME SettlementAssumption, IInv, NEW s \in Sessions, CheckReplace(s)
    PROVE  IInv'
<1>1. TypeOK /\ Own(s) /\ Checking(s, "replace") /\ tx[s].op = "replace" /\ Passes(s, << >>)
  BY DEF IInv, SessionInv, Checking, CheckReplace
<1>2. "replace" \in Operations
  BY DEF Operations
<1>3. ASSUME NEW e \in Chosen(tx[s].parts) PROVE Room(e, tx[s].parts[e], RowShare(tx[s].id, e))
  <2>1. tx[s].id \in Rows /\ e \in Docs /\ tx[s].parts[e] \in Int
    BY <1>1, SessionTypes DEF Own
  <2>2. Fits(e, tx[s].parts[e], RowShare(tx[s].id, e), Settled(e) - RowShare(tx[s].id, e))
    BY DEF CheckReplace
  <2>3. RowShare(tx[s].id, e) \in Int
    BY <1>1, <2>1, SettledTypes
  <2> QED BY <1>1, <2>1, <2>2, <2>3, FitsRoom
<1>6. Live(tx[s].id)
  BY DEF CheckReplace
<1>4. Claims(s)
  BY <1>1, <1>3, <1>6 DEF Claims
<1> QED BY <1>1, <1>2, <1>4, PassedPlain

LEMMA ChequeChecked ==
    ASSUME SettlementAssumption, IInv, NEW s \in Sessions, CheckCheque(s)
    PROVE  IInv'
<1>1. TypeOK /\ Own(s) /\ Checking(s, "cheque") /\ tx[s].op = "cheque" /\ Passes(s, << >>)
  BY DEF IInv, SessionInv, Checking, CheckCheque
<1>2. "cheque" \in Operations
  BY DEF Operations
<1>5. \A e \in Chosen(tx[s].parts) : Room(e, tx[s].parts[e], 0)
  BY <1>1, AllFitRoom DEF CheckCheque
<1>4. Claims(s)
  BY <1>1, <1>5 DEF Claims
<1> QED BY <1>1, <1>2, <1>4, PassedPlain

LEMMA StepChecked ==
    ASSUME SettlementAssumption, IInv, NEW s \in Sessions, CheckStep(s)
    PROVE  IInv'
<1>1. TypeOK /\ Own(s) /\ Checking(s, "step") /\ tx[s].op = "step" /\ Passes(s, << >>)
  BY DEF IInv, SessionInv, Checking, CheckStep
<1>2. "step" \in Operations
  BY DEF Operations
<1>3. /\ tx[s].want \in chequeNextStatuses(tx[s].id)
      /\ tx[s].want = "passed" => balance[tx[s].bank] + Clears(tx[s].id) >= 0
  BY DEF CheckStep, NotOverdrawn
<1>4. Claims(s)
  BY <1>1, <1>3 DEF Claims
<1> QED BY <1>1, <1>2, <1>4, PassedPlain

LEMMA ReplaceChequeChecked ==
    ASSUME SettlementAssumption, IInv, NEW s \in Sessions, CheckReplaceCheque(s)
    PROVE  IInv'
<1>1. TypeOK /\ Own(s) /\ Checking(s, "replaceCheque") /\ tx[s].op = "replaceCheque" /\ Passes(s, << >>)
  BY DEF IInv, SessionInv, Checking, CheckReplaceCheque
<1>2. "replaceCheque" \in Operations
  BY DEF Operations
<1>3. ASSUME NEW e \in Chosen(tx[s].parts) PROVE Room(e, tx[s].parts[e], ChequeShare(tx[s].id, e))
  <2>1. tx[s].id \in Cheques /\ e \in Docs /\ tx[s].parts[e] \in Int
    BY <1>1, SessionTypes DEF Own
  <2>2. Fits(e, tx[s].parts[e], ChequeShare(tx[s].id, e), Settled(e) - ChequeShare(tx[s].id, e))
    BY DEF CheckReplaceCheque
  <2>3. ChequeShare(tx[s].id, e) \in Int
    BY <1>1, <2>1, SettledTypes
  <2> QED BY <1>1, <2>1, <2>2, <2>3, FitsRoom
<1>6. ~ Lapsed(tx[s].id)
  BY DEF CheckReplaceCheque
<1>4. Claims(s)
  BY <1>1, <1>3, <1>6 DEF Claims
<1> QED BY <1>1, <1>2, <1>4, PassedPlain

LEMMA DeleteChequeChecked ==
    ASSUME SettlementAssumption, IInv, NEW s \in Sessions, CheckDeleteCheque(s)
    PROVE  IInv'
<1>1. TypeOK /\ Own(s) /\ Checking(s, "deleteCheque") /\ tx[s].op = "deleteCheque" /\ Passes(s, << >>)
  BY DEF IInv, SessionInv, Checking, CheckDeleteCheque
<1>2. "deleteCheque" \in Operations
  BY DEF Operations
<1>3. cheque[tx[s].id].status \notin {"passed", "spent", "deleted"}
  BY DEF CheckDeleteCheque
<1>4. Claims(s)
  BY <1>1, <1>3 DEF Claims
<1> QED BY <1>1, <1>2, <1>4, PassedPlain

LEMMA EditChecked ==
    ASSUME SettlementAssumption, IInv, NEW s \in Sessions, CheckEdit(s)
    PROVE  IInv'
<1>1. TypeOK /\ Own(s) /\ Checking(s, "edit") /\ tx[s].op = "edit" /\ Passes(s, << >>)
  BY DEF IInv, SessionInv, Checking, CheckEdit
<1>2. "edit" \in Operations
  BY DEF Operations
<1>3. doc[tx[s].doc].status \in {"draft", "proforma"} /\ Covers(tx[s].doc, tx[s].payable)
  BY DEF CheckEdit
<1>4. Claims(s)
  BY <1>1, <1>3 DEF Claims
<1> QED BY <1>1, <1>2, <1>4, PassedPlain

LEMMA FinalizeChecked ==
    ASSUME SettlementAssumption, IInv, NEW s \in Sessions, CheckFinalize(s)
    PROVE  IInv'
<1>1. TypeOK /\ Own(s) /\ Checking(s, "finalize") /\ tx[s].op = "finalize" /\ Passes(s, << >>)
  BY DEF IInv, SessionInv, Checking, CheckFinalize
<1>2. "finalize" \in Operations
  BY DEF Operations
<1>3. doc[tx[s].doc].status \in {"draft", "proforma"} /\ Covers(tx[s].doc, tx[s].payable)
  BY DEF CheckFinalize
<1>4. Claims(s)
  BY <1>1, <1>3 DEF Claims
<1> QED BY <1>1, <1>2, <1>4, PassedPlain

LEMMA ReturnChecked ==
    ASSUME SettlementAssumption, IInv, NEW s \in Sessions, CheckReturn(s)
    PROVE  IInv'
<1>1. TypeOK /\ Own(s) /\ Checking(s, "return") /\ tx[s].op = "return" /\ Passes(s, << >>)
  BY DEF IInv, SessionInv, Checking, CheckReturn
<1>2. "return" \in Operations
  BY DEF Operations
<1>3. doc[tx[s].doc].status = "final" /\ doc[tx[s].doc].returned < doc[tx[s].doc].payable
  BY DEF CheckReturn
<1>4. Claims(s)
  BY <1>1, <1>3 DEF Claims
<1> QED BY <1>1, <1>2, <1>4, PassedPlain

LEMMA VoidDocumentChecked ==
    ASSUME SettlementAssumption, IInv, NEW s \in Sessions, CheckVoidDocument(s)
    PROVE  IInv'
<1>1. TypeOK /\ Own(s) /\ Checking(s, "voidDocument") /\ tx[s].op = "voidDocument" /\ Passes(s, << >>)
  BY DEF IInv, SessionInv, Checking, CheckVoidDocument
<1>2. "voidDocument" \in Operations
  BY DEF Operations
<1>3. doc[tx[s].doc].status # "void" /\ doc[tx[s].doc].returned = 0 /\ Settled(tx[s].doc) = 0
  BY DEF CheckVoidDocument
<1>4. Claims(s)
  BY <1>1, <1>3 DEF Claims
<1> QED BY <1>1, <1>2, <1>4, PassedPlain

LEMMA CheckKeeps ==
    ASSUME SettlementAssumption, IInv, NEW s \in Sessions, Check(s)
    PROVE  IInv'
BY ReceiptChecked, PaymentChecked, TransferChecked, VoidChecked, RelinkChecked, ReplaceChecked, ChequeChecked, StepChecked,
   ReplaceChequeChecked, DeleteChequeChecked, EditChecked, FinalizeChecked, ReturnChecked, VoidDocumentChecked DEF Check

LEMMA BeginKeeps ==
    ASSUME SettlementAssumption, IInv, NEW s \in Sessions, Begin(s)
    PROVE  IInv'
<1>1. \A n \in 1..MaxPayable : n \in 0..MaxPayable
  OBVIOUS
<1>2. 0 \in 0..MaxPayable
  BY DEF SettlementAssumption
<1>3. "draft" \in Wants /\ "proforma" \in Wants /\ "final" \in Wants /\ "void" \in Wants /\ "none" \in Wants
  BY DEF Wants
<1>4. /\ "edit" \in DocumentOps /\ "finalize" \in DocumentOps /\ "return" \in DocumentOps /\ "voidDocument" \in DocumentOps
      /\ "return" \notin {"edit", "finalize"} /\ "voidDocument" \notin {"edit", "finalize"}
  BY DEF DocumentOps
<1>5. CASE \E d \in scene.docs, status \in {"draft", "proforma"}, payable \in 1..MaxPayable :
               BeginDocument(s, "edit", d, status, payable)
  BY <1>1, <1>3, <1>4, <1>5, DocumentBegins
<1>6. CASE \E d \in scene.docs, payable \in 1..MaxPayable : BeginDocument(s, "finalize", d, "final", payable)
  BY <1>1, <1>3, <1>4, <1>6, DocumentBegins
<1>7. CASE \E d \in scene.docs : BeginDocument(s, "return", d, "none", 0)
  BY <1>2, <1>3, <1>4, <1>7, DocumentBegins
<1>8. CASE \E d \in scene.docs : BeginDocument(s, "voidDocument", d, "void", 0)
  BY <1>2, <1>3, <1>4, <1>8, DocumentBegins
<1>9. CASE \E b \in scene.banks, d \in scene.docs \cup {0}, parts \in scene.splits : BeginReceipt(s, b, d, parts)
  BY <1>9, ReceiptBegins
<1>10. CASE \E b \in scene.banks : BeginPayment(s, b)
  BY <1>10, PaymentBegins
<1>11. CASE \E from, to \in scene.banks : BeginTransfer(s, from, to)
  BY <1>11, TransferBegins
<1>12. CASE \E r \in Rows : BeginVoid(s, r)
  BY <1>12, VoidBegins
<1>13. CASE \E r \in Rows, d \in scene.docs \cup {0} : BeginRelink(s, r, d)
  BY <1>13, RelinkBegins
<1>14. CASE \E r \in Rows, parts \in scene.splits : BeginReplace(s, r, parts)
  BY <1>14, ReplaceBegins
<1>15. CASE \E type \in {"received", "paid"}, b \in scene.banks \cup {0}, parts \in scene.splits : BeginCheque(s, type, b, parts)
  BY <1>15, ChequeBegins
<1>16. CASE \E c \in Cheques, want \in ChequeStatus, b \in scene.banks \cup {0} : BeginStep(s, c, want, b)
  BY <1>16, StepBegins
<1>17. CASE \E c \in Cheques, parts \in scene.splits : BeginReplaceCheque(s, c, parts)
  BY <1>17, ReplaceChequeBegins
<1>18. CASE \E c \in Cheques : BeginDeleteCheque(s, c)
  BY <1>18, DeleteChequeBegins
<1> QED BY <1>5, <1>6, <1>7, <1>8, <1>9, <1>10, <1>11, <1>12, <1>13, <1>14, <1>15, <1>16, <1>17, <1>18 DEF Begin

-----------------------------------------------------------------------------
(* What a write may touch, and why the others do not notice.                *)

RowsKept == \A r \in Rows : row[r].status # "none" =>
    row'[r].status # "none" /\ row'[r].type = row[r].type /\ row'[r].pair = row[r].pair /\ row'[r].bank = row[r].bank
ChequesKept == \A c \in Cheques : cheque[c].status # "none" =>
    /\ cheque'[c].status # "none" /\ cheque'[c].type = cheque[c].type
    /\ cheque[c].type = "paid" /\ cheque'[c].status # "passed" =>
          cheque[c].status # "passed" /\ cheque'[c].bank = cheque[c].bank

DocsWritten(s) == IF tx[s].op \in DocumentOps THEN {tx[s].doc} ELSE {}
BanksWithin(s) == \A b \in Banks : balance'[b] = balance[b] \/ b \in BanksOf(s)
RowsWithin(s) == \A r \in Rows : row'[r] = row[r] \/ r \in RowsOf(s) \/ row[r].status = "none"
ChequesWithin(s) == \A c \in Cheques : cheque'[c] = cheque[c] \/ c \in ChequesOf(s) \/ cheque[c].status = "none"
DocsWithin(s) == \A d \in Docs : doc'[d] = doc[d] \/ d \in DocsWritten(s)
SettlesWithin(s) == \A d \in Docs : Settled(d)' <= Settled(d) \/ d \in DocsOf(s)
Within(s) ==
    /\ RowsKept /\ ChequesKept
    /\ BanksWithin(s) /\ RowsWithin(s) /\ ChequesWithin(s) /\ DocsWithin(s) /\ SettlesWithin(s)
RecordTypes ==
    /\ balance \in [Banks -> Nat] /\ row \in [Rows -> RowRecords] /\ cheque \in [Cheques -> ChequeRecords]
    /\ doc \in [Docs -> DocRecords]

(* The rows a session works on were written before it began.                *)
LEMMA WorkSets ==
    ASSUME SettlementAssumption, IInv, NEW u \in Sessions
    PROVE  /\ BanksOf(u) \in SUBSET Banks /\ RowsOf(u) \in SUBSET Rows /\ ChequesOf(u) \in SUBSET Cheques
           /\ DocsOf(u) \in SUBSET Docs
           /\ \A r \in RowsOf(u) : row[r].status # "none"
           /\ \A c \in ChequesOf(u) : cheque[c].status # "none"
           /\ tx[u].op = "void" => /\ tx[u].id \in Rows /\ row[tx[u].id].status # "none"
                                   /\ SidesOf(tx[u].id) \in SUBSET Rows /\ tx[u].id \in SidesOf(tx[u].id)
                                   /\ \A q \in SidesOf(tx[u].id) : q \in Rows /\ row[q].status # "none"
<1>1. TypeOK /\ Own(u)
  BY DEF IInv, SessionInv
<1>2. DocsOf(u) \in SUBSET Docs
  BY <1>1, SessionTypes, ConstantFacts DEF DocsOf
<1>3. tx[u].op = "void" =>
          /\ tx[u].id \in Rows /\ row[tx[u].id].status # "none"
          /\ SidesOf(tx[u].id) \in SUBSET Rows /\ tx[u].id \in SidesOf(tx[u].id)
          /\ {row[q].bank : q \in SidesOf(tx[u].id)} \in SUBSET Banks
          /\ \A q \in SidesOf(tx[u].id) : q \in Rows /\ row[q].status # "none"
  <2>1. tx[u].op = "void" => tx[u].id \in Rows /\ row[tx[u].id].status # "none"
    BY <1>1 DEF Own
  <2> QED BY <2>1, SidesFacts
<1>4. BanksOf(u) \in SUBSET Banks
  BY <1>1, <1>3 DEF BanksOf, Own
<1>5. RowsOf(u) \in SUBSET Rows /\ \A r \in RowsOf(u) : row[r].status # "none"
  BY <1>1, <1>3 DEF RowsOf, Own
<1>6. ChequesOf(u) \in SUBSET Cheques /\ \A c \in ChequesOf(u) : cheque[c].status # "none"
  BY <1>1 DEF ChequesOf, Own
<1> QED BY <1>2, <1>3, <1>4, <1>5, <1>6

(* After its checks a session holds what it works under.                    *)
LEMMA HeldWhenChecked ==
    ASSUME SettlementAssumption, IInv, NEW u \in Sessions, tx[u].checked
    PROVE  Wanted(u) \subseteq tx[u].held
<1>1. Keeps(u)
  BY DEF IInv, SessionInv
<1>2. \A n \in Listed(tx[u].need) : n.mode = KeyShare
  BY <1>1 DEF Keeps
<1>3. \A l \in Wanted(u) : l.mode # KeyShare
  <2>1. \A on, ids, m : \A l \in LocksOn(on, ids, m) : l.mode = m
    BY ConstantFacts
  <2>2. DocMode(u) # KeyShare /\ Update # KeyShare
    BY DEF DocMode, Update, NoKeyUpdate, KeyShare
  <2> QED BY <2>1, <2>2 DEF Wanted
<1> QED BY <1>1, <1>2, <1>3 DEF Keeps, Asked

LEMMA OneHolder ==
    ASSUME SettlementAssumption, IInv, NEW s \in Sessions, NEW u \in Sessions \ {s}, tx[s].checked, tx[u].checked
    PROVE  /\ \A b \in BanksOf(u) : b \notin BanksOf(s)
           /\ \A r \in RowsOf(u) : r \notin RowsOf(s)
           /\ \A c \in ChequesOf(u) : c \notin ChequesOf(s)
           /\ \A d \in DocsOf(u) : d \notin DocsOf(s)
<1>1. u \in Sessions /\ Wanted(u) \subseteq tx[u].held /\ Wanted(s) \subseteq tx[s].held
  BY HeldWhenChecked
<1>2. \A a \in Wanted(u), b \in Wanted(s) : ~ Conflict(a, b)
  BY <1>1 DEF IInv, Apart
<1>3. DocMode(u) \in {3, 4} /\ DocMode(s) \in {3, 4} /\ Update = 4
  BY DEF DocMode, Update, NoKeyUpdate
<1>4. \A on, x, m, n : m \in {3, 4} /\ n \in {3, 4} =>
          Conflict([on |-> on, id |-> x, mode |-> m], [on |-> on, id |-> x, mode |-> n])
  BY DEF Conflict
<1>5. ASSUME NEW b \in BanksOf(u), b \in BanksOf(s) PROVE FALSE
  <2>1. [on |-> "bank", id |-> b, mode |-> Update] \in Wanted(u) /\ [on |-> "bank", id |-> b, mode |-> Update] \in Wanted(s)
    BY <1>5 DEF Wanted, LocksOn
  <2> QED BY <1>2, <1>3, <1>4, <2>1
<1>6. ASSUME NEW r \in RowsOf(u), r \in RowsOf(s) PROVE FALSE
  <2>1. [on |-> "row", id |-> r, mode |-> Update] \in Wanted(u) /\ [on |-> "row", id |-> r, mode |-> Update] \in Wanted(s)
    BY <1>6 DEF Wanted, LocksOn
  <2> QED BY <1>2, <1>3, <1>4, <2>1
<1>7. ASSUME NEW c \in ChequesOf(u), c \in ChequesOf(s) PROVE FALSE
  <2>1. [on |-> "cheque", id |-> c, mode |-> Update] \in Wanted(u) /\ [on |-> "cheque", id |-> c, mode |-> Update] \in Wanted(s)
    BY <1>7 DEF Wanted, LocksOn
  <2> QED BY <1>2, <1>3, <1>4, <2>1
<1>8. ASSUME NEW d \in DocsOf(u), d \in DocsOf(s) PROVE FALSE
  <2>1. [on |-> "doc", id |-> d, mode |-> DocMode(u)] \in Wanted(u) /\ [on |-> "doc", id |-> d, mode |-> DocMode(s)] \in Wanted(s)
    BY <1>8 DEF Wanted, LocksOn
  <2> QED BY <1>2, <1>3, <1>4, <2>1
<1> QED BY <1>5, <1>6, <1>7, <1>8

(* A session that does not write keeps its work and its locks.              *)
LEMMA OthersKeepWork ==
    ASSUME SettlementAssumption, IInv, NEW u \in Sessions, tx'[u] = tx[u], RowsKept, ChequesKept
    PROVE  /\ Own(u)' /\ Keeps(u)'
           /\ BanksOf(u)' = BanksOf(u) /\ RowsOf(u)' = RowsOf(u) /\ ChequesOf(u)' = ChequesOf(u) /\ DocsOf(u)' = DocsOf(u)
<1>1. Own(u) /\ Keeps(u)
  BY DEF IInv, SessionInv
<1>2. PICK x : x = tx[u].id /\ x = tx'[u].id
  OBVIOUS
<1>3. tx[u].op = "void" =>
          /\ x \in Rows /\ row[x].status # "none" /\ SidesOf(x) \in SUBSET Rows
          /\ \A q \in SidesOf(x) : q \in Rows /\ row[q].status # "none"
  BY <1>2, WorkSets
<1>4. tx[u].op = "void" => SidesOf(x)' = SidesOf(x) /\ \A q \in SidesOf(x) : row'[q].bank = row[q].bank
  <2>1. tx[u].op = "void" => row'[x].pair = row[x].pair
    BY <1>3 DEF RowsKept
  <2>2. tx[u].op = "void" => \A q \in SidesOf(x) : row'[q].bank = row[q].bank
    BY <1>3 DEF RowsKept
  <2> QED BY <2>1, <2>2 DEF SidesOf
<1>5. BanksOf(u)' = BanksOf(u)
  <2>1. CASE tx[u].op = "void"
    <3>1. {row'[q].bank : q \in SidesOf(x)'} = {row[q].bank : q \in SidesOf(x)}
      BY <1>4, <2>1
    <3>2. BanksOf(u)' = {row'[q].bank : q \in SidesOf(x)'} /\ BanksOf(u) = {row[q].bank : q \in SidesOf(x)}
      BY <1>2, <2>1 DEF BanksOf, SidesOf
    <3> QED BY <3>1, <3>2
  <2>2. CASE tx[u].op # "void"
    BY <2>2 DEF BanksOf
  <2> QED BY <2>1, <2>2
<1>6. RowsOf(u)' = RowsOf(u)
  <2>1. CASE tx[u].op = "void"
    <3>1. RowsOf(u)' = SidesOf(x)' /\ RowsOf(u) = SidesOf(x)
      BY <1>2, <2>1 DEF RowsOf, SidesOf
    <3> QED BY <1>4, <2>1, <3>1
  <2>2. CASE tx[u].op # "void"
    BY <2>2 DEF RowsOf
  <2> QED BY <2>1, <2>2
<1>7. ChequesOf(u)' = ChequesOf(u) /\ DocsOf(u)' = DocsOf(u) /\ DocMode(u)' = DocMode(u) /\ Asked(u)' = Asked(u)
  BY DEF ChequesOf, DocsOf, DocMode, Asked
<1>8. Wanted(u)' = Wanted(u)
  BY <1>5, <1>6, <1>7 DEF Wanted
<1>9. Keeps(u)'
  BY <1>1, <1>7, <1>8 DEF Keeps
<1>10. tx[u].op = "step" /\ tx[u].want = "passed" => IssuedFrom(x, tx[u].bank)'
  BY <1>1, <1>2 DEF Own, ChequesKept, IssuedFrom
<1>11. Own(u)'
  BY <1>1, <1>2, <1>10 DEF Own, RowsKept, ChequesKept
<1> QED BY <1>5, <1>6, <1>7, <1>9, <1>11

(* What a session may have found of a document holds still.                 *)
Eased(d) ==
    /\ \A amount, kept \in Int : Room(d, amount, kept) => Room(d, amount, kept)'
    /\ \A payable \in Int : Covers(d, payable) => Covers(d, payable)'
    /\ Settled(d) = 0 => Settled(d)' = 0
    /\ doc'[d].status = doc[d].status
    /\ doc[d].returned < doc[d].payable => doc'[d].returned < doc'[d].payable
    /\ doc[d].returned = 0 => doc'[d].returned = 0

(* Room only grows when less is settled.                                    *)
LEMMA RoomKept ==
    ASSUME SettlementAssumption, TypeOK, RecordTypes', NEW d \in Docs, doc'[d] = doc[d], Settled(d)' <= Settled(d)
    PROVE  Eased(d)
<1>1. Settled(d) \in Nat /\ doc[d].payable \in Int /\ doc[d].returned \in Int
  BY SettledTypes
<1>2. Settled(d)' \in Nat
  <2>1. row' \in AllRows /\ cheque' \in AllCheques
    BY DEF RecordTypes, AllRows, AllCheques
  <2> QED BY <2>1, SettledIsIn, SettledInType
<1>3. \A amount, kept \in Int : Room(d, amount, kept) => Room(d, amount, kept)'
  BY <1>1, <1>2 DEF Room
<1>4. \A payable \in Int : Covers(d, payable) => Covers(d, payable)'
  BY <1>1, <1>2 DEF Covers
<1>5. Settled(d) = 0 => Settled(d)' = 0
  BY <1>1, <1>2
<1> QED BY <1>3, <1>4, <1>5 DEF Eased

(* The claims of a session whose records nobody touched.                    *)
LEMMA ClaimsKept ==
    ASSUME SettlementAssumption, IInv, NEW u \in Sessions, tx'[u] = tx[u], Claims(u),
           \A b \in BanksOf(u) : balance'[b] = balance[b],
           \A r \in RowsOf(u) : row'[r] = row[r],
           \A c \in ChequesOf(u) : cheque'[c] = cheque[c],
           \A d \in DocsOf(u) : Eased(d)
    PROVE  Claims(u)'
<1>1. TypeOK /\ Own(u)
  BY DEF IInv, SessionInv
<1>2. PICK t : t = tx[u] /\ t = tx'[u]
  OBVIOUS
<1>3. PICK x : x = t.id
  OBVIOUS
<1>4. \A d \in DocsOf(u) :
          /\ d \in Docs
          /\ \A amount, kept \in Int : Room(d, amount, kept) => Room(d, amount, kept)'
          /\ \A payable \in Int : Covers(d, payable) => Covers(d, payable)'
  BY <1>1, WorkSets DEF Eased
<1>5. DocsOf(u) = ({t.doc} \ {0}) \cup Chosen(t.parts)
  BY <1>2 DEF DocsOf
<1>6. Amount \in Int /\ 0 \in Int /\ t.payable \in Int /\ \A e \in Chosen(t.parts) : e \in Docs /\ t.parts[e] \in Int
  BY <1>1, <1>2, SessionTypes DEF SettlementAssumption
<1>7. t.op \in {"payment", "transfer"} => balance'[t.bank] = balance[t.bank]
  BY <1>2 DEF BanksOf
<1>8. t.op = "void" /\ Live(x) /\ (\A q \in SidesOf(x) : balance[row[q].bank] + Back(q) >= 0)
          => (Live(x)' /\ \A q \in SidesOf(x)' : balance'[row'[q].bank] + Back(q)' >= 0)
  <2>1. SUFFICES ASSUME t.op = "void", Live(x), \A q \in SidesOf(x) : balance[row[q].bank] + Back(q) >= 0
                 PROVE  Live(x)' /\ \A q \in SidesOf(x)' : balance'[row'[q].bank] + Back(q)' >= 0
    OBVIOUS
  <2>2. RowsOf(u) = SidesOf(x) /\ BanksOf(u) = {row[q].bank : q \in SidesOf(x)} /\ x \in SidesOf(x)
    BY <1>2, <1>3, <2>1, WorkSets DEF RowsOf, BanksOf
  <2>3. \A q \in SidesOf(x) : row'[q] = row[q] /\ balance'[row[q].bank] = balance[row[q].bank]
    BY <2>2
  <2>4. SidesOf(x)' = SidesOf(x) /\ Live(x)'
    BY <2>1, <2>2, <2>3 DEF SidesOf, Live
  <2>5. \A q \in SidesOf(x) : Back(q)' = Back(q)
    BY <2>3 DEF Back
  <2> QED BY <2>1, <2>3, <2>4, <2>5
<1>9. t.op \in {"receipt", "relink"} /\ t.doc # 0 => (Room(t.doc, Amount, 0) => Room(t.doc, Amount, 0)')
  BY <1>4, <1>5, <1>6
<1>10. \A e \in Chosen(t.parts) : Room(e, t.parts[e], 0) => Room(e, t.parts[e], 0)'
  BY <1>4, <1>5, <1>6
<1>11. t.op \in {"relink", "replace"} => x \in Rows /\ row'[x] = row[x]
  BY <1>1, <1>2, <1>3 DEF RowsOf, Own
<1>12. t.op \in {"step", "replaceCheque", "deleteCheque"} => x \in Cheques /\ cheque'[x] = cheque[x]
  BY <1>1, <1>2, <1>3 DEF ChequesOf, Own
<1>13. t.op = "replace" => \A e \in Chosen(t.parts) : Room(e, t.parts[e], RowShare(x, e)) => Room(e, t.parts[e], RowShare(x, e))'
  <2>1. SUFFICES ASSUME t.op = "replace", NEW e \in Chosen(t.parts), Room(e, t.parts[e], RowShare(x, e))
                 PROVE  Room(e, t.parts[e], RowShare(x, e))'
    OBVIOUS
  <2>a. x \in Rows /\ e \in Docs
    BY <1>6, <1>11, <2>1
  <2>b. RowShare(x, e) \in Nat
    BY <1>1, <2>a, SettledTypes
  <2>2. RowShare(x, e) \in Int
    BY <2>b
  <2>3. RowShare(x, e)' = RowShare(x, e)
    BY <1>11, <2>1 DEF RowShare, Live, LinkShare
  <2>4. PICK amount \in Int, kept \in Int : amount = t.parts[e] /\ kept = RowShare(x, e)
    BY <1>6, <2>2
  <2>5. Room(e, amount, kept)'
    BY <1>4, <1>5, <2>1, <2>4
  <2> QED BY <2>3, <2>4, <2>5
<1>14. t.op = "replaceCheque" =>
           \A e \in Chosen(t.parts) : Room(e, t.parts[e], ChequeShare(x, e)) => Room(e, t.parts[e], ChequeShare(x, e))'
  <2>1. SUFFICES ASSUME t.op = "replaceCheque", NEW e \in Chosen(t.parts), Room(e, t.parts[e], ChequeShare(x, e))
                 PROVE  Room(e, t.parts[e], ChequeShare(x, e))'
    OBVIOUS
  <2>a. x \in Cheques /\ e \in Docs
    BY <1>6, <1>12, <2>1
  <2>b. ChequeShare(x, e) \in Nat
    BY <1>1, <2>a, SettledTypes
  <2>2. ChequeShare(x, e) \in Int
    BY <2>b
  <2>3. ChequeShare(x, e)' = ChequeShare(x, e)
    BY <1>12, <2>1 DEF ChequeShare, Lapsed
  <2>4. PICK amount \in Int, kept \in Int : amount = t.parts[e] /\ kept = ChequeShare(x, e)
    BY <1>6, <2>2
  <2>5. Room(e, amount, kept)'
    BY <1>4, <1>5, <2>1, <2>4
  <2> QED BY <2>3, <2>4, <2>5
<1>15. t.op \in {"relink", "replace"} => Live(x)' = Live(x)
  BY <1>11 DEF Live
<1>16. t.op \in {"step", "replaceCheque", "deleteCheque"} =>
           chequeNextStatuses(x)' = chequeNextStatuses(x) /\ Clears(x)' = Clears(x) /\ Lapsed(x)' = Lapsed(x)
  BY <1>12 DEF chequeNextStatuses, Clears, Lapsed
<1>17. t.op = "step" /\ t.want = "passed" => balance'[t.bank] = balance[t.bank]
  BY <1>2 DEF BanksOf
<1>18. t.op \in DocumentOps => /\ Covers(t.doc, t.payable) => Covers(t.doc, t.payable)'
                               /\ Settled(t.doc) = 0 => Settled(t.doc)' = 0
                               /\ doc'[t.doc].status = doc[t.doc].status
                               /\ doc[t.doc].returned < doc[t.doc].payable => doc'[t.doc].returned < doc'[t.doc].payable
                               /\ doc[t.doc].returned = 0 => doc'[t.doc].returned = 0
  <2>1. t.op \in DocumentOps => t.doc \in DocsOf(u)
    BY <1>1, <1>2, <1>5, ConstantFacts DEF Own
  <2> QED BY <1>6, <2>1 DEF Eased
<1>19. {"edit", "finalize", "return", "voidDocument"} = DocumentOps
  BY DEF DocumentOps
<1>20. Claims(u)' <=>
    /\ t.op \in {"payment", "transfer"} => balance'[t.bank] - Amount >= 0
    /\ t.op = "void" => Live(x)' /\ \A q \in SidesOf(x)' : balance'[row'[q].bank] + Back(q)' >= 0
    /\ t.op \in {"receipt", "relink"} /\ t.doc # 0 => Room(t.doc, Amount, 0)'
    /\ t.op \in {"receipt", "cheque"} => \A e \in Chosen(t.parts) : Room(e, t.parts[e], 0)'
    /\ t.op = "relink" => Live(x)' /\ row'[x].parts = NoParts /\ row'[x].link # t.doc
    /\ t.op = "replace" => Live(x)' /\ \A e \in Chosen(t.parts) : Room(e, t.parts[e], RowShare(x, e))'
    /\ t.op = "step" => t.want \in chequeNextStatuses(x)' /\ (t.want = "passed" => balance'[t.bank] + Clears(x)' >= 0)
    /\ t.op = "replaceCheque" => ~ Lapsed(x)' /\ \A e \in Chosen(t.parts) : Room(e, t.parts[e], ChequeShare(x, e))'
    /\ t.op = "deleteCheque" => cheque'[x].status \notin {"passed", "spent", "deleted"}
    /\ t.op \in {"edit", "finalize"} => doc'[t.doc].status \in {"draft", "proforma"} /\ Covers(t.doc, t.payable)'
    /\ t.op = "return" => doc'[t.doc].status = "final" /\ doc'[t.doc].returned < doc'[t.doc].payable
    /\ t.op = "voidDocument" => doc'[t.doc].status # "void" /\ doc'[t.doc].returned = 0 /\ Settled(t.doc)' = 0
  BY <1>2, <1>3 DEF Claims, Chosen
<1>21. /\ t.op \in {"payment", "transfer"} => balance[t.bank] - Amount >= 0
       /\ t.op = "void" => Live(x) /\ \A q \in SidesOf(x) : balance[row[q].bank] + Back(q) >= 0
       /\ t.op \in {"receipt", "relink"} /\ t.doc # 0 => Room(t.doc, Amount, 0)
       /\ t.op \in {"receipt", "cheque"} => \A e \in Chosen(t.parts) : Room(e, t.parts[e], 0)
       /\ t.op = "relink" => Live(x) /\ row[x].parts = NoParts /\ row[x].link # t.doc
       /\ t.op = "replace" => Live(x) /\ \A e \in Chosen(t.parts) : Room(e, t.parts[e], RowShare(x, e))
       /\ t.op = "step" => t.want \in chequeNextStatuses(x) /\ (t.want = "passed" => balance[t.bank] + Clears(x) >= 0)
       /\ t.op = "replaceCheque" => ~ Lapsed(x) /\ \A e \in Chosen(t.parts) : Room(e, t.parts[e], ChequeShare(x, e))
       /\ t.op = "deleteCheque" => cheque[x].status \notin {"passed", "spent", "deleted"}
       /\ t.op \in {"edit", "finalize"} => doc[t.doc].status \in {"draft", "proforma"} /\ Covers(t.doc, t.payable)
       /\ t.op = "return" => doc[t.doc].status = "final" /\ doc[t.doc].returned < doc[t.doc].payable
       /\ t.op = "voidDocument" => doc[t.doc].status # "void" /\ doc[t.doc].returned = 0 /\ Settled(t.doc) = 0
  BY <1>2, <1>3 DEF Claims
<1>22. t.op \in {"receipt", "cheque"} => \A e \in Chosen(t.parts) : Room(e, t.parts[e], 0)'
  BY <1>10, <1>21
<1>23. t.op \in {"edit", "finalize"} => doc'[t.doc].status \in {"draft", "proforma"} /\ Covers(t.doc, t.payable)'
  BY <1>18, <1>19, <1>21
<1>24. t.op = "return" => doc'[t.doc].status = "final" /\ doc'[t.doc].returned < doc'[t.doc].payable
  BY <1>18, <1>19, <1>21
<1>25. t.op = "voidDocument" => doc'[t.doc].status # "void" /\ doc'[t.doc].returned = 0 /\ Settled(t.doc)' = 0
  BY <1>18, <1>19, <1>21
<1>26. t.op = "replace" => Live(x)' /\ \A e \in Chosen(t.parts) : Room(e, t.parts[e], RowShare(x, e))'
  BY <1>13, <1>15, <1>21
<1>27. t.op = "replaceCheque" => ~ Lapsed(x)' /\ \A e \in Chosen(t.parts) : Room(e, t.parts[e], ChequeShare(x, e))'
  BY <1>14, <1>16, <1>21
<1>28. t.op = "void" => Live(x)' /\ \A q \in SidesOf(x)' : balance'[row'[q].bank] + Back(q)' >= 0
  BY <1>8, <1>21
<1>29. t.op = "step" => t.want \in chequeNextStatuses(x)' /\ (t.want = "passed" => balance'[t.bank] + Clears(x)' >= 0)
  BY <1>16, <1>17, <1>21
<1>30. /\ t.op \in {"payment", "transfer"} => balance'[t.bank] - Amount >= 0
       /\ t.op \in {"receipt", "relink"} /\ t.doc # 0 => Room(t.doc, Amount, 0)'
       /\ t.op = "relink" => Live(x)' /\ row'[x].parts = NoParts /\ row'[x].link # t.doc
       /\ t.op = "deleteCheque" => cheque'[x].status \notin {"passed", "spent", "deleted"}
  BY <1>7, <1>9, <1>11, <1>12, <1>15, <1>21
<1> QED BY <1>20, <1>22, <1>23, <1>24, <1>25, <1>26, <1>27, <1>28, <1>29, <1>30

LEMMA ReadyFacts ==
    ASSUME SettlementAssumption, IInv, NEW s \in Sessions, NEW op, Ready(s, op)
    PROVE  /\ tx[s].op = op /\ tx[s].checked /\ tx[s].need = << >> /\ Own(s) /\ Claims(s) /\ TypeOK
           /\ \A b \in BanksOf(s) : tx[s].saw[b] = balance[b]
BY DEF Ready, IInv, SessionInv, Facts

(* A write within what its session has locked.                              *)
LEMMA WriteStep ==
    ASSUME SettlementAssumption, IInv, NEW s \in Sessions, NEW op, Ready(s, op), Ends(s), scene' = scene,
           RecordTypes', RecordsInv', Within(s)
    PROVE  IInv'
<1>1. TypeOK /\ tx[s].op = op /\ tx[s].checked /\ tx[s].need = << >> /\ Own(s)
  BY ReadyFacts
<1>2. /\ tx' = [tx EXCEPT ![s] = Idle] /\ tx'[s] = Idle /\ tx' \in [Sessions -> Transactions]
      /\ \A u \in Sessions \ {s} : tx'[u] = tx[u]
  BY <1>1, IdleIs DEF Ends, TypeOK
<1>3. TypeOK'
  BY <1>1, <1>2 DEF TypeOK, RecordTypes
<1>4. ASSUME NEW u \in Sessions \ {s} PROVE Keeps(u)' /\ Own(u)' /\ Facts(u)'
  <2>1. u \in Sessions /\ tx'[u] = tx[u] /\ RowsKept /\ ChequesKept
    BY <1>2 DEF Within
  <2>2. /\ Own(u)' /\ Keeps(u)' /\ BanksOf(u)' = BanksOf(u)
    BY <2>1, OthersKeepWork
  <2>3. CASE ~ tx[u].checked
    BY <2>1, <2>2, <2>3 DEF Facts
  <2>4. CASE tx[u].checked
    <3>1. Claims(u) /\ \A b \in BanksOf(u) : tx[u].saw[b] = balance[b]
      BY <2>1, <2>4 DEF IInv, SessionInv, Facts
    <3>2. /\ \A b \in BanksOf(u) : b \notin BanksOf(s) /\ b \in Banks
          /\ \A r \in RowsOf(u) : r \notin RowsOf(s) /\ r \in Rows /\ row[r].status # "none"
          /\ \A c \in ChequesOf(u) : c \notin ChequesOf(s) /\ c \in Cheques /\ cheque[c].status # "none"
          /\ \A d \in DocsOf(u) : d \notin DocsOf(s) /\ d \in Docs
      BY <1>1, <2>1, <2>4, OneHolder, WorkSets
    <3>3. \A b \in BanksOf(u) : balance'[b] = balance[b]
      BY <3>2 DEF Within, BanksWithin
    <3>4. \A r \in RowsOf(u) : row'[r] = row[r]
      BY <3>2 DEF Within, RowsWithin
    <3>5. \A c \in ChequesOf(u) : cheque'[c] = cheque[c]
      BY <3>2 DEF Within, ChequesWithin
    <3>6. \A d \in DocsWritten(s) : d \in DocsOf(s)
      BY <1>1, ConstantFacts DEF DocsWritten, DocsOf, Own
    <3>7. \A d \in DocsOf(u) : Eased(d)
      <4>1. \A d \in DocsOf(u) : d \in Docs /\ doc'[d] = doc[d] /\ Settled(d)' <= Settled(d)
        BY <3>2, <3>6 DEF Within, DocsWithin, SettlesWithin
      <4> QED BY <1>1, <4>1, RoomKept
    <3>8. Claims(u)'
      BY <2>1, <3>1, <3>3, <3>4, <3>5, <3>7, ClaimsKept
    <3> QED BY <2>1, <2>2, <3>1, <3>3, <3>8 DEF Facts
  <2> QED BY <2>3, <2>4
<1>5. SessionInv'
  <2>1. Keeps(s)' /\ Own(s)' /\ Facts(s)'
    BY <1>2, IdleKeeps
  <2> QED BY <1>4, <2>1 DEF SessionInv
<1>6. Apart'
  <2>1. tx'[s].held = {}
    BY <1>2, IdleKeeps
  <2>2. \A u, v \in Sessions \ {s} : u # v => \A h \in tx'[u].held, g \in tx'[v].held : ~ Conflict(h, g)
    BY <1>2 DEF IInv, Apart
  <2> QED BY <2>1, <2>2 DEF Apart, Conflict
<1> QED BY <1>3, <1>5, <1>6 DEF IInv

-----------------------------------------------------------------------------
(* Rows and cheques a session writes.                                       *)

LEMMA AccountTypes ==
    /\ \A b \in Banks : Bank(b) \in Accounts
    /\ Hand \in Accounts /\ Collection \in Accounts /\ Payable \in Accounts /\ Protest \in Accounts
    /\ Party \in Accounts /\ Creditors \in Accounts
    /\ \A a, b \in Accounts : {<<a, b>>} \in SUBSET (Accounts \X Accounts)
    /\ {} \in SUBSET (Accounts \X Accounts)
<1>1. \A b \in Banks : Bank(b) \in Accounts
  <2> HIDE DEF Bank
  <2> QED BY DEF Accounts
<1>2. /\ Hand \in Accounts /\ Collection \in Accounts /\ Payable \in Accounts /\ Protest \in Accounts
      /\ Party \in Accounts /\ Creditors \in Accounts
  <2> HIDE DEF Hand, Collection, Payable, Protest, Party, Creditors
  <2> QED BY DEF Accounts
<1>3. \A a, b \in Accounts : {<<a, b>>} \in SUBSET (Accounts \X Accounts)
  OBVIOUS
<1> QED BY <1>1, <1>2, <1>3

LEMMA NoRowIs ==
    ASSUME SettlementAssumption
    PROVE  /\ NoRow \in RowRecords /\ NoRow.status = "none" /\ NoRow.type = "receipt" /\ NoRow.bank = 0 /\ NoRow.link = 0
           /\ NoRow.pair = 0 /\ NoRow.parts = NoParts
<1>1. NoParts \in Parts
  BY NothingSettles
<1>2. NoRow \in RowRecords
  <2> HIDE DEF NoParts, Parts, Accounts
  <2> QED BY <1>1 DEF NoRow, RowRecords
<1> QED BY <1>2 DEF NoRow

(* A row as it is inserted.                                                 *)
IsRow(me, type, bank, link, pair, parts, vouchers) ==
    /\ me \in RowRecords /\ me.status = "completed" /\ me.type = type /\ me.bank = bank /\ me.link = link /\ me.pair = pair
    /\ me.parts = parts /\ me.vouchers = vouchers

LEMMA NewRows ==
    ASSUME SettlementAssumption, NEW bank \in Banks, NEW link \in Docs \cup {0}, NEW pair \in Rows \cup {0}, NEW parts \in Parts,
           NEW vouchers \in SUBSET (Accounts \X Accounts)
    PROVE  /\ IsRow([NoRow EXCEPT !.status = "completed", !.bank = bank, !.link = link, !.parts = parts, !.vouchers = vouchers],
                    "receipt", bank, link, 0, parts, vouchers)
           /\ IsRow([NoRow EXCEPT !.status = "completed", !.type = "payment", !.bank = bank, !.vouchers = vouchers],
                    "payment", bank, 0, 0, NoParts, vouchers)
           /\ IsRow([NoRow EXCEPT !.status = "completed", !.type = "payment", !.bank = bank, !.pair = pair, !.vouchers = vouchers],
                    "payment", bank, 0, pair, NoParts, vouchers)
           /\ IsRow([NoRow EXCEPT !.status = "completed", !.bank = bank, !.pair = pair],
                    "receipt", bank, 0, pair, NoParts, {})
<1>1. PICK i : i = NoRow
  OBVIOUS
<1>2. /\ i \in RowRecords /\ i.status = "none" /\ i.type = "receipt" /\ i.bank = 0 /\ i.link = 0
      /\ i.pair = 0 /\ i.parts = NoParts
  BY <1>1, NoRowIs
<1>3. i.vouchers = {}
  BY <1>1 DEF NoRow
<1>4. IsRow([i EXCEPT !.status = "completed", !.bank = bank, !.link = link, !.parts = parts, !.vouchers = vouchers],
            "receipt", bank, link, 0, parts, vouchers)
  <2> HIDE DEF NoParts, Parts, Accounts
  <2> QED BY <1>2 DEF IsRow, RowRecords
<1>5. IsRow([i EXCEPT !.status = "completed", !.type = "payment", !.bank = bank, !.vouchers = vouchers],
            "payment", bank, 0, 0, NoParts, vouchers)
  <2> HIDE DEF NoParts, Parts, Accounts
  <2> QED BY <1>2 DEF IsRow, RowRecords
<1>6. IsRow([i EXCEPT !.status = "completed", !.type = "payment", !.bank = bank, !.pair = pair, !.vouchers = vouchers],
            "payment", bank, 0, pair, NoParts, vouchers)
  <2> HIDE DEF NoParts, Parts, Accounts
  <2> QED BY <1>2 DEF IsRow, RowRecords
<1>7. IsRow([i EXCEPT !.status = "completed", !.bank = bank, !.pair = pair],
            "receipt", bank, 0, pair, NoParts, {})
  <2> HIDE DEF NoParts, Parts, Accounts
  <2> QED BY <1>2, <1>3 DEF IsRow, RowRecords
<1> QED BY <1>1, <1>4, <1>5, <1>6, <1>7

(* A row without another side is written; the others keep their sides.      *)
LEMMA OneRowWritten ==
    ASSUME SettlementAssumption, IInv, NEW r \in Rows, NEW me \in RowRecords, row' = [row EXCEPT ![r] = me],
           row[r].pair = 0, me.pair = 0, me.status # "none", me.bank \in Banks, me.link = 0 \/ me.parts = NoParts,
           Total(me.parts) <= Amount, me.type = "payment" => me.link = 0 /\ me.parts = NoParts,
           row[r].status # "none" => me.type = row[r].type /\ me.bank = row[r].bank
    PROVE  /\ row' \in [Rows -> RowRecords] /\ row'[r] = me /\ \A q \in Rows \ {r} : row'[q] = row[q]
           /\ RowsKept
           /\ \A q \in Rows : RowInv(q)'
<1>1. row \in [Rows -> RowRecords] /\ \A q \in Rows : RowInv(q)
  BY DEF IInv, TypeOK, RecordsInv
<1>2. row' \in [Rows -> RowRecords] /\ row'[r] = me /\ \A q \in Rows \ {r} : row'[q] = row[q]
  BY <1>1
<1>3. RowsKept
  BY <1>2 DEF RowsKept
<1>4. RowInv(r)'
  BY <1>2 DEF RowInv
<1>5. ASSUME NEW q \in Rows \ {r} PROVE RowInv(q)'
  <2>1. RowInv(q) /\ row'[q] = row[q] /\ q # 0 /\ row[q] \in RowRecords
    BY <1>1, <1>2, ConstantFacts
  <2>2. row[q].pair # 0 => row[q].pair # r /\ row[q].pair \in Rows
    BY <2>1 DEF RowInv, RowRecords
  <2>3. row[q].pair # 0 => row'[row[q].pair] = row[row[q].pair]
    BY <1>2, <2>2
  <2> QED BY <2>1, <2>3 DEF RowInv
<1> QED BY <1>2, <1>3, <1>4, <1>5

LEMMA RowsWritten ==
    ASSUME SettlementAssumption, TypeOK, row' \in [Rows -> RowRecords], cheque' = cheque, NEW d \in Docs,
           \A q \in Rows : RowPart(row'[q], d) <= RowPart(row[q], d)
    PROVE  Settled(d)' <= Settled(d)
<1>1. row \in AllRows /\ row' \in AllRows /\ cheque \in AllCheques
  BY DEF TypeOK, AllRows, AllCheques
<1>2. SettledIn(row', cheque, d) <= SettledIn(row, cheque, d)
  BY <1>1, RowsSettleLess
<1> QED BY <1>2, SettledIsIn

LEMMA ChequeWritten ==
    ASSUME SettlementAssumption, TypeOK, NEW c \in Cheques, NEW me \in ChequeRecords, cheque' = [cheque EXCEPT ![c] = me],
           row' = row, NEW d \in Docs
    PROVE  /\ cheque' \in [Cheques -> ChequeRecords] /\ cheque'[c] = me /\ \A e \in Cheques \ {c} : cheque'[e] = cheque[e]
           /\ Settled(d)' = Settled(d) - ChequePart(cheque[c], d) + ChequePart(me, d)
<1>1. row \in AllRows /\ cheque \in AllCheques
  BY DEF TypeOK, AllRows, AllCheques
<1>2. cheque' \in AllCheques /\ cheque'[c] = me /\ \A e \in Cheques \ {c} : cheque'[e] = cheque[e]
  BY <1>1 DEF AllCheques
<1>3. SettledIn(row, cheque', d) = SettledIn(row, cheque, d) - ChequePart(cheque[c], d) + ChequePart(cheque'[c], d)
  <2>1. PICK es \in AllCheques : es = cheque'
    BY <1>2
  <2>2. PICK rs \in AllRows, cs \in AllCheques : rs = row /\ cs = cheque
    BY <1>1
  <2>3. SameBut(cs, es, Cheques, c)
    BY <1>2, <2>1, <2>2 DEF SameBut
  <2>4. SettledIn(rs, es, d) = SettledIn(rs, cs, d) - ChequePart(cs[c], d) + ChequePart(es[c], d)
    BY <2>3, ChequeSettles
  <2> QED BY <2>1, <2>2, <2>4
<1> QED BY <1>2, <1>3, SettledIsIn DEF AllCheques

LEMMA NextRowFacts ==
    ASSUME SettlementAssumption, IInv
    PROVE  \A r \in Unused : r \in Rows /\ row[r].status = "none" /\ row[r] = NoRow /\ row[r].pair = 0 /\ r # 0
<1>1. \A r \in Unused : r \in Rows /\ row[r].status = "none"
  BY SceneTypes DEF Unused, IInv
<1>2. \A r \in Rows : row[r].status = "none" => row[r] = NoRow
  BY DEF IInv, RecordsInv, RowInv
<1> QED BY <1>1, <1>2, NoRowIs, ConstantFacts

(* The records a write leaves alone.                                        *)
LEMMA OtherRecords ==
    ASSUME IInv
    PROVE  /\ cheque' = cheque => ChequesKept /\ cheque' \in [Cheques -> ChequeRecords] /\ \A c \in Cheques : ChequeInv(c)'
           /\ row' = row => RowsKept /\ row' \in [Rows -> RowRecords] /\ \A r \in Rows : RowInv(r)'
           /\ doc' = doc => doc' \in [Docs -> DocRecords] /\ \A d \in Docs : DocInv(d)'
           /\ balance' = balance => balance' \in [Banks -> Nat]
           /\ \A s : cheque' = cheque => ChequesWithin(s)
           /\ \A s : row' = row => RowsWithin(s)
           /\ \A s : doc' = doc => DocsWithin(s)
           /\ \A s : balance' = balance => BanksWithin(s)
<1>1. cheque' = cheque => ChequesKept /\ cheque' \in [Cheques -> ChequeRecords] /\ \A c \in Cheques : ChequeInv(c)'
  BY DEF IInv, TypeOK, RecordsInv, ChequesKept, ChequeInv
<1>2. row' = row => RowsKept /\ row' \in [Rows -> RowRecords] /\ \A r \in Rows : RowInv(r)'
  BY DEF IInv, TypeOK, RecordsInv, RowsKept, RowInv
<1>3. doc' = doc => doc' \in [Docs -> DocRecords] /\ \A d \in Docs : DocInv(d)'
  BY DEF IInv, TypeOK, RecordsInv, DocInv
<1>4. balance' = balance => balance' \in [Banks -> Nat]
  BY DEF IInv, TypeOK
<1>5. /\ \A s : cheque' = cheque => ChequesWithin(s)
      /\ \A s : row' = row => RowsWithin(s)
      /\ \A s : doc' = doc => DocsWithin(s)
      /\ \A s : balance' = balance => BanksWithin(s)
  BY DEF ChequesWithin, RowsWithin, DocsWithin, BanksWithin
<1> QED BY <1>1, <1>2, <1>3, <1>4, <1>5

(* writeBankBalance, with the balance read under the lock.                  *)
LEMMA BalanceWritten ==
    ASSUME SettlementAssumption, IInv, NEW s \in Sessions, NEW op, Ready(s, op), NEW b \in BanksOf(s), NEW delta \in Int,
           balance[b] + delta >= 0, writeBankBalance(s, b, delta)
    PROVE  /\ balance' \in [Banks -> Nat] /\ BanksWithin(s) /\ balance'[b] = balance[b] + delta
           /\ \A a \in Banks \ {b} : balance'[a] = balance[a]
<1>1. TypeOK /\ b \in Banks /\ tx[s].saw[b] = balance[b]
  BY ReadyFacts, WorkSets
<1>2. balance[b] \in Int /\ balance \in [Banks -> Nat]
  BY <1>1, BalanceTypes DEF TypeOK
<1>3. PICK n : n = balance[b] + delta
  OBVIOUS
<1>4. n \in Nat
  BY <1>2, <1>3
<1>5. balance' = [balance EXCEPT ![b] = n]
  BY <1>1, <1>3 DEF writeBankBalance, Moved
<1>6. balance' \in [Banks -> Nat] /\ balance'[b] = n /\ \A a \in Banks \ {b} : balance'[a] = balance[a]
  BY <1>1, <1>2, <1>4, <1>5
<1>7. BanksWithin(s)
  BY <1>6 DEF BanksWithin
<1> QED BY <1>3, <1>6, <1>7

(* A step that writes one row, and perhaps one balance.                     *)
LEMMA RowStep ==
    ASSUME SettlementAssumption, IInv, NEW s \in Sessions, NEW op, Ready(s, op), Ends(s), scene' = scene,
           cheque' = cheque, doc' = doc, balance' \in [Banks -> Nat], BanksWithin(s),
           row' \in [Rows -> RowRecords], RowsKept, \A q \in Rows : RowInv(q)', RowsWithin(s),
           \A d \in Docs \ DocsOf(s) : \A q \in Rows : RowPart(row'[q], d) <= RowPart(row[q], d)
    PROVE  IInv'
<1>1. TypeOK
  BY DEF IInv
<1>2. RecordTypes'
  BY OtherRecords DEF RecordTypes
<1>3. RecordsInv'
  BY OtherRecords DEF RecordsInv
<1>4. SettlesWithin(s)
  BY <1>1, RowsWritten DEF SettlesWithin
<1>5. Within(s)
  BY <1>4, OtherRecords DEF Within
<1> QED BY <1>2, <1>3, <1>5, WriteStep

LEMMA RowPartOf ==
    ASSUME SettlementAssumption, NEW d \in Docs
    PROVE  /\ \A me : me.link = 0 /\ me.parts = NoParts => RowPart(me, d) = 0
           /\ \A me : me.link # d /\ me.parts[d] = 0 => RowPart(me, d) = 0
           /\ \A me \in RowRecords : RowPart(me, d) \in Nat
           /\ \A me : me.status # "completed" => RowPart(me, d) = 0
           /\ NoParts[d] = 0
<1>1. NoParts[d] = 0 /\ 0 # d
  BY ConstantFacts DEF NoParts
<1>2. \A me : me.link # d /\ me.parts[d] = 0 => RowPart(me, d) = 0
  BY DEF RowPart
<1>3. \A me : me.link = 0 /\ me.parts = NoParts => RowPart(me, d) = 0
  BY <1>1, <1>2
<1>4. \A me : me.status # "completed" => RowPart(me, d) = 0
  BY DEF RowPart
<1> QED BY <1>1, <1>2, <1>3, <1>4, PartTypes

-----------------------------------------------------------------------------
(* What a step does to the excess of a document: it settles no more than    *)
(* before, or no more than the document is worth.                           *)

Fair(d) == Excess(d)' > Excess(d) => doc'[d].returned > doc[d].returned
Fitted(d) ==
    \/ Settled(d)' <= Settled(d)
    \/ doc[d].status # "void" /\ Settled(d)' + doc[d].returned <= doc[d].payable

LEMMA ExcessIs ==
    ASSUME NEW x \in Int
    PROVE  Max({0, x}) = IF x > 0 THEN x ELSE 0
<1>1. {0, x} \in SUBSET Int /\ {0, x} # {} /\ IsFiniteSet({0, x})
  <2>1. IsFiniteSet({} \cup {0})
    BY FS_EmptySet, FS_AddElement
  <2>2. IsFiniteSet(({} \cup {0}) \cup {x})
    BY <2>1, FS_AddElement
  <2>3. ({} \cup {0}) \cup {x} = {0, x}
    OBVIOUS
  <2> QED BY <2>2, <2>3
<1>2. Max({0, x}) \in {0, x} /\ \A y \in {0, x} : y <= Max({0, x})
  BY <1>1, MaxOfFinite
<1>3. 0 <= Max({0, x}) /\ x <= Max({0, x}) /\ (Max({0, x}) = 0 \/ Max({0, x}) = x)
  BY <1>2
<1> HIDE DEF Max
<1> QED BY <1>3

LEMMA LessExcess ==
    ASSUME NEW x \in Int, NEW y \in Int, y <= x \/ y <= 0
    PROVE  ~ (Max({0, y}) > Max({0, x}))
<1>1. /\ Max({0, x}) = IF x > 0 THEN x ELSE 0
      /\ Max({0, y}) = IF y > 0 THEN y ELSE 0
  BY ExcessIs
<1> HIDE DEF Max
<1> QED BY <1>1

LEMMA SettledNext ==
    ASSUME SettlementAssumption, TypeOK', NEW d \in Docs
    PROVE  Settled(d)' \in Nat
<1>1. row' \in AllRows /\ cheque' \in AllCheques
  BY DEF TypeOK, AllRows, AllCheques
<1> QED BY <1>1, SettledIsIn, SettledInType

LEMMA BalanceParts ==
    ASSUME SettlementAssumption, TypeOK, NEW d \in Docs
    PROVE  Settled(d) \in Int /\ doc[d].returned \in Int /\ doc[d].payable \in Int /\ Worth(d) \in Int
<1>1. Settled(d) \in Nat /\ doc[d].payable \in Int /\ doc[d].returned \in Int
  BY SettledTypes
<1> QED BY <1>1 DEF Worth

(* A document gets an excess only where its balance grows above zero.       *)
LEMMA FairStep ==
    ASSUME SettlementAssumption, TypeOK, TypeOK', NEW d \in Docs,
           \/ doc'[d].returned > doc[d].returned
           \/ Settled(d)' + doc'[d].returned - Worth(d)' <= Settled(d) + doc[d].returned - Worth(d)
           \/ Settled(d)' + doc'[d].returned <= Worth(d)'
    PROVE  Fair(d)
<1>1. Settled(d) \in Int /\ doc[d].returned \in Int /\ Worth(d) \in Int
  BY BalanceParts
<1>2. Settled(d)' \in Int /\ doc'[d].returned \in Int /\ Worth(d)' \in Int
  <2>1. Settled(d)' \in Nat
    BY SettledNext
  <2>2. doc'[d] \in DocRecords
    BY DEF TypeOK
  <2>3. doc'[d].returned \in Int /\ doc'[d].payable \in Int
    BY <2>2 DEF DocRecords, SettlementAssumption
  <2> QED BY <2>1, <2>3 DEF Worth
<1>3. PICK x \in Int : x = Settled(d) + doc[d].returned - Worth(d)
  BY <1>1
<1>4. PICK y \in Int : y = Settled(d)' + doc'[d].returned - Worth(d)'
  BY <1>2
<1>5. Excess(d) = Max({0, x}) /\ Excess(d)' = Max({0, y})
  BY <1>3, <1>4 DEF Excess
<1>6. CASE doc'[d].returned > doc[d].returned
  BY <1>6 DEF Fair
<1>7. CASE y <= x \/ y <= 0
  <2>1. ~ (Max({0, y}) > Max({0, x}))
    BY <1>7, LessExcess
  <2> QED BY <1>5, <2>1 DEF Fair
<1>8. CASE Settled(d)' + doc'[d].returned <= Worth(d)'
  <2>1. y <= 0
    BY <1>2, <1>4, <1>8
  <2> QED BY <1>7, <2>1
<1> QED BY <1>3, <1>4, <1>6, <1>7, <1>8

LEMMA FittedIsFair ==
    ASSUME SettlementAssumption, TypeOK, TypeOK', NEW d \in Docs, doc' = doc, Fitted(d)
    PROVE  Fair(d)
<1>1. /\ Settled(d) \in Int /\ doc[d].returned \in Int /\ doc[d].payable \in Int /\ Worth(d) \in Int
      /\ Worth(d)' = Worth(d)
  <2>1. Settled(d) \in Int /\ doc[d].returned \in Int /\ doc[d].payable \in Int /\ Worth(d) \in Int
    BY BalanceParts
  <2>2. Worth(d)' = Worth(d)
    BY DEF Worth
  <2> QED BY <2>1, <2>2
<1>2. Settled(d)' \in Int
  BY SettledNext
<1>3. CASE Settled(d)' <= Settled(d)
  <2>1. Settled(d)' + doc'[d].returned - Worth(d)' <= Settled(d) + doc[d].returned - Worth(d)
    BY <1>1, <1>2, <1>3
  <2> QED BY <2>1, FairStep
<1>4. CASE doc[d].status # "void" /\ Settled(d)' + doc[d].returned <= doc[d].payable
  <2>1. Settled(d)' + doc'[d].returned <= Worth(d)'
    BY <1>1, <1>4 DEF Worth
  <2> QED BY <2>1, FairStep
<1> QED BY <1>3, <1>4 DEF Fitted

(* A row that is written where there is room for it fits.                   *)
LEMMA RowFits ==
    ASSUME SettlementAssumption, TypeOK, NEW r \in Rows, NEW me \in RowRecords, row' = [row EXCEPT ![r] = me],
           cheque' = cheque, NEW d \in Docs, NEW kept \in Nat, kept <= RowPart(row[r], d),
           RowPart(me, d) = 0 \/ Room(d, RowPart(me, d), kept)
    PROVE  Fitted(d)
<1>1. row \in AllRows /\ row' \in AllRows /\ cheque \in AllCheques /\ row'[r] = me /\ SameBut(row, row', Rows, r)
  BY DEF TypeOK, AllRows, AllCheques, SameBut
<1>2. SettledIn(row', cheque, d) = SettledIn(row, cheque, d) - RowPart(row[r], d) + RowPart(row'[r], d)
  <2>1. PICK rs \in AllRows, qs \in AllRows, cs \in AllCheques : rs = row /\ qs = row' /\ cs = cheque
    BY <1>1
  <2>2. SameBut(rs, qs, Rows, r)
    BY <1>1, <2>1
  <2>3. SettledIn(qs, cs, d) = SettledIn(rs, cs, d) - RowPart(rs[r], d) + RowPart(qs[r], d)
    BY <2>2, RowSettles
  <2> QED BY <2>1, <2>3
<1>3. Settled(d)' = Settled(d) - RowPart(row[r], d) + RowPart(me, d)
  BY <1>1, <1>2, SettledIsIn
<1>4. /\ Settled(d) \in Int /\ RowPart(row[r], d) \in Nat /\ RowPart(me, d) \in Nat
      /\ doc[d].returned \in Int /\ doc[d].payable \in Int
  BY SettledTypes, PartTypes DEF TypeOK
<1>5. CASE RowPart(me, d) = 0
  BY <1>3, <1>4, <1>5 DEF Fitted
<1>6. CASE Room(d, RowPart(me, d), kept)
  <2>1. doc[d].status # "void" /\ Settled(d) - kept + doc[d].returned + RowPart(me, d) <= doc[d].payable
    BY <1>6 DEF Room
  <2> QED BY <1>3, <1>4, <2>1 DEF Fitted
<1> QED BY <1>5, <1>6

LEMMA ChequeFits ==
    ASSUME SettlementAssumption, TypeOK, NEW c \in Cheques, NEW me \in ChequeRecords, cheque' = [cheque EXCEPT ![c] = me],
           row' = row, NEW d \in Docs, NEW kept \in Nat, kept <= ChequePart(cheque[c], d),
           ChequePart(me, d) = 0 \/ Room(d, ChequePart(me, d), kept)
    PROVE  Fitted(d)
<1>1. Settled(d)' = Settled(d) - ChequePart(cheque[c], d) + ChequePart(me, d)
  BY ChequeWritten
<1>2. /\ Settled(d) \in Int /\ ChequePart(cheque[c], d) \in Nat /\ ChequePart(me, d) \in Nat
      /\ doc[d].returned \in Int /\ doc[d].payable \in Int
  BY SettledTypes, PartTypes DEF TypeOK
<1>3. CASE ChequePart(me, d) = 0
  BY <1>1, <1>2, <1>3 DEF Fitted
<1>4. CASE Room(d, ChequePart(me, d), kept)
  <2>1. doc[d].status # "void" /\ Settled(d) - kept + doc[d].returned + ChequePart(me, d) <= doc[d].payable
    BY <1>4 DEF Room
  <2> QED BY <1>1, <1>2, <2>1 DEF Fitted
<1> QED BY <1>3, <1>4

-----------------------------------------------------------------------------
(* Receipts, payments and transfers.                                        *)

LEMMA ReceiptKeeps ==
    ASSUME SettlementAssumption, IInv, NEW s \in Sessions, Receipt(s)
    PROVE  IInv' /\ \A d \in Docs : Fair(d)
<1>1. /\ Ready(s, "receipt") /\ Ends(s) /\ scene' = scene /\ cheque' = cheque /\ doc' = doc
      /\ writeBankBalance(s, tx[s].bank, Amount)
  BY DEF Receipt
<1>2. TypeOK /\ tx[s].op = "receipt" /\ Own(s) /\ Claims(s)
  BY <1>1, ReadyFacts
<1>3. PICK bank \in Banks, link \in Docs \cup {0}, parts \in Parts :
          bank = tx[s].bank /\ link = tx[s].doc /\ parts = tx[s].parts
  BY <1>2, SessionTypes DEF Own
<1>4. PICK vouchers \in SUBSET (Accounts \X Accounts) : vouchers = {<<Bank(bank), Party>>}
  BY AccountTypes
<1>5. PICK me : me = [NoRow EXCEPT !.status = "completed", !.bank = bank, !.link = link, !.parts = parts, !.vouchers = vouchers]
  OBVIOUS
<1>6. IsRow(me, "receipt", bank, link, 0, parts, vouchers)
  <2>1. IsRow([NoRow EXCEPT !.status = "completed", !.bank = bank, !.link = link, !.parts = parts, !.vouchers = vouchers],
              "receipt", bank, link, 0, parts, vouchers)
    BY 0 \in Rows \cup {0}, NewRows
  <2> QED BY <1>5, <2>1
<1>7. PICK r \in NextRow : row' = [row EXCEPT ![r] = me]
  BY <1>1, <1>3, <1>4, <1>5 DEF Receipt
<1>8. r \in Rows /\ row[r].status = "none" /\ row[r].pair = 0 /\ row[r] = NoRow
  BY <1>7, NextRowFacts DEF NextRow
<1>9. /\ me \in RowRecords /\ me.pair = 0 /\ me.status # "none" /\ me.bank \in Banks /\ (me.link = 0 \/ me.parts = NoParts)
      /\ Total(me.parts) <= Amount /\ me.type # "payment" /\ me.link = link /\ me.parts = parts
  BY <1>2, <1>3, <1>6 DEF IsRow, Own
<1>10. /\ row' \in [Rows -> RowRecords] /\ row'[r] = me /\ \A q \in Rows \ {r} : row'[q] = row[q]
       /\ RowsKept /\ \A q \in Rows : RowInv(q)'
  BY <1>7, <1>8, <1>9, OneRowWritten
<1>11. RowsWithin(s)
  BY <1>8, <1>10 DEF RowsWithin
<1>12. ASSUME NEW d \in Docs \ DocsOf(s), NEW q \in Rows PROVE RowPart(row'[q], d) <= RowPart(row[q], d)
  <2>1. row[q] \in RowRecords /\ RowPart(row[q], d) \in Nat
    BY <1>2, RowPartOf DEF TypeOK
  <2>2. CASE q = r
    <3>1. d # link /\ ~ (parts[d] > 0) /\ parts[d] \in Nat
      BY <1>2, <1>3, <1>12, SessionTypes DEF DocsOf, Chosen
    <3>2. me.parts[d] = 0 /\ me.link # d
      BY <1>9, <3>1
    <3>3. RowPart(me, d) = 0
      BY <3>2 DEF RowPart
    <3> QED BY <1>10, <2>1, <2>2, <3>3
  <2>3. CASE q # r
    BY <1>10, <2>1, <2>3
  <2> QED BY <2>2, <2>3
<1>13. balance' \in [Banks -> Nat] /\ BanksWithin(s)
  <2>1. bank \in BanksOf(s) /\ Amount \in Int /\ balance[bank] + Amount >= 0
    <3>1. balance[bank] \in Nat /\ Amount \in Nat
      BY <1>2, BalanceTypes
    <3> QED BY <1>2, <1>3, <3>1 DEF BanksOf
  <2> QED BY <1>1, <1>3, <2>1, BalanceWritten
<1>14. ASSUME NEW d \in Docs PROVE Fitted(d)
  <2>1. parts[d] \in Nat /\ NoParts[d] = 0 /\ d # 0 /\ 0 \in Nat
    BY <1>2, <1>3, SessionTypes, RowPartOf, ConstantFacts
  <2>2. 0 <= RowPart(row[r], d)
    <3>1. RowPart(row[r], d) \in Nat
      BY <1>2, <1>8, RowPartOf DEF TypeOK
    <3> QED BY <3>1
  <2>3. CASE link = d
    <3>1. me.parts[d] = 0 /\ Amount \in Int /\ me.status = "completed"
      BY <1>6, <1>9, <2>1, <2>3, SettlementAssumption DEF IsRow
    <3>2. RowPart(me, d) = Amount
      BY <1>9, <2>3, <3>1 DEF RowPart
    <3>3. Room(d, Amount, 0)
      BY <1>2, <1>3, <2>1, <2>3 DEF Claims
    <3> QED BY <1>1, <1>2, <1>7, <1>8, <1>9, <2>1, <2>2, <3>2, <3>3, RowFits
  <2>4. CASE link # d
    <3>1. RowPart(me, d) = parts[d]
      BY <1>6, <1>9, <2>1, <2>4 DEF RowPart, IsRow
    <3>2. parts[d] > 0 => Room(d, parts[d], 0)
      BY <1>2, <1>3 DEF Claims, Chosen
    <3>3. RowPart(me, d) = 0 \/ Room(d, RowPart(me, d), 0)
      BY <2>1, <3>1, <3>2
    <3> QED BY <1>1, <1>2, <1>7, <1>8, <1>9, <2>1, <2>2, <3>3, RowFits
  <2> QED BY <2>3, <2>4
<1>15. IInv'
  BY <1>1, <1>10, <1>11, <1>12, <1>13, RowStep
<1> QED BY <1>1, <1>2, <1>14, <1>15, FittedIsFair DEF IInv

LEMMA PaymentKeeps ==
    ASSUME SettlementAssumption, IInv, NEW s \in Sessions, Payment(s)
    PROVE  IInv' /\ \A d \in Docs : Fair(d)
<1>1. /\ Ready(s, "payment") /\ Ends(s) /\ scene' = scene /\ cheque' = cheque /\ doc' = doc
      /\ writeBankBalance(s, tx[s].bank, 0 - Amount)
  BY DEF Payment
<1>2. TypeOK /\ tx[s].op = "payment" /\ Own(s) /\ balance[tx[s].bank] - Amount >= 0
  BY <1>1, ReadyFacts DEF Claims
<1>3. PICK bank \in Banks : bank = tx[s].bank
  BY <1>2 DEF Own
<1>4. PICK vouchers \in SUBSET (Accounts \X Accounts) : vouchers = {<<Party, Bank(bank)>>}
  BY AccountTypes
<1>5. PICK me : me = [NoRow EXCEPT !.status = "completed", !.type = "payment", !.bank = bank, !.vouchers = vouchers]
  OBVIOUS
<1>6. IsRow(me, "payment", bank, 0, 0, NoParts, vouchers)
  <2>1. IsRow([NoRow EXCEPT !.status = "completed", !.type = "payment", !.bank = bank, !.vouchers = vouchers],
              "payment", bank, 0, 0, NoParts, vouchers)
    BY 0 \in Rows \cup {0}, 0 \in Docs \cup {0}, ConstantFacts, NewRows
  <2> QED BY <1>5, <2>1
<1>7. PICK r \in NextRow : row' = [row EXCEPT ![r] = me]
  BY <1>1, <1>3, <1>4, <1>5 DEF Payment
<1>8. r \in Rows /\ row[r].status = "none" /\ row[r].pair = 0 /\ row[r] = NoRow
  BY <1>7, NextRowFacts DEF NextRow
<1>9. /\ me \in RowRecords /\ me.pair = 0 /\ me.status # "none" /\ me.bank \in Banks
      /\ Total(me.parts) <= Amount /\ me.link = 0 /\ me.parts = NoParts
  BY <1>6, ConstantFacts DEF IsRow
<1>10. /\ row' \in [Rows -> RowRecords] /\ row'[r] = me /\ \A q \in Rows \ {r} : row'[q] = row[q]
       /\ RowsKept /\ \A q \in Rows : RowInv(q)'
  BY <1>7, <1>8, <1>9, OneRowWritten
<1>11. RowsWithin(s)
  BY <1>8, <1>10 DEF RowsWithin
<1>12. ASSUME NEW d \in Docs, NEW q \in Rows PROVE RowPart(row'[q], d) <= RowPart(row[q], d)
  <2>1. row[q] \in RowRecords /\ RowPart(row[q], d) \in Nat
    BY <1>2, RowPartOf DEF TypeOK
  <2>2. CASE q = r
    <3>1. RowPart(me, d) = 0
      BY <1>9, RowPartOf
    <3> QED BY <1>10, <2>1, <2>2, <3>1
  <2>3. CASE q # r
    BY <1>10, <2>1, <2>3
  <2> QED BY <2>2, <2>3
<1>13. balance' \in [Banks -> Nat] /\ BanksWithin(s)
  <2>1. bank \in BanksOf(s)
    BY <1>2, <1>3 DEF BanksOf
  <2>2. balance[bank] \in Nat /\ Amount \in Nat
    BY <1>2, BalanceTypes
  <2>3. PICK delta \in Int : delta = 0 - Amount
    BY <2>2
  <2>4. balance[bank] + delta >= 0
    BY <1>2, <1>3, <2>2, <2>3
  <2> QED BY <1>1, <1>3, <2>1, <2>3, <2>4, BalanceWritten
<1>14. ASSUME NEW d \in Docs PROVE Fitted(d)
  BY <1>1, <1>2, <1>10, <1>12, RowsWritten DEF Fitted
<1>15. IInv'
  BY <1>1, <1>10, <1>11, <1>12, <1>13, RowStep
<1> QED BY <1>1, <1>2, <1>14, <1>15, FittedIsFair DEF IInv

LEMMA RelinkKeeps ==
    ASSUME SettlementAssumption, IInv, NEW s \in Sessions, Relink(s)
    PROVE  IInv' /\ \A d \in Docs : Fair(d)
<1>1. Ready(s, "relink") /\ Ends(s) /\ scene' = scene /\ cheque' = cheque /\ doc' = doc /\ balance' = balance
  BY DEF Relink
<1>2. TypeOK /\ tx[s].op = "relink" /\ Own(s) /\ Claims(s)
  BY <1>1, ReadyFacts
<1>3. PICK r \in Rows, link \in Docs \cup {0} : r = tx[s].id /\ link = tx[s].doc
  BY <1>2, SessionTypes DEF Own
<1>4. row[r] \in RowRecords /\ RowInv(r) /\ row[r].status # "none" /\ row[r].type = "receipt" /\ row[r].pair = 0
      /\ row[r].parts = NoParts
  BY <1>2, <1>3 DEF Own, Claims, TypeOK, IInv, RecordsInv
<1>5. PICK me : me = [row[r] EXCEPT !.link = link]
  OBVIOUS
<1>6. row' = [row EXCEPT ![r] = me]
  BY <1>2, <1>3, <1>5 DEF Relink, TypeOK
<1>7. /\ me \in RowRecords /\ me.pair = 0 /\ me.status = row[r].status /\ me.bank = row[r].bank /\ me.type = row[r].type
      /\ me.link = link /\ me.parts = NoParts
  <2> HIDE DEF NoParts, Parts, Accounts
  <2> QED BY <1>4, <1>5 DEF RowRecords
<1>8. row[r].bank \in Banks /\ Total(NoParts) <= Amount
  BY <1>4, ConstantFacts DEF RowInv
<1>9. /\ row' \in [Rows -> RowRecords] /\ row'[r] = me /\ \A q \in Rows \ {r} : row'[q] = row[q]
      /\ RowsKept /\ \A q \in Rows : RowInv(q)'
  BY <1>4, <1>6, <1>7, <1>8, OneRowWritten
<1>10. RowsWithin(s)
  BY <1>2, <1>3, <1>9 DEF RowsWithin, RowsOf
<1>11. ASSUME NEW d \in Docs \ DocsOf(s), NEW q \in Rows PROVE RowPart(row'[q], d) <= RowPart(row[q], d)
  <2>1. row[q] \in RowRecords /\ RowPart(row[q], d) \in Nat
    BY <1>2, RowPartOf DEF TypeOK
  <2>2. CASE q = r
    <3>1. d # link /\ NoParts[d] = 0
      BY <1>2, <1>3, <1>11, ConstantFacts, RowPartOf DEF DocsOf
    <3>2. me.parts[d] = 0 /\ me.link # d
      BY <1>7, <3>1
    <3>3. RowPart(me, d) = 0
      BY <3>2 DEF RowPart
    <3> QED BY <1>9, <2>1, <2>2, <3>3
  <2>3. CASE q # r
    BY <1>9, <2>1, <2>3
  <2> QED BY <2>2, <2>3
<1>12. balance' \in [Banks -> Nat] /\ BanksWithin(s)
  BY <1>1, OtherRecords
<1>13. ASSUME NEW d \in Docs PROVE Fitted(d)
  <2>1. NoParts[d] = 0 /\ d # 0 /\ 0 \in Nat /\ Amount \in Int
    BY RowPartOf, ConstantFacts, SettlementAssumption
  <2>2. 0 <= RowPart(row[r], d)
    <3>1. RowPart(row[r], d) \in Nat
      BY <1>4, RowPartOf
    <3> QED BY <3>1
  <2>3. CASE link = d
    <3>1. RowPart(me, d) = 0 \/ RowPart(me, d) = Amount
      BY <1>7, <2>1, <2>3 DEF RowPart
    <3>2. Room(d, Amount, 0)
      BY <1>2, <1>3, <2>1, <2>3 DEF Claims
    <3>3. RowPart(me, d) = 0 \/ Room(d, RowPart(me, d), 0)
      BY <3>1, <3>2
    <3> QED BY <1>1, <1>2, <1>6, <1>7, <2>1, <2>2, <3>3, RowFits
  <2>4. CASE link # d
    <3>1. RowPart(me, d) = 0
      BY <1>7, <2>1, <2>4 DEF RowPart
    <3> QED BY <1>1, <1>2, <1>6, <1>7, <2>1, <2>2, <3>1, RowFits
  <2> QED BY <2>3, <2>4
<1>14. IInv'
  BY <1>1, <1>9, <1>10, <1>11, <1>12, RowStep
<1> QED BY <1>1, <1>2, <1>13, <1>14, FittedIsFair DEF IInv

LEMMA ReplaceKeeps ==
    ASSUME SettlementAssumption, IInv, NEW s \in Sessions, Replace(s)
    PROVE  IInv' /\ \A d \in Docs : Fair(d)
<1>1. Ready(s, "replace") /\ Ends(s) /\ scene' = scene /\ cheque' = cheque /\ doc' = doc /\ balance' = balance
  BY DEF Replace
<1>2. TypeOK /\ tx[s].op = "replace" /\ Own(s) /\ Claims(s)
  BY <1>1, ReadyFacts
<1>3. PICK r \in Rows, parts \in Parts : r = tx[s].id /\ parts = tx[s].parts
  BY <1>2, SessionTypes DEF Own
<1>4. row[r] \in RowRecords /\ RowInv(r) /\ row[r].status # "none" /\ row[r].type = "receipt" /\ row[r].pair = 0
      /\ Total(parts) <= Amount
  BY <1>2, <1>3 DEF Own, TypeOK, IInv, RecordsInv
<1>5. PICK me : me = [row[r] EXCEPT !.parts = parts, !.link = 0]
  OBVIOUS
<1>6. row' = [row EXCEPT ![r] = me]
  BY <1>2, <1>3, <1>5 DEF Replace, TypeOK
<1>7. /\ me \in RowRecords /\ me.pair = 0 /\ me.status = row[r].status /\ me.bank = row[r].bank /\ me.type = row[r].type
      /\ me.link = 0 /\ me.parts = parts
  <2> HIDE DEF NoParts, Parts, Accounts
  <2> QED BY <1>4, <1>5 DEF RowRecords
<1>8. row[r].bank \in Banks
  BY <1>4 DEF RowInv
<1>9. /\ row' \in [Rows -> RowRecords] /\ row'[r] = me /\ \A q \in Rows \ {r} : row'[q] = row[q]
      /\ RowsKept /\ \A q \in Rows : RowInv(q)'
  BY <1>4, <1>6, <1>7, <1>8, OneRowWritten
<1>10. RowsWithin(s)
  BY <1>2, <1>3, <1>9 DEF RowsWithin, RowsOf
<1>11. ASSUME NEW d \in Docs \ DocsOf(s), NEW q \in Rows PROVE RowPart(row'[q], d) <= RowPart(row[q], d)
  <2>1. row[q] \in RowRecords /\ RowPart(row[q], d) \in Nat
    BY <1>2, RowPartOf DEF TypeOK
  <2>2. CASE q = r
    <3>1. 0 # d /\ ~ (parts[d] > 0) /\ parts[d] \in Nat
      BY <1>2, <1>3, <1>11, ConstantFacts, SessionTypes DEF DocsOf, Chosen
    <3>2. me.parts[d] = 0 /\ me.link # d
      BY <1>7, <3>1
    <3>3. RowPart(me, d) = 0
      BY <3>2 DEF RowPart
    <3> QED BY <1>9, <2>1, <2>2, <3>3
  <2>3. CASE q # r
    BY <1>9, <2>1, <2>3
  <2> QED BY <2>2, <2>3
<1>12. balance' \in [Banks -> Nat] /\ BanksWithin(s)
  BY <1>1, OtherRecords
<1>13. ASSUME NEW d \in Docs PROVE Fitted(d)
  <2>1. parts[d] \in Nat /\ d # 0
    BY <1>2, <1>3, SessionTypes, ConstantFacts
  <2>2. RowPart(row[r], d) \in Nat /\ RowShare(r, d) = RowPart(row[r], d)
    BY <1>4, RowPartOf, SettledIsIn
  <2>3. RowPart(me, d) = 0 \/ RowPart(me, d) = parts[d]
    BY <1>7, <2>1 DEF RowPart
  <2>4. parts[d] > 0 => Room(d, parts[d], RowPart(row[r], d))
    BY <1>2, <1>3, <2>2 DEF Claims, Chosen
  <2>5. RowPart(me, d) = 0 \/ Room(d, RowPart(me, d), RowPart(row[r], d))
    BY <2>1, <2>3, <2>4
  <2>6. RowPart(row[r], d) <= RowPart(row[r], d)
    BY <2>2
  <2> QED BY <1>1, <1>2, <1>6, <1>7, <2>2, <2>5, <2>6, RowFits
<1>14. IInv'
  BY <1>1, <1>9, <1>10, <1>11, <1>12, RowStep
<1> QED BY <1>1, <1>2, <1>13, <1>14, FittedIsFair DEF IInv

(* voidTreasuryTransaction: both sides of a transfer stay each other's.     *)
LEMMA VoidKeeps ==
    ASSUME SettlementAssumption, IInv, NEW s \in Sessions, Void(s)
    PROVE  IInv' /\ \A d \in Docs : Fair(d)
<1>1. Ready(s, "void") /\ Ends(s) /\ scene' = scene /\ cheque' = cheque /\ doc' = doc
  BY DEF Void
<1>2. TypeOK /\ tx[s].op = "void" /\ Own(s) /\ Claims(s) /\ \A b \in BanksOf(s) : tx[s].saw[b] = balance[b]
  BY <1>1, ReadyFacts
<1>3. PICK r \in Rows : r = tx[s].id
  BY <1>2 DEF Own
<1>3a. PICK sides : sides = SidesOf(r)
  OBVIOUS
<1>4. /\ row[r].status # "none" /\ sides \in SUBSET Rows /\ r \in sides /\ sides = RowsOf(s)
      /\ \A q \in sides : q \in Rows /\ row[q].status # "none" /\ row[q].bank \in Banks
      /\ sides = {r} \cup ({row[r].pair} \ {0})
  <2>1. row[r].status # "none" /\ r # 0
    BY <1>2, <1>3, <1>3a, ConstantFacts DEF Own
  <2> QED BY <1>2, <1>3, <1>3a, <2>1, SidesFacts DEF RowsOf, SidesOf
<1>5. row \in [Rows -> RowRecords] /\ \A q \in Rows : RowInv(q) /\ q # 0
  BY <1>2, ConstantFacts DEF TypeOK, IInv, RecordsInv
<1>6. row' = [q \in Rows |-> IF q \in sides THEN [row[q] EXCEPT !.status = "voided", !.vouchers = {}] ELSE row[q]]
  BY <1>3, <1>3a DEF Void
<1>7. ASSUME NEW q \in Rows
      PROVE  /\ row'[q] \in RowRecords /\ row'[q].type = row[q].type /\ row'[q].bank = row[q].bank /\ row'[q].link = row[q].link
             /\ row'[q].pair = row[q].pair /\ row'[q].parts = row[q].parts
             /\ q \in sides => row'[q].status = "voided"
             /\ q \notin sides => row'[q] = row[q]
  <2>1. PICK me : me = row[q]
    OBVIOUS
  <2>2. PICK gone : gone = [me EXCEPT !.status = "voided", !.vouchers = {}]
    OBVIOUS
  <2>3. me \in RowRecords
    BY <1>5, <2>1
  <2>4. /\ gone \in RowRecords /\ gone.type = me.type /\ gone.bank = me.bank /\ gone.link = me.link
        /\ gone.pair = me.pair /\ gone.parts = me.parts /\ gone.status = "voided"
    <3> HIDE DEF NoParts, Parts, Accounts
    <3> QED BY <2>2, <2>3, AccountTypes DEF RowRecords
  <2>5. row'[q] = IF q \in sides THEN gone ELSE me
    BY <1>6, <2>1, <2>2
  <2> QED BY <2>1, <2>3, <2>4, <2>5
<1>8. row' \in [Rows -> RowRecords]
  <2>1. row' = [q \in Rows |-> row'[q]]
    BY <1>6
  <2> QED BY <1>7, <2>1
<1>9. RowsKept
  BY <1>7 DEF RowsKept
<1>10. \A q \in Rows : row[q].pair # 0 => row[q].pair \in Rows /\ row[row[q].pair].pair = q /\ (q \in sides <=> row[q].pair \in sides)
  <2>1. SUFFICES ASSUME NEW q \in Rows, row[q].pair # 0
                 PROVE  row[q].pair \in Rows /\ row[row[q].pair].pair = q /\ (q \in sides <=> row[q].pair \in sides)
    OBVIOUS
  <2>2. row[q].pair \in Rows /\ row[row[q].pair].pair = q
    BY <1>5, <2>1 DEF RowInv, RowRecords
  <2>3. row[r].pair # 0 => row[row[r].pair].pair = r
    BY <1>5 DEF RowInv
  <2> QED BY <1>4, <1>5, <2>1, <2>2, <2>3
<1>11. ASSUME NEW q \in Rows PROVE RowInv(q)'
  <2>1. RowInv(q)
    BY <1>5
  <2>2. CASE q \notin sides
    <3>1. row'[q] = row[q]
      BY <1>7, <2>2
    <3>2. row[q].pair # 0 => row'[row[q].pair] = row[row[q].pair]
      BY <1>7, <1>10, <2>2
    <3> QED BY <2>1, <3>1, <3>2 DEF RowInv
  <2>3. CASE q \in sides
    <3>1. row[q].status # "none" /\ row'[q].status = "voided"
      BY <1>4, <1>7, <2>3
    <3>2. row[q].pair # 0 => LET p == row[q].pair IN
              row'[p].status = "voided" /\ row'[p].pair = row[p].pair /\ row'[p].bank = row[p].bank /\ row'[p].type = row[p].type
      BY <1>7, <1>10, <2>3
    <3> QED BY <1>7, <2>1, <3>1, <3>2 DEF RowInv
  <2> QED BY <2>2, <2>3
<1>12. RowsWithin(s)
  BY <1>4, <1>7 DEF RowsWithin
<1>13. ASSUME NEW d \in Docs, NEW q \in Rows PROVE RowPart(row'[q], d) <= RowPart(row[q], d)
  <2>1. RowPart(row[q], d) \in Nat
    BY <1>5, RowPartOf
  <2>2. CASE q \in sides
    <3>1. row'[q].status # "completed"
      BY <1>7, <2>2
    <3>2. RowPart(row'[q], d) = 0
      BY <3>1, RowPartOf
    <3> QED BY <2>1, <3>2
  <2>3. CASE q \notin sides
    BY <1>7, <2>1, <2>3
  <2> QED BY <2>2, <2>3
<1>14. BanksOf(s) = {row[q].bank : q \in sides}
  BY <1>2, <1>3, <1>3a DEF BanksOf
<1>15. ASSUME NEW b \in Banks
       PROVE  balance'[b] \in Nat /\ (b \notin BanksOf(s) => balance'[b] = balance[b])
  <2>1. balance'[b] = IF \E q \in sides : row[q].bank = b
                      THEN tx[s].saw[b] + Back(CHOOSE q \in sides : row[q].bank = b) ELSE balance[b]
    BY <1>3, <1>3a DEF Void, Moved
  <2>2. CASE b \in BanksOf(s)
    <3>1. PICK q \in sides : q = CHOOSE x \in sides : row[x].bank = b
      BY <1>14, <2>2
    <3>2. row[q].bank = b
      BY <1>14, <2>2, <3>1
    <3>3. balance'[b] = balance[b] + Back(q)
      BY <1>2, <2>1, <2>2, <3>1, <3>2
    <3>4. balance[b] + Back(q) >= 0
      BY <1>2, <1>3, <1>3a, <3>2 DEF Claims
    <3>5. balance[b] \in Int /\ Amount \in Int
      BY <1>2, BalanceTypes
    <3>6. Back(q) \in Int
      BY <3>5 DEF Back
    <3> QED BY <2>2, <3>3, <3>4, <3>5, <3>6
  <2>3. CASE b \notin BanksOf(s)
    BY <1>2, <1>14, <2>1, <2>3, BalanceTypes
  <2> QED BY <2>2, <2>3
<1>16. balance' \in [Banks -> Nat] /\ BanksWithin(s)
  <2>1. balance' = [b \in Banks |-> balance'[b]]
    BY DEF Void
  <2>2. balance' \in [Banks -> Nat]
    BY <1>15, <2>1
  <2> QED BY <1>15, <2>2 DEF BanksWithin
<1>17. ASSUME NEW d \in Docs PROVE Fitted(d)
  BY <1>1, <1>2, <1>8, <1>13, RowsWritten DEF Fitted
<1>18. IInv'
  BY <1>1, <1>8, <1>9, <1>11, <1>12, <1>13, <1>16, RowStep
<1> QED BY <1>1, <1>2, <1>17, <1>18, FittedIsFair DEF IInv

(* createTreasuryTransfer: the two rows point at each other.                *)
LEMMA TransferKeeps ==
    ASSUME SettlementAssumption, IInv, NEW s \in Sessions, Transfer(s)
    PROVE  IInv' /\ \A d \in Docs : Fair(d)
<1>1. Ready(s, "transfer") /\ Ends(s) /\ scene' = scene /\ cheque' = cheque /\ doc' = doc
  BY DEF Transfer
<1>2. /\ TypeOK /\ tx[s].op = "transfer" /\ Own(s) /\ balance[tx[s].bank] - Amount >= 0
      /\ \A b \in BanksOf(s) : tx[s].saw[b] = balance[b]
  BY <1>1, ReadyFacts DEF Claims
<1>3. PICK from \in Banks, to \in Banks : from = tx[s].bank /\ to = tx[s].to /\ from # to
  BY <1>2 DEF Own
<1>4. PICK vouchers \in SUBSET (Accounts \X Accounts) : vouchers = {<<Bank(to), Bank(from)>>}
  BY AccountTypes
<1>5. PICK p \in NextRow, r \in Unused :
          /\ r # p
          /\ row' = [row EXCEPT
                ![p] = [NoRow EXCEPT !.status = "completed", !.type = "payment", !.bank = from, !.pair = r, !.vouchers = vouchers],
                ![r] = [NoRow EXCEPT !.status = "completed", !.bank = to, !.pair = p]]
  BY <1>3, <1>4 DEF Transfer
<1>6. /\ p \in Rows /\ row[p].status = "none" /\ row[p].pair = 0 /\ p # 0
      /\ r \in Rows /\ row[r].status = "none" /\ row[r].pair = 0 /\ r # 0
  BY <1>5, NextRowFacts DEF NextRow
<1>7. PICK out : out = [NoRow EXCEPT !.status = "completed", !.type = "payment", !.bank = from, !.pair = r, !.vouchers = vouchers]
  OBVIOUS
<1>8. PICK in : in = [NoRow EXCEPT !.status = "completed", !.bank = to, !.pair = p]
  OBVIOUS
<1>9. IsRow(out, "payment", from, 0, r, NoParts, vouchers)
  <2>1. IsRow([NoRow EXCEPT !.status = "completed", !.type = "payment", !.bank = from, !.pair = r, !.vouchers = vouchers],
              "payment", from, 0, r, NoParts, vouchers)
    BY <1>6, 0 \in Docs \cup {0}, ConstantFacts, NewRows
  <2> QED BY <1>7, <2>1
<1>10. IsRow(in, "receipt", to, 0, p, NoParts, {})
  <2>1. IsRow([NoRow EXCEPT !.status = "completed", !.bank = to, !.pair = p], "receipt", to, 0, p, NoParts, {})
    BY <1>6, 0 \in Docs \cup {0}, ConstantFacts, NewRows
  <2> QED BY <1>8, <2>1
<1>11. row' = [row EXCEPT ![p] = out, ![r] = in]
  BY <1>5, <1>7, <1>8
<1>12. row \in [Rows -> RowRecords] /\ \A q \in Rows : RowInv(q) /\ q # 0
  BY <1>2, ConstantFacts DEF TypeOK, IInv, RecordsInv
<1>13. /\ row' \in [Rows -> RowRecords] /\ row'[p] = out /\ row'[r] = in
       /\ \A q \in Rows \ {p, r} : row'[q] = row[q]
  BY <1>5, <1>6, <1>9, <1>10, <1>11, <1>12 DEF IsRow
<1>14. RowsKept
  BY <1>6, <1>13 DEF RowsKept
<1>15. Total(NoParts) <= Amount
  BY ConstantFacts
<1>16. RowInv(p)' /\ RowInv(r)'
  <2>1. /\ out.status = "completed" /\ out.type = "payment" /\ out.bank = from /\ out.link = 0 /\ out.pair = r /\ out.parts = NoParts
        /\ in.status = "completed" /\ in.type = "receipt" /\ in.bank = to /\ in.link = 0 /\ in.pair = p /\ in.parts = NoParts
    BY <1>9, <1>10 DEF IsRow
  <2>2. /\ row'[p].status = "completed" /\ row'[p].type = "payment" /\ row'[p].bank = from /\ row'[p].link = 0
        /\ row'[p].pair = r /\ row'[p].parts = NoParts
        /\ row'[r].status = "completed" /\ row'[r].type = "receipt" /\ row'[r].bank = to /\ row'[r].link = 0
        /\ row'[r].pair = p /\ row'[r].parts = NoParts
    BY <1>13, <2>1
  <2>3. from \in Banks /\ to \in Banks /\ from # to /\ p # r /\ Total(NoParts) <= Amount
    BY <1>3, <1>5, <1>15
  <2>4. RowInv(p)'
    BY <2>2, <2>3 DEF RowInv
  <2>5. RowInv(r)'
    BY <2>2, <2>3 DEF RowInv
  <2> QED BY <2>4, <2>5
<1>17. ASSUME NEW q \in Rows \ {p, r} PROVE RowInv(q)'
  <2>1. RowInv(q) /\ row'[q] = row[q] /\ q # 0 /\ row[q] \in RowRecords
    BY <1>12, <1>13
  <2>2. row[q].pair # 0 => row[q].pair \in Rows \ {p, r}
    BY <1>6, <2>1 DEF RowInv, RowRecords
  <2>3. row[q].pair # 0 => row'[row[q].pair] = row[row[q].pair]
    BY <1>13, <2>2
  <2> QED BY <2>1, <2>3 DEF RowInv
<1>18. \A q \in Rows : RowInv(q)'
  BY <1>16, <1>17
<1>19. RowsWithin(s)
  BY <1>6, <1>13 DEF RowsWithin
<1>20. ASSUME NEW d \in Docs, NEW q \in Rows PROVE RowPart(row'[q], d) <= RowPart(row[q], d)
  <2>1. RowPart(row[q], d) \in Nat
    BY <1>12, RowPartOf
  <2>2. RowPart(out, d) = 0 /\ RowPart(in, d) = 0
    BY <1>9, <1>10, RowPartOf DEF IsRow
  <2> QED BY <1>13, <2>1, <2>2
<1>21. balance' = [balance EXCEPT ![from] = balance[from] + (0 - Amount), ![to] = balance[to] + Amount]
  <2>1. tx[s].saw[from] = balance[from] /\ tx[s].saw[to] = balance[to]
    BY <1>2, <1>3 DEF BanksOf
  <2> QED BY <1>3, <2>1 DEF Transfer, Moved
<1>22. PICK m \in Nat, n \in Nat : m = balance[from] + (0 - Amount) /\ n = balance[to] + Amount
  <2>1. balance[from] \in Nat /\ balance[to] \in Nat /\ Amount \in Nat
    BY <1>2, BalanceTypes
  <2> QED BY <1>2, <1>3, <2>1
<1>23. balance' \in [Banks -> Nat] /\ BanksWithin(s)
  <2>1. balance \in [Banks -> Nat]
    BY <1>2 DEF TypeOK
  <2>2. balance' = [balance EXCEPT ![from] = m, ![to] = n]
    BY <1>21, <1>22
  <2>3. from \in BanksOf(s) /\ to \in BanksOf(s)
    BY <1>2, <1>3 DEF BanksOf
  <2>4. balance' \in [Banks -> Nat] /\ \A b \in Banks : b # from /\ b # to => balance'[b] = balance[b]
    BY <2>1, <2>2
  <2> QED BY <2>3, <2>4 DEF BanksWithin
<1>24. ASSUME NEW d \in Docs PROVE Fitted(d)
  BY <1>1, <1>2, <1>13, <1>20, RowsWritten DEF Fitted
<1>25. IInv'
  BY <1>1, <1>13, <1>14, <1>18, <1>19, <1>20, <1>23, RowStep
<1> QED BY <1>1, <1>2, <1>24, <1>25, FittedIsFair DEF IInv

-----------------------------------------------------------------------------
(* Cheques.                                                                 *)

(* A step that writes one cheque, and perhaps one balance.                  *)
LEMMA ChequeStep ==
    ASSUME SettlementAssumption, IInv, NEW s \in Sessions, NEW op, Ready(s, op), Ends(s), scene' = scene,
           row' = row, doc' = doc, balance' \in [Banks -> Nat], BanksWithin(s),
           NEW c \in Cheques, NEW me \in ChequeRecords, cheque' = [cheque EXCEPT ![c] = me],
           c \in ChequesOf(s) \/ cheque[c].status = "none", me.status # "none", Total(me.parts) <= Amount,
           me.status = "passed" => me.bank \in Banks,
           cheque[c].status # "none" => me.type = cheque[c].type,
           cheque[c].type = "paid" /\ cheque[c].status # "none" /\ me.status # "passed" =>
               cheque[c].status # "passed" /\ me.bank = cheque[c].bank,
           \A d \in Docs \ DocsOf(s) : ChequePart(me, d) <= ChequePart(cheque[c], d)
    PROVE  IInv'
<1>1. TypeOK /\ \A e \in Cheques : ChequeInv(e)
  BY DEF IInv, RecordsInv
<1>2. cheque' \in [Cheques -> ChequeRecords] /\ cheque'[c] = me /\ \A e \in Cheques \ {c} : cheque'[e] = cheque[e]
  BY <1>1 DEF TypeOK
<1>3. RecordTypes'
  BY <1>2, OtherRecords DEF RecordTypes
<1>4. RecordsInv'
  <2>1. \A e \in Cheques : ChequeInv(e)'
    BY <1>1, <1>2 DEF ChequeInv
  <2> QED BY <2>1, OtherRecords DEF RecordsInv
<1>5. SettlesWithin(s)
  <2>1. SUFFICES ASSUME NEW d \in Docs, d \notin DocsOf(s) PROVE Settled(d)' <= Settled(d)
    BY DEF SettlesWithin
  <2>2. Settled(d)' = Settled(d) - ChequePart(cheque[c], d) + ChequePart(me, d)
    BY <1>1, ChequeWritten
  <2>3. ChequePart(me, d) <= ChequePart(cheque[c], d)
    BY <2>1
  <2>4. Settled(d) \in Int /\ ChequePart(me, d) \in Int /\ ChequePart(cheque[c], d) \in Int
    BY <1>1, SettledTypes, PartTypes DEF TypeOK
  <2> QED BY <2>2, <2>3, <2>4
<1>6. ChequesKept /\ ChequesWithin(s)
  BY <1>2 DEF ChequesKept, ChequesWithin
<1>7. Within(s)
  BY <1>5, <1>6, OtherRecords DEF Within
<1> QED BY <1>3, <1>4, <1>7, WriteStep

LEMMA ChequePartOf ==
    ASSUME SettlementAssumption, NEW d \in Docs
    PROVE  /\ \A me : me.parts[d] = 0 => ChequePart(me, d) = 0
           /\ \A me \in ChequeRecords : ChequePart(me, d) \in Nat
BY PartTypes DEF ChequePart

LEMMA ChequeKeeps ==
    ASSUME SettlementAssumption, IInv, NEW s \in Sessions, Cheque(s)
    PROVE  IInv' /\ \A d \in Docs : Fair(d)
<1>1. Ready(s, "cheque") /\ Ends(s) /\ scene' = scene /\ row' = row /\ doc' = doc /\ balance' = balance
  BY DEF Cheque
<1>2. TypeOK /\ tx[s].op = "cheque" /\ Own(s) /\ Claims(s)
  BY <1>1, ReadyFacts
<1>3. PICK type \in {"received", "paid"}, bank \in Banks \cup {0}, parts \in Parts :
          type = tx[s].want /\ bank = tx[s].bank /\ parts = tx[s].parts
  BY <1>2, SessionTypes DEF Own
<1>4. PICK status : status = IF type = "received" THEN "received" ELSE "in_treasury"
  OBVIOUS
<1>5. PICK vouchers : vouchers = IF type = "received" THEN {<<Hand, Party>>} ELSE {<<Party, Payable>>}
  OBVIOUS
<1>6. PICK me : me = [status |-> status, type |-> type, bank |-> bank, parts |-> parts, vouchers |-> vouchers]
  OBVIOUS
<1>7. /\ me \in ChequeRecords /\ me.status # "none" /\ me.status # "passed" /\ me.parts = parts
  <2>1. vouchers \in SUBSET (Accounts \X Accounts)
    BY <1>5, AccountTypes
  <2>2. status \in ChequeStatus \cup {"none", "deleted"} /\ status # "none" /\ status # "passed"
    BY <1>4 DEF ChequeStatus
  <2>3. me.status # "none" /\ me.status # "passed" /\ me.parts = parts
    BY <1>6, <2>2
  <2> HIDE DEF NoParts, Parts, Accounts, ChequeStatus
  <2>4. me \in ChequeRecords
    BY <1>3, <1>6, <2>1, <2>2 DEF ChequeRecords
  <2> QED BY <2>3, <2>4
<1>8. PICK c \in NextCheque : cheque' = [cheque EXCEPT ![c] = me]
  BY <1>3, <1>4, <1>5, <1>6 DEF Cheque
<1>9. c \in Cheques /\ cheque[c].status = "none"
  BY <1>8 DEF NextCheque
<1>10. Total(parts) <= Amount
  BY <1>2, <1>3 DEF Own
<1>11. ASSUME NEW d \in Docs \ DocsOf(s) PROVE ChequePart(me, d) <= ChequePart(cheque[c], d)
  <2>1. ~ (parts[d] > 0) /\ parts[d] \in Nat
    BY <1>2, <1>3, <1>11, SessionTypes DEF DocsOf, Chosen
  <2>2. me.parts[d] = 0
    BY <1>7, <2>1
  <2>3. ChequePart(me, d) = 0 /\ ChequePart(cheque[c], d) = 0
    BY <1>9, <2>2 DEF ChequePart
  <2> QED BY <2>3
<1>12. balance' \in [Banks -> Nat] /\ BanksWithin(s)
  BY <1>1, OtherRecords
<1>13. ASSUME NEW d \in Docs PROVE Fitted(d)
  <2>1. parts[d] \in Nat /\ 0 \in Nat
    BY <1>2, <1>3, SessionTypes
  <2>2. 0 <= ChequePart(cheque[c], d)
    <3>1. ChequePart(cheque[c], d) = 0
      BY <1>9 DEF ChequePart
    <3> QED BY <3>1
  <2>3. ChequePart(me, d) = 0 \/ ChequePart(me, d) = parts[d]
    BY <1>7 DEF ChequePart
  <2>4. parts[d] > 0 => Room(d, parts[d], 0)
    BY <1>2, <1>3 DEF Claims, Chosen
  <2>5. ChequePart(me, d) = 0 \/ Room(d, ChequePart(me, d), 0)
    BY <2>1, <2>3, <2>4
  <2> QED BY <1>1, <1>2, <1>7, <1>8, <1>9, <2>1, <2>2, <2>5, ChequeFits
<1>14. IInv'
  BY <1>1, <1>7, <1>8, <1>9, <1>10, <1>11, <1>12, ChequeStep
<1> QED BY <1>1, <1>2, <1>13, <1>14, FittedIsFair DEF IInv

LEMMA StepKeeps ==
    ASSUME SettlementAssumption, IInv, NEW s \in Sessions, Step(s)
    PROVE  IInv' /\ \A d \in Docs : Fair(d)
<1>1. Ready(s, "step") /\ Ends(s) /\ scene' = scene /\ row' = row /\ doc' = doc
  BY DEF Step
<1>2. TypeOK /\ tx[s].op = "step" /\ Own(s) /\ Claims(s)
  BY <1>1, ReadyFacts
<1>3. PICK c \in Cheques, want \in ChequeStatus, b \in Banks \cup {0} : c = tx[s].id /\ want = tx[s].want /\ b = tx[s].bank
  BY <1>2, SessionTypes DEF Own
<1>4. /\ cheque[c] \in ChequeRecords /\ ChequeInv(c) /\ cheque[c].status # "none" /\ want \in chequeNextStatuses(c)
      /\ want = "passed" => b \in Banks /\ balance[b] + Clears(c) >= 0
  BY <1>2, <1>3 DEF Own, Claims, TypeOK, IInv, RecordsInv
<1>5. PICK bank \in NextBanks(c, want, b) :
          cheque' = [cheque EXCEPT ![c].status = want, ![c].bank = bank, ![c].vouchers = @ \cup StepVouchers(c, want, b)]
  BY <1>3 DEF Step
<1>6. bank \in Banks \cup {0} /\ (want = "passed" => bank \in Banks)
  BY <1>3, <1>4, ConstantFacts DEF NextBanks, ChequeRecords
<1>7. StepVouchers(c, want, b) \in SUBSET (Accounts \X Accounts)
  <2>1. PICK from \in Accounts : from = IF cheque[c].status = "in_collection" THEN Collection ELSE Hand
    BY AccountTypes
  <2>2. want = "passed" => Bank(b) \in Accounts
    BY <1>4, AccountTypes
  <2>3. /\ Hand \in Accounts /\ Collection \in Accounts /\ Payable \in Accounts /\ Protest \in Accounts
        /\ Party \in Accounts /\ Creditors \in Accounts
        /\ \A x, y \in Accounts : {<<x, y>>} \in SUBSET (Accounts \X Accounts)
        /\ {} \in SUBSET (Accounts \X Accounts)
    BY AccountTypes
  <2> HIDE DEF Hand, Collection, Payable, Protest, Party, Creditors, Accounts, Bank
  <2> QED BY <2>1, <2>2, <2>3 DEF StepVouchers
<1>8. PICK more \in SUBSET (Accounts \X Accounts) : more = StepVouchers(c, want, b)
  BY <1>7
<1>9. PICK me : me = [cheque[c] EXCEPT !.status = want, !.bank = bank, !.vouchers = @ \cup more]
  OBVIOUS
<1>10. cheque' = [cheque EXCEPT ![c] = me]
  BY <1>2, <1>5, <1>8, <1>9 DEF TypeOK
<1>11. me \in ChequeRecords /\ me.status = want /\ me.bank = bank /\ me.parts = cheque[c].parts /\ me.type = cheque[c].type
  <2> HIDE DEF NoParts, Parts, Accounts, ChequeStatus
  <2> QED BY <1>3, <1>4, <1>6, <1>9 DEF ChequeRecords
<1>12. /\ me.status # "none" /\ Total(me.parts) <= Amount /\ c \in ChequesOf(s)
  BY <1>2, <1>3, <1>4, <1>11 DEF ChequeStatus, ChequeInv, ChequesOf
<1>13. ~ (cheque[c].status \in {"deleted", "returned", "passed", "spent"})
       /\ (cheque[c].status = "bounced" => want = "returned")
  BY <1>4 DEF chequeNextStatuses
<1>14. ASSUME NEW d \in Docs PROVE ChequePart(me, d) <= ChequePart(cheque[c], d)
  <2>1. ChequePart(me, d) \in Nat /\ ChequePart(cheque[c], d) \in Nat
    BY <1>4, <1>11, ChequePartOf
  <2>2. CASE cheque[c].status = "bounced"
    <3>1. ChequePart(me, d) = 0
      BY <1>11, <1>13, <2>2 DEF ChequePart
    <3> QED BY <2>1, <3>1
  <2>3. CASE cheque[c].status # "bounced"
    <3>1. ChequePart(cheque[c], d) = me.parts[d]
      BY <1>4, <1>11, <1>13, <2>3 DEF ChequePart
    <3>2. ChequePart(me, d) = 0 \/ ChequePart(me, d) = me.parts[d]
      BY DEF ChequePart
    <3> QED BY <2>1, <3>1, <3>2
  <2> QED BY <2>2, <2>3
<1>15. balance' \in [Banks -> Nat] /\ BanksWithin(s)
  <2>1. CASE want = "passed"
    <3>1. PICK delta \in Int : delta = Clears(c)
      BY BalanceTypes, <1>2 DEF Clears
    <3>2. b \in BanksOf(s) /\ writeBankBalance(s, b, delta)
      BY <1>2, <1>3, <2>1, <3>1 DEF BanksOf, Step
    <3> QED BY <1>1, <1>4, <2>1, <3>1, <3>2, BalanceWritten
  <2>2. CASE want # "passed"
    <3>1. balance' = balance
      BY <1>3, <2>2 DEF Step
    <3> QED BY <3>1, OtherRecords
  <2> QED BY <2>1, <2>2
<1>16. ASSUME NEW d \in Docs PROVE Fitted(d)
  <2>1. Settled(d)' = Settled(d) - ChequePart(cheque[c], d) + ChequePart(me, d)
    BY <1>1, <1>2, <1>10, <1>11, ChequeWritten
  <2>2. Settled(d) \in Int /\ ChequePart(me, d) \in Int /\ ChequePart(cheque[c], d) \in Int
    BY <1>2, <1>4, <1>11, SettledTypes, PartTypes
  <2> QED BY <1>14, <2>1, <2>2 DEF Fitted
<1>18. cheque[c].type = "paid" /\ want # "passed" => cheque[c].status # "passed" /\ me.bank = cheque[c].bank
  <2>1. cheque[c].type = "paid" => want # "in_collection"
    BY <1>4 DEF chequeNextStatuses
  <2>2. want \notin {"passed", "in_collection"} => b = 0
    BY <1>2, <1>3 DEF Own
  <2> QED BY <1>5, <1>11, <1>13, <2>1, <2>2 DEF NextBanks
<1>17. IInv'
  BY <1>1, <1>6, <1>10, <1>11, <1>12, <1>14, <1>15, <1>18, ChequeStep
<1> QED BY <1>1, <1>2, <1>16, <1>17, FittedIsFair DEF IInv

LEMMA ReplaceChequeKeeps ==
    ASSUME SettlementAssumption, IInv, NEW s \in Sessions, ReplaceCheque(s)
    PROVE  IInv' /\ \A d \in Docs : Fair(d)
<1>1. Ready(s, "replaceCheque") /\ Ends(s) /\ scene' = scene /\ row' = row /\ doc' = doc /\ balance' = balance
  BY DEF ReplaceCheque
<1>2. TypeOK /\ tx[s].op = "replaceCheque" /\ Own(s) /\ Claims(s)
  BY <1>1, ReadyFacts
<1>3. PICK c \in Cheques, parts \in Parts : c = tx[s].id /\ parts = tx[s].parts
  BY <1>2, SessionTypes DEF Own
<1>4. /\ cheque[c] \in ChequeRecords /\ ChequeInv(c) /\ cheque[c].status # "none" /\ Total(parts) <= Amount
      /\ cheque[c].type = "received"
  BY <1>2, <1>3 DEF Own, TypeOK, IInv, RecordsInv
<1>5. PICK me : me = [cheque[c] EXCEPT !.parts = parts]
  OBVIOUS
<1>6. cheque' = [cheque EXCEPT ![c] = me]
  BY <1>2, <1>3, <1>5 DEF ReplaceCheque, TypeOK
<1>7. me \in ChequeRecords /\ me.status = cheque[c].status /\ me.bank = cheque[c].bank /\ me.parts = parts /\ me.type = cheque[c].type
  <2> HIDE DEF NoParts, Parts, Accounts, ChequeStatus
  <2> QED BY <1>4, <1>5 DEF ChequeRecords
<1>8. c \in ChequesOf(s) /\ (me.status = "passed" => me.bank \in Banks)
  BY <1>2, <1>3, <1>4, <1>7 DEF ChequesOf, ChequeInv
<1>9. ASSUME NEW d \in Docs \ DocsOf(s) PROVE ChequePart(me, d) <= ChequePart(cheque[c], d)
  <2>1. ~ (parts[d] > 0) /\ parts[d] \in Nat
    BY <1>2, <1>3, <1>9, SessionTypes DEF DocsOf, Chosen
  <2>2. me.parts[d] = 0
    BY <1>7, <2>1
  <2>3. ChequePart(me, d) = 0
    BY <2>2 DEF ChequePart
  <2>4. ChequePart(cheque[c], d) \in Nat
    BY <1>4, ChequePartOf
  <2> QED BY <2>3, <2>4
<1>10. balance' \in [Banks -> Nat] /\ BanksWithin(s)
  BY <1>1, OtherRecords
<1>11. ASSUME NEW d \in Docs PROVE Fitted(d)
  <2>1. parts[d] \in Nat
    BY <1>2, <1>3, SessionTypes
  <2>2. ChequePart(cheque[c], d) \in Nat /\ ChequeShare(c, d) = ChequePart(cheque[c], d)
    BY <1>4, ChequePartOf, SettledIsIn
  <2>3. ChequePart(me, d) = 0 \/ ChequePart(me, d) = parts[d]
    BY <1>7 DEF ChequePart
  <2>4. parts[d] > 0 => Room(d, parts[d], ChequePart(cheque[c], d))
    BY <1>2, <1>3, <2>2 DEF Claims, Chosen
  <2>5. ChequePart(me, d) = 0 \/ Room(d, ChequePart(me, d), ChequePart(cheque[c], d))
    BY <2>1, <2>3, <2>4
  <2>6. ChequePart(cheque[c], d) <= ChequePart(cheque[c], d)
    BY <2>2
  <2> QED BY <1>1, <1>2, <1>6, <1>7, <2>2, <2>5, <2>6, ChequeFits
<1>12. IInv'
  BY <1>1, <1>4, <1>6, <1>7, <1>8, <1>9, <1>10, ChequeStep
<1> QED BY <1>1, <1>2, <1>11, <1>12, FittedIsFair DEF IInv

LEMMA DeleteChequeKeeps ==
    ASSUME SettlementAssumption, IInv, NEW s \in Sessions, DeleteCheque(s)
    PROVE  IInv' /\ \A d \in Docs : Fair(d)
<1>1. Ready(s, "deleteCheque") /\ Ends(s) /\ scene' = scene /\ row' = row /\ doc' = doc /\ balance' = balance
  BY DEF DeleteCheque
<1>2. TypeOK /\ tx[s].op = "deleteCheque" /\ Own(s) /\ Claims(s)
  BY <1>1, ReadyFacts
<1>3. PICK c \in Cheques : c = tx[s].id
  BY <1>2 DEF Own
<1>4. /\ cheque[c] \in ChequeRecords /\ ChequeInv(c) /\ cheque[c].status # "passed"
  BY <1>2, <1>3 DEF Claims, TypeOK, IInv, RecordsInv
<1>5. PICK me : me = [cheque[c] EXCEPT !.status = "deleted", !.vouchers = {}]
  OBVIOUS
<1>6. cheque' = [cheque EXCEPT ![c] = me]
  BY <1>2, <1>3, <1>5 DEF DeleteCheque, TypeOK
<1>7. me \in ChequeRecords /\ me.status = "deleted" /\ me.parts = cheque[c].parts /\ me.type = cheque[c].type
      /\ me.bank = cheque[c].bank
  <2> HIDE DEF NoParts, Parts, Accounts, ChequeStatus
  <2> QED BY <1>4, <1>5, AccountTypes DEF ChequeRecords
<1>8. c \in ChequesOf(s) /\ Total(me.parts) <= Amount
  BY <1>2, <1>3, <1>4, <1>7 DEF ChequesOf, ChequeInv
<1>9. ASSUME NEW d \in Docs PROVE ChequePart(me, d) <= ChequePart(cheque[c], d)
  <2>1. ChequePart(me, d) = 0
    BY <1>7 DEF ChequePart
  <2>2. ChequePart(cheque[c], d) \in Nat
    BY <1>4, ChequePartOf
  <2> QED BY <2>1, <2>2
<1>10. balance' \in [Banks -> Nat] /\ BanksWithin(s)
  BY <1>1, OtherRecords
<1>11. ASSUME NEW d \in Docs PROVE Fitted(d)
  <2>1. ChequePart(me, d) = 0
    BY <1>7 DEF ChequePart
  <2>2. 0 \in Nat /\ 0 <= ChequePart(cheque[c], d)
    BY <1>9, <2>1
  <2>3. me \in ChequeRecords /\ TypeOK /\ row' = row
    BY <1>1, <1>2, <1>7
  <2> QED BY <1>6, <2>1, <2>2, <2>3, ChequeFits
<1>12. IInv'
  BY <1>1, <1>4, <1>6, <1>7, <1>8, <1>9, <1>10, ChequeStep
<1> QED BY <1>1, <1>2, <1>11, <1>12, FittedIsFair DEF IInv

-----------------------------------------------------------------------------
(* Documents.                                                               *)

LEMMA NothingMoved ==
    ASSUME row' = row, cheque' = cheque, NEW d
    PROVE  Settled(d)' = Settled(d)
BY DEF Settled, SettledByRows, SettledByCheques, RowShare, LinkShare, Live, ChequeShare, Lapsed

(* A step of a document writes that document only.                          *)
LEMMA DocumentStep ==
    ASSUME SettlementAssumption, IInv, NEW s \in Sessions, NEW op \in DocumentOps, Ready(s, op), Ends(s), scene' = scene,
           row' = row, cheque' = cheque, balance' = balance, NEW me \in DocRecords,
           doc' = [doc EXCEPT ![tx[s].doc] = me], me.returned > 0 => me.status = "final",
           \/ me.returned > doc[tx[s].doc].returned
           \/ Settled(tx[s].doc) + me.returned <= (IF me.status = "void" THEN 0 ELSE me.payable)
    PROVE  IInv' /\ \A d \in Docs : Fair(d)
<1>1. TypeOK /\ tx[s].op = op /\ Own(s)
  BY ReadyFacts
<1>2. PICK d \in Docs : d = tx[s].doc
  BY <1>1 DEF Own, IssuedFrom
<1>3. doc' \in [Docs -> DocRecords] /\ doc'[d] = me /\ \A e \in Docs \ {d} : doc'[e] = doc[e]
  BY <1>1, <1>2 DEF TypeOK
<1>4. RecordTypes'
  BY <1>3, OtherRecords DEF RecordTypes
<1>5. RecordsInv'
  <2>1. \A e \in Docs : DocInv(e)'
    BY <1>3 DEF DocInv, IInv, RecordsInv
  <2> QED BY <2>1, OtherRecords DEF RecordsInv
<1>6. DocsWithin(s)
  BY <1>1, <1>2, <1>3 DEF DocsWithin, DocsWritten
<1>7. SettlesWithin(s)
  <2>1. \A e \in Docs : Settled(e)' = Settled(e) /\ Settled(e) \in Int
    BY <1>1, NothingMoved, SettledTypes
  <2> QED BY <2>1 DEF SettlesWithin
<1>8. Within(s)
  BY <1>6, <1>7, OtherRecords DEF Within
<1>9. IInv'
  BY <1>4, <1>5, <1>8, WriteStep
<1>10. ASSUME NEW e \in Docs PROVE Fair(e)
  <2>1. Settled(e)' = Settled(e) /\ Settled(e) \in Int /\ doc[e].returned \in Int /\ doc[e].payable \in Int
    BY <1>1, NothingMoved, SettledTypes
  <2>2. CASE e = d
    <3>1. doc'[e].returned > doc[e].returned \/ Settled(e)' + doc'[e].returned <= Worth(e)'
      BY <1>2, <1>3, <2>1, <2>2 DEF Worth
    <3> QED BY <1>1, <1>9, <3>1, FairStep DEF IInv
  <2>3. CASE e # d
    <3>1. doc'[e] = doc[e]
      BY <1>3, <2>3
    <3>2. Settled(e)' + doc'[e].returned - Worth(e)' <= Settled(e) + doc[e].returned - Worth(e)
      BY <2>1, <3>1 DEF Worth
    <3> QED BY <1>1, <1>9, <3>2, FairStep DEF IInv
  <2> QED BY <2>2, <2>3
<1> QED BY <1>9, <1>10

LEMMA RewriteKeeps ==
    ASSUME SettlementAssumption, IInv, NEW s \in Sessions, Rewrite(s)
    PROVE  IInv' /\ \A d \in Docs : Fair(d)
<1>1. PICK op \in {"edit", "finalize"} : Ready(s, op)
  BY DEF Rewrite
<1>2. TypeOK /\ tx[s].op = op /\ Own(s) /\ Claims(s) /\ op \in DocumentOps
  BY <1>1, ReadyFacts DEF DocumentOps
<1>3. PICK d \in Docs, want \in {"draft", "proforma", "final"}, payable \in 1..MaxPayable :
          d = tx[s].doc /\ want = tx[s].want /\ payable = tx[s].payable
  BY <1>1, <1>2 DEF Own
<1>4. doc[d] \in DocRecords /\ doc[d].status \in {"draft", "proforma"} /\ DocInv(d)
  BY <1>1, <1>2, <1>3 DEF Claims, TypeOK, IInv, RecordsInv
<1>5. PICK me : me = [doc[d] EXCEPT !.status = want, !.payable = payable]
  OBVIOUS
<1>6. doc' = [doc EXCEPT ![tx[s].doc] = me]
  BY <1>2, <1>3, <1>5 DEF Rewrite, TypeOK
<1>7. me \in DocRecords /\ me.returned = doc[d].returned
  BY <1>3, <1>4, <1>5 DEF DocRecords
<1>8. ~ (me.returned > 0)
  BY <1>4, <1>7 DEF DocInv
<1>9. Settled(tx[s].doc) + me.returned <= (IF me.status = "void" THEN 0 ELSE me.payable)
  <2>1. Settled(d) \in Nat /\ doc[d].returned \in Nat
    BY <1>2, <1>4, SettledTypes DEF DocRecords
  <2>2. me.returned = 0 /\ doc[d].returned = 0
    BY <1>7, <1>8, <2>1
  <2>3. me.status # "void" /\ me.payable = payable /\ payable \in Nat
    BY <1>3, <1>4, <1>5 DEF DocRecords
  <2>4. Covers(d, payable)
    BY <1>1, <1>2, <1>3 DEF Claims
  <2> QED BY <1>3, <2>1, <2>2, <2>3, <2>4 DEF Covers
<1>10. Ends(s) /\ scene' = scene /\ row' = row /\ cheque' = cheque /\ balance' = balance
  BY DEF Rewrite
<1> QED BY <1>1, <1>2, <1>6, <1>7, <1>8, <1>9, <1>10, DocumentStep

LEMMA ReturnKeeps ==
    ASSUME SettlementAssumption, IInv, NEW s \in Sessions, Return(s)
    PROVE  IInv' /\ \A d \in Docs : Fair(d)
<1>1. Ready(s, "return") /\ "return" \in DocumentOps
  BY DEF Return, DocumentOps
<1>2. TypeOK /\ tx[s].op = "return" /\ Own(s) /\ Claims(s)
  BY <1>1, ReadyFacts
<1>3. PICK d \in Docs : d = tx[s].doc
  BY <1>1, <1>2 DEF Own
<1>4. doc[d] \in DocRecords /\ doc[d].status = "final" /\ doc[d].returned < doc[d].payable
  BY <1>2, <1>3 DEF Claims, TypeOK
<1>5. doc[d].returned + 1 \in 0..MaxPayable
  BY <1>4 DEF DocRecords, SettlementAssumption
<1>6. PICK n \in 0..MaxPayable : n = doc[d].returned + 1
  BY <1>5
<1>7. PICK me : me = [doc[d] EXCEPT !.returned = n]
  OBVIOUS
<1>8. doc' = [doc EXCEPT ![tx[s].doc] = me]
  BY <1>2, <1>3, <1>6, <1>7 DEF Return, TypeOK
<1>9. me \in DocRecords /\ me.status = "final" /\ me.returned > doc[d].returned
  BY <1>4, <1>6, <1>7 DEF DocRecords
<1>10. Ends(s) /\ scene' = scene /\ row' = row /\ cheque' = cheque /\ balance' = balance
  BY DEF Return
<1> QED BY <1>1, <1>3, <1>8, <1>9, <1>10, DocumentStep

LEMMA VoidDocumentKeeps ==
    ASSUME SettlementAssumption, IInv, NEW s \in Sessions, VoidDocument(s)
    PROVE  IInv' /\ \A d \in Docs : Fair(d)
<1>1. Ready(s, "voidDocument") /\ "voidDocument" \in DocumentOps
  BY DEF VoidDocument, DocumentOps
<1>2. TypeOK /\ tx[s].op = "voidDocument" /\ Own(s) /\ Claims(s)
  BY <1>1, ReadyFacts
<1>3. PICK d \in Docs : d = tx[s].doc
  BY <1>1, <1>2 DEF Own
<1>4. doc[d] \in DocRecords /\ doc[d].returned = 0
  BY <1>2, <1>3 DEF Claims, TypeOK
<1>5. PICK me : me = [doc[d] EXCEPT !.status = "void"]
  OBVIOUS
<1>6. doc' = [doc EXCEPT ![tx[s].doc] = me]
  BY <1>2, <1>3, <1>5 DEF VoidDocument, TypeOK
<1>7. me \in DocRecords /\ (me.returned > 0 => me.status = "final")
  BY <1>4, <1>5 DEF DocRecords
<1>8. Ends(s) /\ scene' = scene /\ row' = row /\ cheque' = cheque /\ balance' = balance
  BY DEF VoidDocument
<1>9. Settled(tx[s].doc) + me.returned <= (IF me.status = "void" THEN 0 ELSE me.payable)
  <2>1. Settled(d) = 0
    BY <1>2, <1>3 DEF Claims
  <2>2. me.status = "void" /\ me.returned = 0
    BY <1>4, <1>5 DEF DocRecords
  <2> QED BY <1>3, <2>1, <2>2
<1> QED BY <1>1, <1>6, <1>7, <1>8, <1>9, DocumentStep

(* The void of a return takes no lock of the invoice, and gives it room.    *)
LEMMA VoidReturnKeeps ==
    ASSUME SettlementAssumption, IInv, NEW d \in scene.docs, VoidReturn(d)
    PROVE  IInv' /\ \A e \in Docs : Fair(e)
<1>1. /\ TypeOK /\ d \in Docs /\ scene' = scene /\ balance' = balance /\ row' = row /\ cheque' = cheque /\ tx' = tx
      /\ doc[d].returned > 0
  BY SceneTypes DEF IInv, VoidReturn
<1>2. doc[d] \in DocRecords /\ DocInv(d)
  BY <1>1 DEF TypeOK, IInv, RecordsInv
<1>3. PICK n \in 0..MaxPayable : n = doc[d].returned - 1
  BY <1>1, <1>2 DEF DocRecords, SettlementAssumption
<1>4. PICK me : me = [doc[d] EXCEPT !.returned = n]
  OBVIOUS
<1>5. me \in DocRecords /\ me.status = doc[d].status /\ me.payable = doc[d].payable /\ me.returned = n
  BY <1>2, <1>3, <1>4 DEF DocRecords
<1>6. doc' \in [Docs -> DocRecords] /\ doc'[d] = me /\ \A e \in Docs \ {d} : doc'[e] = doc[e]
  BY <1>1, <1>3, <1>4, <1>5 DEF TypeOK, VoidReturn
<1>7. TypeOK'
  BY <1>1, <1>6 DEF TypeOK
<1>8. RecordsInv'
  <2>1. \A e \in Docs : DocInv(e)'
    BY <1>1, <1>2, <1>5, <1>6 DEF DocInv, IInv, RecordsInv
  <2> QED BY <1>1, <2>1, OtherRecords DEF RecordsInv
<1>9. \A e \in Docs : /\ Settled(e)' = Settled(e) /\ Settled(e) \in Int
                      /\ doc'[e].status = doc[e].status /\ doc'[e].payable = doc[e].payable
                      /\ doc'[e].returned <= doc[e].returned
                      /\ doc[e].returned \in Int /\ doc'[e].returned \in Int /\ doc[e].payable \in Int
                      /\ doc'[e].returned >= 0
                      /\ doc[e].returned = 0 => doc'[e].returned = 0
  <2>1. ASSUME NEW e \in Docs
        PROVE  /\ Settled(e)' = Settled(e) /\ Settled(e) \in Int
               /\ doc[e].returned \in Int /\ doc[e].payable \in Int /\ doc[e].returned >= 0
    BY <1>1, NothingMoved, SettledTypes
  <2>2. n \in Int /\ n >= 0 /\ n <= doc[d].returned
    BY <1>1, <1>3, <2>1
  <2>3. ASSUME NEW e \in Docs
        PROVE  /\ doc'[e].status = doc[e].status /\ doc'[e].payable = doc[e].payable
               /\ doc'[e].returned <= doc[e].returned /\ doc'[e].returned \in Int /\ doc'[e].returned >= 0
               /\ doc[e].returned = 0 => doc'[e].returned = 0
    <3>1. CASE e = d
      BY <1>1, <1>5, <1>6, <2>2, <3>1
    <3>2. CASE e # d
      BY <1>6, <2>1, <3>2
    <3> QED BY <3>1, <3>2
  <2> QED BY <2>1, <2>3
<1>10. ASSUME NEW u \in Sessions PROVE Keeps(u)' /\ Own(u)' /\ Facts(u)'
  <2>1. Keeps(u) /\ Own(u) /\ Facts(u) /\ tx'[u] = tx[u] /\ RowsKept /\ ChequesKept
    BY <1>1, OtherRecords DEF IInv, SessionInv
  <2>2. Keeps(u)' /\ Own(u)' /\ BanksOf(u)' = BanksOf(u)
    BY <2>1, OthersKeepWork
  <2>3. ASSUME NEW e \in Docs
        PROVE  /\ \A amount, kept \in Int : Room(e, amount, kept) => Room(e, amount, kept)'
               /\ \A payable \in Int : Covers(e, payable) => Covers(e, payable)'
    <3>1. /\ Settled(e)' = Settled(e) /\ Settled(e) \in Int
          /\ doc'[e].status = doc[e].status /\ doc'[e].payable = doc[e].payable
          /\ doc'[e].returned <= doc[e].returned
          /\ doc[e].returned \in Int /\ doc'[e].returned \in Int /\ doc[e].payable \in Int
      BY <1>9
    <3>2. \A amount, kept \in Int : Room(e, amount, kept) => Room(e, amount, kept)'
      BY <3>1 DEF Room
    <3>3. \A payable \in Int : Covers(e, payable) => Covers(e, payable)'
      BY <3>1 DEF Covers
    <3> QED BY <3>2, <3>3
  <2>4. Claims(u) => Claims(u)'
    <3>1. ASSUME NEW e \in Docs PROVE Eased(e)
      <4>1. /\ Settled(e)' = Settled(e) /\ Settled(e) \in Int
            /\ doc'[e].status = doc[e].status /\ doc'[e].payable = doc[e].payable
            /\ doc'[e].returned <= doc[e].returned
            /\ doc[e].returned \in Int /\ doc'[e].returned \in Int /\ doc[e].payable \in Int
            /\ doc'[e].returned >= 0
            /\ doc[e].returned = 0 => doc'[e].returned = 0
        BY <1>9
      <4>2. doc[e].returned < doc[e].payable => doc'[e].returned < doc'[e].payable
        BY <4>1
      <4> QED BY <4>1, <4>2, <2>3 DEF Eased
    <3>2. DocsOf(u) \in SUBSET Docs
      BY WorkSets
    <3>3. /\ \A b \in BanksOf(u) : balance'[b] = balance[b]
          /\ \A r \in RowsOf(u) : row'[r] = row[r]
          /\ \A c \in ChequesOf(u) : cheque'[c] = cheque[c]
      BY <1>1
    <3> QED BY <2>1, <3>1, <3>2, <3>3, ClaimsKept
  <2>5. Facts(u)'
    BY <1>1, <2>1, <2>2, <2>4 DEF Facts
  <2> QED BY <2>2, <2>5
<1>11. SessionInv'
  BY <1>10 DEF SessionInv
<1>12. Apart'
  BY <1>1 DEF IInv, Apart, Conflict
<1>13. ASSUME NEW e \in Docs PROVE Fair(e)
  <2>1. Worth(e)' = Worth(e) /\ Worth(e) \in Int
    BY <1>9 DEF Worth
  <2>2. Settled(e)' + doc'[e].returned - Worth(e)' <= Settled(e) + doc[e].returned - Worth(e)
    BY <1>9, <2>1
  <2> QED BY <1>1, <1>7, <2>2, FairStep
<1> QED BY <1>7, <1>8, <1>11, <1>12, <1>13 DEF IInv

-----------------------------------------------------------------------------
(* Every step.                                                              *)

LEMMA WriteKeeps ==
    ASSUME SettlementAssumption, IInv, NEW s \in Sessions, Write(s)
    PROVE  IInv' /\ \A d \in Docs : Fair(d)
BY ReceiptKeeps, PaymentKeeps, TransferKeeps, VoidKeeps, RelinkKeeps, ReplaceKeeps, ChequeKeeps, StepKeeps,
   ReplaceChequeKeeps, DeleteChequeKeeps, RewriteKeeps, ReturnKeeps, VoidDocumentKeeps DEF Write

LEMMA StutterKeeps ==
    ASSUME IInv, UNCHANGED vars
    PROVE  IInv'
<1>1. UNCHANGED data /\ scene' = scene /\ tx' = tx /\ balance' = balance /\ row' = row /\ cheque' = cheque /\ doc' = doc
  BY DEF vars, data
<1>2. TypeOK'
  BY <1>1 DEF IInv, TypeOK
<1>3. RecordsInv'
  BY <1>1, OtherRecords DEF RecordsInv
<1>4. SessionInv'
  BY <1>1, Unmoved DEF IInv, SessionInv
<1>5. Apart'
  BY <1>1 DEF IInv, Apart, Conflict
<1> QED BY <1>2, <1>3, <1>4, <1>5 DEF IInv

LEMMA StillIsFair ==
    ASSUME SettlementAssumption, IInv, IInv', UNCHANGED data, NEW d \in Docs
    PROVE  Fair(d)
<1>1. row' = row /\ cheque' = cheque /\ doc' = doc
  BY DEF data
<1>2. Settled(d)' = Settled(d) /\ Settled(d) \in Int
  BY <1>1, NothingMoved, SettledTypes DEF IInv
<1>3. Fitted(d)
  BY <1>2 DEF Fitted
<1> QED BY <1>1, <1>3, FittedIsFair DEF IInv

LEMMA OnlyWritesWrite ==
    ASSUME NEW s \in Sessions, Begin(s) \/ Lock(s) \/ Check(s) \/ RollBack(s)
    PROVE  UNCHANGED data
<1>1. Begin(s) => UNCHANGED data
  BY DEF Begin, BeginReceipt, BeginPayment, BeginTransfer, BeginVoid, BeginRelink, BeginReplace, BeginCheque,
     BeginStep, BeginReplaceCheque, BeginDeleteCheque, BeginDocument, Begins
<1>2. Check(s) => UNCHANGED data
  BY DEF Check, CheckReceipt, CheckPayment, CheckTransfer, CheckVoid, CheckRelink, CheckReplace, CheckCheque,
     CheckStep, CheckReplaceCheque, CheckDeleteCheque, CheckEdit, CheckFinalize, CheckReturn, CheckVoidDocument, Passes
<1> QED BY <1>1, <1>2 DEF Lock, RollBack

LEMMA NextKeeps ==
    ASSUME SettlementAssumption, IInv, [Next]_vars
    PROVE  IInv' /\ \A d \in Docs : Fair(d)
<1>1. ASSUME NEW s \in Sessions, Begin(s) \/ Lock(s) \/ Check(s) \/ RollBack(s)
      PROVE  IInv' /\ UNCHANGED data
  BY <1>1, OnlyWritesWrite, BeginKeeps, LockKeeps, CheckKeeps, RollBackKeeps
<1>5. CASE UNCHANGED vars
  <2>1. IInv' /\ UNCHANGED data
    BY <1>5, StutterKeeps DEF vars
  <2> QED BY <2>1, StillIsFair
<1>6. ASSUME NEW s \in Sessions, Begin(s) \/ Lock(s) \/ Check(s) \/ RollBack(s)
      PROVE  IInv' /\ \A d \in Docs : Fair(d)
  BY <1>1, <1>6, StillIsFair
<1>7. ASSUME NEW s \in Sessions, Write(s) PROVE IInv' /\ \A d \in Docs : Fair(d)
  BY <1>7, WriteKeeps
<1>8. ASSUME NEW d \in scene.docs, VoidReturn(d) PROVE IInv' /\ \A e \in Docs : Fair(e)
  BY <1>8, VoidReturnKeeps
<1> QED BY <1>5, <1>6, <1>7, <1>8 DEF Next

-----------------------------------------------------------------------------
(* A source settles at most its amount. *)

LEMMA SourcesWithin ==
    ASSUME SettlementAssumption, TypeOK, RecordsInv
    PROVE  SourceWithinAmount
<1>1. IsFiniteSet(Docs) /\ Amount \in Nat /\ 0 \notin Docs /\ Total(NoParts) = 0
  BY NothingSettles, ConstantFacts DEF SettlementAssumption
<1>2. ASSUME NEW r \in Rows PROVE SumFunctionOnSet([d \in Docs |-> RowShare(r, d)], Docs) <= Amount
  <2>1. RowInv(r) /\ row[r] \in RowRecords /\ row[r].parts \in Parts
    BY DEF TypeOK, RecordsInv, RowRecords
  <2>2. PICK F : F = [d \in Docs |-> RowShare(r, d)]
    OBVIOUS
  <2>3. PICK link, parts : link = row[r].link /\ parts = row[r].parts
    OBVIOUS
  <2>4. parts \in [Docs -> 0..Amount] /\ (link = 0 \/ parts = NoParts) /\ Total(parts) <= Amount
    BY <2>1, <2>3 DEF RowInv, Parts
  <2>5. CASE ~ Live(r)
    <3>1. \A d \in Docs : F[d] = NoParts[d]
      BY <2>2, <2>5 DEF RowShare, NoParts
    <3>2. SumFunctionOnSet(F, Docs) = Total(NoParts)
      BY <1>1, <3>1, SumSame DEF Total
    <3> QED BY <1>1, <2>2, <3>2
  <2>6. CASE Live(r) /\ link = 0
    <3>1. \A d \in Docs : F[d] = parts[d]
      BY <1>1, <2>2, <2>3, <2>4, <2>6 DEF RowShare, LinkShare
    <3>2. SumFunctionOnSet(F, Docs) = Total(parts)
      BY <1>1, <3>1, SumSame DEF Total
    <3> QED BY <2>2, <2>4, <3>2
  <2>7. CASE Live(r) /\ link # 0
    <3>1. link \in Docs /\ parts = NoParts
      BY <2>1, <2>3, <2>4, <2>7 DEF RowRecords
    <3>2. \A d \in Docs : F[d] = IF d = link THEN Amount ELSE 0
      BY <1>1, <2>2, <2>3, <2>7, <3>1 DEF RowShare, LinkShare, NoParts
    <3>3. \A d \in Docs : F[d] \in Int
      BY <1>1, <3>2
    <3>4. SumFunctionOnSet(F, Docs) = F[link] + SumFunctionOnSet(F, Docs \ {link})
      BY <1>1, <3>1, <3>3, SumOfOne
    <3>5. SumFunctionOnSet(F, Docs \ {link}) = 0
      <4>1. PICK others : others = Docs \ {link}
        OBVIOUS
      <4>2. IsFiniteSet(others)
        BY <1>1, <4>1, FS_Subset
      <4>3. (\A d \in others : F[d] \in Int) /\ \A d \in others \ {} : F[d] = 0
        BY <3>2, <4>1
      <4>4. PICK none \in SUBSET others : none = {}
        OBVIOUS
      <4>5. SumFunctionOnSet(F, others) = SumFunctionOnSet(F, none)
        BY <4>2, <4>3, <4>4, SumWithout
      <4> QED BY <4>1, <4>4, <4>5, SumOfNone
    <3> QED BY <1>1, <2>2, <3>1, <3>2, <3>4, <3>5
  <2> QED BY <2>5, <2>6, <2>7
<1>3. ASSUME NEW c \in Cheques PROVE SumFunctionOnSet([d \in Docs |-> ChequeShare(c, d)], Docs) <= Amount
  <2>1. ChequeInv(c)
    BY DEF RecordsInv
  <2>2. PICK F : F = [d \in Docs |-> ChequeShare(c, d)]
    OBVIOUS
  <2>3. CASE Lapsed(c)
    <3>1. \A d \in Docs : F[d] = NoParts[d]
      BY <2>2, <2>3 DEF ChequeShare, NoParts
    <3>2. SumFunctionOnSet(F, Docs) = Total(NoParts)
      BY <1>1, <3>1, SumSame DEF Total
    <3> QED BY <1>1, <2>2, <3>2
  <2>4. CASE ~ Lapsed(c)
    <3>1. \A d \in Docs : F[d] = cheque[c].parts[d]
      BY <2>2, <2>4 DEF ChequeShare
    <3>2. SumFunctionOnSet(F, Docs) = Total(cheque[c].parts)
      BY <1>1, <3>1, SumSame DEF Total
    <3> QED BY <2>1, <2>2, <3>2 DEF ChequeInv
  <2> QED BY <2>3, <2>4
<1> QED BY <1>2, <1>3 DEF SourceWithinAmount

-----------------------------------------------------------------------------
(* Sums that count, and what vouchers post. *)

Signed(F, S) == \A x \in S : F[x] \in {1, 0, 0 - 1}
Plus(F, S) == {x \in S : F[x] = 1}
Minus(F, S) == {x \in S : F[x] = 0 - 1}

(* A sum of signs counts.                                                   *)
LEMMA SumOfSigns ==
    ASSUME NEW S, IsFiniteSet(S), NEW F, Signed(F, S)
    PROVE  SumFunctionOnSet(F, S) = Cardinality(Plus(F, S)) - Cardinality(Minus(F, S))
<1> DEFINE Bad == {T \in SUBSET S : SumFunctionOnSet(F, T) # Cardinality(Plus(F, T)) - Cardinality(Minus(F, T))}
<1>1. SUFFICES ASSUME Bad # {} PROVE FALSE
  OBVIOUS
<1>2. Bad \in SUBSET SUBSET S
  OBVIOUS
<1>3. PICK T \in Bad : \A U \in SUBSET T : U # T => U \notin Bad
  <2> HIDE DEF Bad
  <2> QED BY <1>1, <1>2, SmallestSet
<1>4. IsFiniteSet(T) /\ T \in SUBSET S /\ \A x \in T : F[x] \in Int
  <2>1. T \in SUBSET S
    OBVIOUS
  <2>2. \A x \in T : F[x] \in Int
    BY <2>1 DEF Signed
  <2> QED BY <2>1, <2>2, FS_Subset
<1>5. SumFunctionOnSet(F, T) # Cardinality(Plus(F, T)) - Cardinality(Minus(F, T))
  OBVIOUS
<1>6. T # {}
  <2>1. SUFFICES ASSUME T = {} PROVE FALSE
    OBVIOUS
  <2>2. Plus(F, T) = {} /\ Minus(F, T) = {}
    BY <2>1 DEF Plus, Minus
  <2>3. SumFunctionOnSet(F, T) = 0 /\ Cardinality({}) = 0
    BY <2>1, SumOfNone, FS_EmptySet
  <2> HIDE DEF Bad
  <2> QED BY <1>5, <2>2, <2>3
<1>7. PICK x \in T : TRUE
  BY <1>6
<1>8. PICK U : U = T \ {x}
  OBVIOUS
<1>9. U \in SUBSET T /\ U # T /\ IsFiniteSet(U) /\ x \notin U /\ T = U \cup {x} /\ U \in SUBSET S
  BY <1>4, <1>7, <1>8, FS_Subset
<1>10. SumFunctionOnSet(F, U) = Cardinality(Plus(F, U)) - Cardinality(Minus(F, U))
  BY <1>3, <1>9
<1> HIDE DEF Bad
<1>11. SumFunctionOnSet(F, T) = F[x] + SumFunctionOnSet(F, U)
  BY <1>4, <1>7, <1>8, SumOfOne
<1>12. /\ IsFiniteSet(Plus(F, U)) /\ x \notin Plus(F, U) /\ Cardinality(Plus(F, U)) \in Int
       /\ IsFiniteSet(Minus(F, U)) /\ x \notin Minus(F, U) /\ Cardinality(Minus(F, U)) \in Int
  <2>1. Plus(F, U) \in SUBSET U /\ Minus(F, U) \in SUBSET U
    BY DEF Plus, Minus
  <2>2. IsFiniteSet(Plus(F, U)) /\ IsFiniteSet(Minus(F, U))
    BY <1>9, <2>1, FS_Subset
  <2> QED BY <1>9, <2>1, <2>2, FS_CardinalityType
<1>13. CASE F[x] = 1
  <2>1. Plus(F, T) = Plus(F, U) \cup {x} /\ Minus(F, T) = Minus(F, U)
    BY <1>9, <1>13 DEF Plus, Minus
  <2>2. Cardinality(Plus(F, U) \cup {x}) = Cardinality(Plus(F, U)) + 1
    BY <1>12, FS_AddElement
  <2> QED BY <1>5, <1>10, <1>11, <1>12, <1>13, <2>1, <2>2
<1>14. CASE F[x] = 0
  <2>1. Plus(F, T) = Plus(F, U) /\ Minus(F, T) = Minus(F, U)
    BY <1>9, <1>14 DEF Plus, Minus
  <2> QED BY <1>5, <1>10, <1>11, <1>12, <1>14, <2>1
<1>15. CASE F[x] = 0 - 1
  <2>1. Minus(F, T) = Minus(F, U) \cup {x} /\ Plus(F, T) = Plus(F, U)
    BY <1>9, <1>15 DEF Plus, Minus
  <2>2. Cardinality(Minus(F, U) \cup {x}) = Cardinality(Minus(F, U)) + 1
    BY <1>12, FS_AddElement
  <2> QED BY <1>5, <1>10, <1>11, <1>12, <1>15, <2>1, <2>2
<1> QED BY <1>4, <1>7, <1>13, <1>14, <1>15 DEF Signed

(* The accounts are different.                                              *)
Names == {Hand, Collection, Payable, Protest, Party, Creditors}

LEMMA AccountsDiffer ==
    /\ Hand # Collection /\ Hand # Payable /\ Hand # Protest /\ Hand # Party /\ Hand # Creditors
    /\ Collection # Payable /\ Collection # Protest /\ Collection # Party /\ Collection # Creditors
    /\ Payable # Protest /\ Payable # Party /\ Payable # Creditors
    /\ Protest # Party /\ Protest # Creditors /\ Party # Creditors
    /\ \A b : Bank(b) \notin Names
    /\ \A b, c : Bank(b) = Bank(c) => b = c
<1>1. /\ Hand[1] = "hand" /\ Collection[1] = "collection" /\ Payable[1] = "payable" /\ Protest[1] = "protest"
      /\ Party[1] = "party" /\ Creditors[1] = "creditors" /\ \A b : Bank(b)[1] = "bank" /\ Bank(b)[2] = b
  BY DEF Hand, Collection, Payable, Protest, Party, Creditors, Bank
<1> HIDE DEF Hand, Collection, Payable, Protest, Party, Creditors, Bank
<1>2. \A b, c : Bank(b) = Bank(c) => b = c
  BY <1>1
<1>3. \A b : Bank(b) \notin Names
  BY <1>1 DEF Names
<1> QED BY <1>1, <1>2, <1>3

(* What a set of vouchers posts on an account.                              *)
Sides(v, a) == (IF v[1] = a THEN 1 ELSE 0) - (IF v[2] = a THEN 1 ELSE 0)

LEMMA NothingPosted == \A a : Posted({}, a) = 0
<1>1. Cardinality({}) = 0
  BY FS_EmptySet
<1>2. ASSUME NEW a PROVE Posted({}, a) = 0
  <2>1. {v \in {} : v[1] = a} = {} /\ {v \in {} : v[2] = a} = {}
    OBVIOUS
  <2> QED BY <1>1, <2>1 DEF Posted
<1> QED BY <1>2

LEMMA OneMorePosted ==
    ASSUME NEW V, IsFiniteSet(V), NEW v, v \notin V, NEW a
    PROVE  /\ Posted(V \cup {v}, a) = Posted(V, a) + Sides(v, a)
           /\ Posted(V, a) \in Int
<1> DEFINE Side(W, n) == {u \in W : u[n] = a}
<1>1. ASSUME NEW n \in {1, 2}
      PROVE  /\ Cardinality(Side(V, n)) \in Int
             /\ Cardinality(Side(V \cup {v}, n)) = Cardinality(Side(V, n)) + (IF v[n] = a THEN 1 ELSE 0)
  <2>1. IsFiniteSet(Side(V, n)) /\ v \notin Side(V, n)
    <3>1. Side(V, n) \in SUBSET V
      OBVIOUS
    <3> HIDE DEF Side
    <3> QED BY <3>1, FS_Subset
  <2>2. Cardinality(Side(V, n)) \in Int
    BY <2>1, FS_CardinalityType
  <2>3. CASE v[n] = a
    <3>1. Side(V \cup {v}, n) = Side(V, n) \cup {v}
      BY <2>3
    <3> HIDE DEF Side
    <3>2. Cardinality(Side(V, n) \cup {v}) = Cardinality(Side(V, n)) + 1
      BY <2>1, FS_AddElement
    <3> QED BY <2>2, <2>3, <3>1, <3>2
  <2>4. CASE v[n] # a
    <3>1. Side(V \cup {v}, n) = Side(V, n)
      BY <2>4
    <3> HIDE DEF Side
    <3> QED BY <2>2, <2>4, <3>1
  <2> QED BY <2>2, <2>3, <2>4
<1>2. /\ Posted(V, a) = Cardinality(Side(V, 1)) - Cardinality(Side(V, 2))
      /\ Posted(V \cup {v}, a) = Cardinality(Side(V \cup {v}, 1)) - Cardinality(Side(V \cup {v}, 2))
  BY DEF Posted
<1> HIDE DEF Side
<1> QED BY <1>1, <1>2 DEF Sides

LEMMA PostedOne ==
    ASSUME NEW u, NEW a
    PROVE  Posted({u}, a) = Sides(u, a) /\ IsFiniteSet({u}) /\ Sides(u, a) \in Int
<1>1. {} \cup {u} = {u} /\ IsFiniteSet({}) /\ u \notin {}
  BY FS_EmptySet
<1>2. Posted({} \cup {u}, a) = Posted({}, a) + Sides(u, a)
  BY <1>1, OneMorePosted
<1>3. Sides(u, a) \in Int
  BY DEF Sides
<1> QED BY <1>1, <1>2, <1>3, NothingPosted, FS_Singleton

LEMMA PostedTwo ==
    ASSUME NEW u, NEW v, u # v, NEW a
    PROVE  Posted({u, v}, a) = Sides(u, a) + Sides(v, a) /\ IsFiniteSet({u, v})
<1>1. {u} \cup {v} = {u, v} /\ v \notin {u} /\ IsFiniteSet({u})
  BY PostedOne
<1>2. Posted({u} \cup {v}, a) = Posted({u}, a) + Sides(v, a) /\ IsFiniteSet({u} \cup {v})
  BY <1>1, OneMorePosted, FS_AddElement
<1> QED BY <1>1, <1>2, PostedOne

LEMMA PostedThree ==
    ASSUME NEW u, NEW v, NEW w, u # v, u # w, v # w, NEW a
    PROVE  Posted({u, v, w}, a) = Sides(u, a) + Sides(v, a) + Sides(w, a) /\ IsFiniteSet({u, v, w})
<1>1. {u, v} \cup {w} = {u, v, w} /\ w \notin {u, v} /\ IsFiniteSet({u, v})
  BY PostedTwo
<1>2. Posted({u, v} \cup {w}, a) = Posted({u, v}, a) + Sides(w, a) /\ IsFiniteSet({u, v} \cup {w})
  BY <1>1, OneMorePosted, FS_AddElement
<1> QED BY <1>1, <1>2, PostedTwo

LEMMA PostedFour ==
    ASSUME NEW u, NEW v, NEW w, NEW x, u # v, u # w, v # w, u # x, v # x, w # x, NEW a
    PROVE  Posted({u, v, w, x}, a) = Sides(u, a) + Sides(v, a) + Sides(w, a) + Sides(x, a)
<1>1. {u, v, w} \cup {x} = {u, v, w, x} /\ x \notin {u, v, w} /\ IsFiniteSet({u, v, w})
  BY PostedThree
<1>2. Posted({u, v, w} \cup {x}, a) = Posted({u, v, w}, a) + Sides(x, a)
  BY <1>1, OneMorePosted
<1> QED BY <1>1, <1>2, PostedThree

-----------------------------------------------------------------------------
(* The vouchers of a row and of a cheque, by what became of it.             *)

Taken == <<Hand, Party>>
Sent == <<Collection, Hand>>
Issued == <<Party, Payable>>

ChequeSets(type, status, bank) ==
    IF status \in {"none", "deleted"} THEN {{}}
    ELSE IF type = "paid" THEN
        CASE status = "in_treasury" -> {{Issued}}
          [] status = "passed" -> {{Issued, <<Payable, Bank(bank)>>}}
          [] status \in {"bounced", "returned"} -> {{Issued, <<Payable, Party>>}}
          [] OTHER -> {}
    ELSE
        CASE status \in {"received", "in_treasury"} -> {{Taken}}
          [] status = "in_collection" -> {{Taken, Sent}}
          [] status = "passed" -> {{Taken, <<Bank(bank), Hand>>}, {Taken, Sent, <<Bank(bank), Collection>>}}
          [] status = "bounced" -> {{Taken, <<Protest, Hand>>}, {Taken, Sent, <<Protest, Collection>>}}
          [] status = "returned" -> {{Taken, <<Protest, Hand>>, <<Party, Protest>>},
                                     {Taken, Sent, <<Protest, Collection>>, <<Party, Protest>>}}
          [] OTHER -> {{Taken, <<Creditors, Hand>>}}
ChequeBooks(c) == cheque[c].vouchers \in ChequeSets(cheque[c].type, cheque[c].status, cheque[c].bank)

OwnBooks(me) ==
    me.vouchers = IF me.status # "completed" THEN {}
                  ELSE IF me.type = "receipt" THEN {<<Bank(me.bank), Party>>} ELSE {<<Party, Bank(me.bank)>>}
PairBooks(me, other) ==
    me.vouchers = IF me.status = "completed" /\ me.type = "payment" THEN {<<Bank(other), Bank(me.bank)>>} ELSE {}
RowBooks(r) == IF row[r].pair = 0 THEN OwnBooks(row[r]) ELSE PairBooks(row[r], row[row[r].pair].bank)

(* What a record moves at an account.                                       *)
RowMove(me, b) == IF me.status = "completed" /\ me.bank = b THEN (IF me.type = "receipt" THEN 1 ELSE 0 - 1) ELSE 0
ChequeMove(me, b) == IF me.status = "passed" /\ me.bank = b THEN (IF me.type = "received" THEN 1 ELSE 0 - 1) ELSE 0
RowMoves(rs, b) == SumFunctionOnSet([r \in Rows |-> RowMove(rs[r], b)], Rows)
ChequeMoves(cs, b) == SumFunctionOnSet([c \in Cheques |-> ChequeMove(cs[c], b)], Cheques)

(* The invariant BooksAgree follows from: every row and every cheque carries *)
(* exactly the vouchers of what became of it, and the balance of an account *)
(* is its opening and what its live rows and cleared cheques move.          *)
MoneyInv == \A b \in Banks : balance[b] = Opening + Amount * (RowMoves(row, b) + ChequeMoves(cheque, b))
BooksInv == MoneyInv /\ (\A r \in Rows : RowBooks(r)) /\ (\A c \in Cheques : ChequeBooks(c))

LEMMA MoveTypes ==
    ASSUME SettlementAssumption
    PROVE  /\ \A me, b : RowMove(me, b) \in {1, 0, 0 - 1} /\ ChequeMove(me, b) \in {1, 0, 0 - 1}
           /\ \A me, b : RowMove(me, b) \in Int /\ ChequeMove(me, b) \in Int
           /\ \A rs, b : RowMoves(rs, b) \in Int
           /\ \A cs, b : ChequeMoves(cs, b) \in Int
<1>1. \A me, b : RowMove(me, b) \in {1, 0, 0 - 1} /\ ChequeMove(me, b) \in {1, 0, 0 - 1}
  BY DEF RowMove, ChequeMove
<1>2. \A me, b : RowMove(me, b) \in Int /\ ChequeMove(me, b) \in Int
  BY <1>1
<1>3. IsFiniteSet(Rows) /\ IsFiniteSet(Cheques)
  BY DEF SettlementAssumption
<1>4. ASSUME NEW rs, NEW b PROVE RowMoves(rs, b) \in Int
  <2>1. PICK F : F = [r \in Rows |-> RowMove(rs[r], b)]
    OBVIOUS
  <2>2. \A r \in Rows : F[r] \in Int
    BY <1>2, <2>1
  <2>3. SumFunctionOnSet(F, Rows) \in Int
    BY <1>3, <2>2, SumType
  <2> QED BY <2>1, <2>3 DEF RowMoves
<1>5. ASSUME NEW cs, NEW b PROVE ChequeMoves(cs, b) \in Int
  <2>1. PICK F : F = [c \in Cheques |-> ChequeMove(cs[c], b)]
    OBVIOUS
  <2>2. \A c \in Cheques : F[c] \in Int
    BY <1>2, <2>1
  <2>3. SumFunctionOnSet(F, Cheques) \in Int
    BY <1>3, <2>2, SumType
  <2> QED BY <2>1, <2>3 DEF ChequeMoves
<1> QED BY <1>1, <1>2, <1>4, <1>5

LEMMA OneRowMoves ==
    ASSUME SettlementAssumption, NEW rs, NEW qs, NEW r \in Rows, SameBut(rs, qs, Rows, r), NEW b
    PROVE  RowMoves(qs, b) = RowMoves(rs, b) - RowMove(rs[r], b) + RowMove(qs[r], b)
<1>1. PICK F : F = [q \in Rows |-> RowMove(rs[q], b)]
  OBVIOUS
<1>2. PICK G : G = [q \in Rows |-> RowMove(qs[q], b)]
  OBVIOUS
<1>3. Integral(F, Rows) /\ Integral(G, Rows)
  BY <1>1, <1>2, MoveTypes DEF Integral
<1>4. SameBut(F, G, Rows, r) /\ IsFiniteSet(Rows)
  BY <1>1, <1>2 DEF SameBut, SettlementAssumption
<1>5. SumMoves(F, G, Rows, r)
  BY <1>3, <1>4, SumChange
<1> QED BY <1>1, <1>2, <1>5 DEF SumMoves, RowMoves

LEMMA OneChequeMoves ==
    ASSUME SettlementAssumption, NEW cs, NEW es, NEW c \in Cheques, SameBut(cs, es, Cheques, c), NEW b
    PROVE  ChequeMoves(es, b) = ChequeMoves(cs, b) - ChequeMove(cs[c], b) + ChequeMove(es[c], b)
<1>1. PICK F : F = [q \in Cheques |-> ChequeMove(cs[q], b)]
  OBVIOUS
<1>2. PICK G : G = [q \in Cheques |-> ChequeMove(es[q], b)]
  OBVIOUS
<1>3. Integral(F, Cheques) /\ Integral(G, Cheques)
  BY <1>1, <1>2, MoveTypes DEF Integral
<1>4. SameBut(F, G, Cheques, c) /\ IsFiniteSet(Cheques)
  BY <1>1, <1>2 DEF SameBut, SettlementAssumption
<1>5. SumMoves(F, G, Cheques, c)
  BY <1>3, <1>4, SumChange
<1> QED BY <1>1, <1>2, <1>5 DEF SumMoves, ChequeMoves

(* Rows equal but for two.                                                  *)
SameBeside(F, G, p, r) == \A q \in Rows \ {p, r} : G[q] = F[q]
TwoMoves(rs, qs, p, r, b) ==
    RowMoves(qs, b) = RowMoves(rs, b) - RowMove(rs[p], b) - RowMove(rs[r], b) + RowMove(qs[p], b) + RowMove(qs[r], b)

LEMMA TwoRowsMove ==
    ASSUME SettlementAssumption, NEW rs, NEW qs, NEW p \in Rows, NEW r \in Rows, p # r,
           SameBeside(rs, qs, p, r), NEW b
    PROVE  TwoMoves(rs, qs, p, r, b)
<1>1. PICK ms : ms = [q \in Rows |-> IF q = p THEN qs[p] ELSE rs[q]]
  OBVIOUS
<1>2. SameBut(rs, ms, Rows, p) /\ SameBut(ms, qs, Rows, r) /\ ms[p] = qs[p] /\ ms[r] = rs[r]
  BY <1>1 DEF SameBut, SameBeside
<1>3. RowMoves(ms, b) = RowMoves(rs, b) - RowMove(rs[p], b) + RowMove(ms[p], b)
  BY <1>2, OneRowMoves
<1>4. RowMoves(qs, b) = RowMoves(ms, b) - RowMove(ms[r], b) + RowMove(qs[r], b)
  BY <1>2, OneRowMoves
<1>5. /\ RowMoves(rs, b) \in Int /\ RowMoves(ms, b) \in Int /\ RowMoves(qs, b) \in Int
      /\ RowMove(rs[p], b) \in Int /\ RowMove(rs[r], b) \in Int /\ RowMove(qs[p], b) \in Int /\ RowMove(qs[r], b) \in Int
  BY MoveTypes
<1> QED BY <1>2, <1>3, <1>4, <1>5 DEF TwoMoves

(* The books follow what moves.                                             *)
MovesBy(b, n) ==
    /\ RowMoves(row', b) + ChequeMoves(cheque', b) = RowMoves(row, b) + ChequeMoves(cheque, b) + n
    /\ balance'[b] = balance[b] + Amount * n

LEMMA MoneyKept ==
    ASSUME SettlementAssumption, TypeOK, MoneyInv, \A b \in Banks : \E n \in Int : MovesBy(b, n)
    PROVE  MoneyInv'
<1>1. ASSUME NEW b \in Banks PROVE balance'[b] = Opening + Amount * (RowMoves(row', b) + ChequeMoves(cheque', b))
  <2>1. PICK n \in Int : MovesBy(b, n)
    OBVIOUS
  <2>2. PICK m \in Int : m = RowMoves(row, b) + ChequeMoves(cheque, b)
    BY MoveTypes
  <2>3. RowMoves(row', b) + ChequeMoves(cheque', b) = m + n
    BY <2>1, <2>2 DEF MovesBy
  <2>4. balance[b] = Opening + Amount * m /\ balance'[b] = balance[b] + Amount * n
    BY <2>1, <2>2 DEF MovesBy, MoneyInv
  <2>5. Amount \in Int /\ Opening \in Int
    BY DEF SettlementAssumption
  <2>6. Amount * (m + n) = Amount * m + Amount * n /\ Amount * m \in Int /\ Amount * n \in Int
    BY <2>5
  <2> QED BY <2>3, <2>4, <2>5, <2>6
<1> QED BY <1>1 DEF MoneyInv

-----------------------------------------------------------------------------
(* A step that writes one row without another side.                         *)

(* One row without another side is written, and the balances follow it.     *)
LEMMA RowBooked ==
    ASSUME SettlementAssumption, IInv, BooksInv, NEW r \in Rows, NEW me, row' = [row EXCEPT ![r] = me],
           row[r].pair = 0, me.pair = 0, cheque' = cheque, OwnBooks(me),
           \A b \in Banks : balance'[b] = balance[b] + Amount * (RowMove(me, b) - RowMove(row[r], b))
    PROVE  BooksInv'
<1>1. TypeOK /\ row \in [Rows -> RowRecords] /\ \A q \in Rows : RowInv(q) /\ q # 0
  BY ConstantFacts DEF IInv, TypeOK, RecordsInv
<1>2. row'[r] = me /\ \A q \in Rows \ {r} : row'[q] = row[q]
  BY <1>1
<1>3. MoneyInv'
  <2>1. SameBut(row, row', Rows, r)
    BY <1>2 DEF SameBut
  <2>2. ASSUME NEW b \in Banks PROVE \E n \in Int : MovesBy(b, n)
    <3>1. PICK rs, qs : rs = row /\ qs = row'
      OBVIOUS
    <3>1a. SameBut(rs, qs, Rows, r)
      BY <2>1, <3>1
    <3>2. RowMoves(qs, b) = RowMoves(rs, b) - RowMove(rs[r], b) + RowMove(qs[r], b)
      BY <3>1a, OneRowMoves
    <3>3. PICK m \in Int, n \in Int, i \in Int, j \in Int, k \in Int :
              m = RowMove(row[r], b) /\ n = RowMove(me, b) /\ i = RowMoves(row, b) /\ j = RowMoves(row', b)
              /\ k = ChequeMoves(cheque, b)
      BY MoveTypes
    <3>4. j = i - m + n
      BY <1>2, <3>1, <3>2, <3>3
    <3>5. j + k = i + k + (n - m) /\ n - m \in Int
      BY <3>3, <3>4
    <3>6. balance'[b] = balance[b] + Amount * (n - m)
      BY <3>3
    <3>7. MovesBy(b, n - m)
      BY <3>3, <3>5, <3>6 DEF MovesBy
    <3> QED BY <3>5, <3>7
  <2> QED BY <1>1, <2>2, MoneyKept DEF BooksInv
<1>4. ASSUME NEW q \in Rows PROVE RowBooks(q)'
  <2>1. CASE q = r
    BY <1>2, <2>1 DEF RowBooks, OwnBooks
  <2>2. CASE q # r
    <3>1. row'[q] = row[q] /\ RowBooks(q)
      BY <1>2, <2>2 DEF BooksInv
    <3>2. row[q].pair # 0 => row[q].pair \in Rows /\ row[q].pair # r
      BY <1>1 DEF RowInv, RowRecords
    <3>3. row[q].pair # 0 => row'[row[q].pair] = row[row[q].pair]
      BY <1>2, <3>2
    <3> QED BY <3>1, <3>3 DEF RowBooks, OwnBooks, PairBooks
  <2> QED BY <2>1, <2>2
<1>5. \A c \in Cheques : ChequeBooks(c)'
  BY DEF BooksInv, ChequeBooks
<1> QED BY <1>3, <1>4, <1>5 DEF BooksInv

(* One cheque is written, and the balances follow it.                       *)
LEMMA ChequeBooked ==
    ASSUME SettlementAssumption, IInv, BooksInv, NEW c \in Cheques, NEW me, cheque' = [cheque EXCEPT ![c] = me],
           row' = row, me.vouchers \in ChequeSets(me.type, me.status, me.bank),
           \A b \in Banks : balance'[b] = balance[b] + Amount * (ChequeMove(me, b) - ChequeMove(cheque[c], b))
    PROVE  BooksInv'
<1>1. TypeOK /\ cheque \in [Cheques -> ChequeRecords]
  BY DEF IInv, TypeOK
<1>2. cheque'[c] = me /\ \A e \in Cheques \ {c} : cheque'[e] = cheque[e]
  BY <1>1
<1>3. MoneyInv'
  <2>1. SameBut(cheque, cheque', Cheques, c)
    BY <1>2 DEF SameBut
  <2>2. ASSUME NEW b \in Banks PROVE \E n \in Int : MovesBy(b, n)
    <3>1. PICK cs, es : cs = cheque /\ es = cheque'
      OBVIOUS
    <3>1a. SameBut(cs, es, Cheques, c)
      BY <2>1, <3>1
    <3>2. ChequeMoves(es, b) = ChequeMoves(cs, b) - ChequeMove(cs[c], b) + ChequeMove(es[c], b)
      BY <3>1a, OneChequeMoves
    <3>3. PICK m \in Int, n \in Int, i \in Int, j \in Int, k \in Int :
              m = ChequeMove(cheque[c], b) /\ n = ChequeMove(me, b) /\ i = ChequeMoves(cheque, b)
              /\ j = ChequeMoves(cheque', b) /\ k = RowMoves(row, b)
      BY MoveTypes
    <3>4. j = i - m + n
      BY <1>2, <3>1, <3>2, <3>3
    <3>5. k + j = k + i + (n - m) /\ n - m \in Int
      BY <3>3, <3>4
    <3>6. balance'[b] = balance[b] + Amount * (n - m)
      BY <3>3
    <3>7. MovesBy(b, n - m)
      BY <3>3, <3>5, <3>6 DEF MovesBy
    <3> QED BY <3>5, <3>7
  <2> QED BY <1>1, <2>2, MoneyKept DEF BooksInv
<1>4. \A r \in Rows : RowBooks(r)'
  BY DEF BooksInv, RowBooks, OwnBooks, PairBooks
<1>5. \A e \in Cheques : ChequeBooks(e)'
  BY <1>2 DEF BooksInv, ChequeBooks
<1> QED BY <1>3, <1>4, <1>5 DEF BooksInv

(* A step that writes neither rows, nor cheques, nor balances.              *)
LEMMA NothingBooked ==
    ASSUME BooksInv, balance' = balance, row' = row, cheque' = cheque
    PROVE  BooksInv'
BY DEF BooksInv, MoneyInv, RowMoves, ChequeMoves, RowBooks, OwnBooks, PairBooks, ChequeBooks

LEMMA NobodyMoves ==
    ASSUME SettlementAssumption
    PROVE  /\ \A me, b : me.status # "completed" => RowMove(me, b) = 0
           /\ \A me, b : me.status # "passed" => ChequeMove(me, b) = 0
           /\ \A me, b : me.bank # b => RowMove(me, b) = 0 /\ ChequeMove(me, b) = 0
           /\ \A n \in Int : Amount * (n - n) = 0 /\ n + Amount * (0 - 0) = n
<1>1. Amount \in Int
  BY DEF SettlementAssumption
<1>2. ASSUME NEW n \in Int PROVE Amount * (n - n) = 0 /\ n + Amount * (0 - 0) = n
  <2>1. n - n = 0 /\ 0 - 0 = 0
    OBVIOUS
  <2> QED BY <1>1, <2>1
<1> QED BY <1>2 DEF RowMove, ChequeMove

LEMMA BooksOfReceipt ==
    ASSUME SettlementAssumption, IInv, BooksInv, NEW s \in Sessions, Receipt(s)
    PROVE  BooksInv'
<1>1. Ready(s, "receipt") /\ cheque' = cheque /\ writeBankBalance(s, tx[s].bank, Amount)
  BY DEF Receipt
<1>2. TypeOK /\ tx[s].op = "receipt" /\ Own(s)
  BY <1>1, ReadyFacts
<1>3. PICK bank \in Banks : bank = tx[s].bank
  BY <1>2 DEF Own
<1>3a. PICK parts, link : parts = tx[s].parts /\ link = tx[s].doc
  OBVIOUS
<1>4. PICK me : me = [NoRow EXCEPT !.status = "completed", !.bank = bank, !.link = link, !.parts = parts,
                                   !.vouchers = {<<Bank(bank), Party>>}]
  OBVIOUS
<1>5. /\ me.status = "completed" /\ me.type = "receipt" /\ me.bank = bank /\ me.pair = 0
      /\ me.vouchers = {<<Bank(bank), Party>>}
  BY <1>4 DEF NoRow
<1>6. PICK r \in NextRow : row' = [row EXCEPT ![r] = me]
  BY <1>1, <1>3, <1>3a, <1>4 DEF Receipt
<1>7. r \in Rows /\ row[r].status = "none" /\ row[r].pair = 0
  BY <1>6, NextRowFacts DEF NextRow
<1>8. OwnBooks(me)
  BY <1>5 DEF OwnBooks
<1>9. ASSUME NEW b \in Banks PROVE balance'[b] = balance[b] + Amount * (RowMove(me, b) - RowMove(row[r], b))
  <2>1. balance[b] \in Nat /\ Amount \in Nat /\ balance[bank] \in Nat
    BY <1>2, BalanceTypes
  <2>2. bank \in BanksOf(s) /\ Amount \in Int /\ balance[bank] + Amount >= 0
    BY <1>2, <1>3, <2>1 DEF BanksOf
  <2>3. balance'[bank] = balance[bank] + Amount /\ \A a \in Banks \ {bank} : balance'[a] = balance[a]
    BY <1>1, <1>3, <2>2, BalanceWritten
  <2>4. RowMove(row[r], b) = 0 /\ RowMove(me, b) = IF b = bank THEN 1 ELSE 0
    BY <1>5, <1>7 DEF RowMove
  <2>5. balance[b] + Amount * (1 - 0) = balance[b] + Amount /\ balance[b] + Amount * (0 - 0) = balance[b]
    BY <2>1
  <2> QED BY <2>3, <2>4, <2>5
<1> QED BY <1>1, <1>5, <1>6, <1>7, <1>8, <1>9, RowBooked

LEMMA BooksOfPayment ==
    ASSUME SettlementAssumption, IInv, BooksInv, NEW s \in Sessions, Payment(s)
    PROVE  BooksInv'
<1>1. Ready(s, "payment") /\ cheque' = cheque /\ writeBankBalance(s, tx[s].bank, 0 - Amount)
  BY DEF Payment
<1>2. TypeOK /\ tx[s].op = "payment" /\ Own(s) /\ balance[tx[s].bank] - Amount >= 0
  BY <1>1, ReadyFacts DEF Claims
<1>3. PICK bank \in Banks : bank = tx[s].bank
  BY <1>2 DEF Own
<1>4. PICK me : me = [NoRow EXCEPT !.status = "completed", !.type = "payment", !.bank = bank,
                                   !.vouchers = {<<Party, Bank(bank)>>}]
  OBVIOUS
<1>5. /\ me.status = "completed" /\ me.type = "payment" /\ me.bank = bank /\ me.pair = 0
      /\ me.vouchers = {<<Party, Bank(bank)>>}
  BY <1>4 DEF NoRow
<1>6. PICK r \in NextRow : row' = [row EXCEPT ![r] = me]
  BY <1>1, <1>3, <1>4 DEF Payment
<1>7. r \in Rows /\ row[r].status = "none" /\ row[r].pair = 0
  BY <1>6, NextRowFacts DEF NextRow
<1>8. OwnBooks(me)
  BY <1>5 DEF OwnBooks
<1>9. ASSUME NEW b \in Banks PROVE balance'[b] = balance[b] + Amount * (RowMove(me, b) - RowMove(row[r], b))
  <2>1. balance[b] \in Nat /\ Amount \in Nat /\ balance[bank] \in Nat
    BY <1>2, BalanceTypes
  <2>2. PICK delta \in Int : delta = 0 - Amount
    BY <2>1
  <2>3. bank \in BanksOf(s) /\ balance[bank] + delta >= 0
    BY <1>2, <1>3, <2>1, <2>2 DEF BanksOf
  <2>4. balance'[bank] = balance[bank] + delta /\ \A a \in Banks \ {bank} : balance'[a] = balance[a]
    BY <1>1, <1>3, <2>2, <2>3, BalanceWritten
  <2>5. RowMove(row[r], b) = 0 /\ RowMove(me, b) = IF b = bank THEN 0 - 1 ELSE 0
    BY <1>5, <1>7 DEF RowMove
  <2>6. balance[b] + Amount * ((0 - 1) - 0) = balance[b] + delta /\ balance[b] + Amount * (0 - 0) = balance[b]
    BY <2>1, <2>2
  <2> QED BY <2>4, <2>5, <2>6
<1> QED BY <1>1, <1>5, <1>6, <1>7, <1>8, <1>9, RowBooked

-----------------------------------------------------------------------------
(* A transfer and the void of either side write both rows and two balances. *)

(* A row whose account, state and vouchers stay.                            *)
LEMMA RowStaysBooked ==
    ASSUME SettlementAssumption, IInv, BooksInv, NEW r \in Rows, NEW me, row' = [row EXCEPT ![r] = me],
           row[r].pair = 0, me.pair = 0, me.status = row[r].status, me.type = row[r].type, me.bank = row[r].bank,
           me.vouchers = row[r].vouchers, cheque' = cheque, balance' = balance
    PROVE  BooksInv'
<1>1. OwnBooks(me)
  <2>1. RowBooks(r)
    BY DEF BooksInv
  <2> QED BY <2>1 DEF RowBooks, OwnBooks
<1>2. ASSUME NEW b \in Banks PROVE balance'[b] = balance[b] + Amount * (RowMove(me, b) - RowMove(row[r], b))
  <2>1. RowMove(me, b) = RowMove(row[r], b)
    BY DEF RowMove
  <2>2. balance[b] \in Int
    BY BalanceTypes DEF IInv
  <2>3. PICK n \in Int : n = RowMove(me, b)
    BY MoveTypes
  <2>4. Amount * (n - n) = 0
    BY NobodyMoves
  <2> QED BY <2>1, <2>2, <2>3, <2>4
<1> QED BY <1>1, <1>2, RowBooked

LEMMA BooksOfRelink ==
    ASSUME SettlementAssumption, IInv, BooksInv, NEW s \in Sessions, Relink(s)
    PROVE  BooksInv'
<1>1. Ready(s, "relink") /\ cheque' = cheque /\ balance' = balance
  BY DEF Relink
<1>2. TypeOK /\ tx[s].op = "relink" /\ Own(s)
  BY <1>1, ReadyFacts
<1>3. PICK r \in Rows : r = tx[s].id
  BY <1>2 DEF Own
<1>4. row[r] \in RowRecords /\ row[r].pair = 0
  BY <1>2, <1>3 DEF Own, TypeOK
<1>5. PICK me : me = [row[r] EXCEPT !.link = tx[s].doc]
  OBVIOUS
<1>6. row' = [row EXCEPT ![r] = me]
  BY <1>2, <1>3, <1>5 DEF Relink, TypeOK
<1>7. /\ me.pair = 0 /\ me.status = row[r].status /\ me.type = row[r].type /\ me.bank = row[r].bank
      /\ me.vouchers = row[r].vouchers
  BY <1>4, <1>5 DEF RowRecords
<1> QED BY <1>1, <1>4, <1>6, <1>7, RowStaysBooked

LEMMA BooksOfReplace ==
    ASSUME SettlementAssumption, IInv, BooksInv, NEW s \in Sessions, Replace(s)
    PROVE  BooksInv'
<1>1. Ready(s, "replace") /\ cheque' = cheque /\ balance' = balance
  BY DEF Replace
<1>2. TypeOK /\ tx[s].op = "replace" /\ Own(s)
  BY <1>1, ReadyFacts
<1>3. PICK r \in Rows : r = tx[s].id
  BY <1>2 DEF Own
<1>4. row[r] \in RowRecords /\ row[r].pair = 0
  BY <1>2, <1>3 DEF Own, TypeOK
<1>5. PICK me : me = [row[r] EXCEPT !.parts = tx[s].parts, !.link = 0]
  OBVIOUS
<1>6. row' = [row EXCEPT ![r] = me]
  BY <1>2, <1>3, <1>5 DEF Replace, TypeOK
<1>7. /\ me.pair = 0 /\ me.status = row[r].status /\ me.type = row[r].type /\ me.bank = row[r].bank
      /\ me.vouchers = row[r].vouchers
  BY <1>4, <1>5 DEF RowRecords
<1> QED BY <1>1, <1>4, <1>6, <1>7, RowStaysBooked

(* The two sides of a transfer are written together.                        *)
SidesMove(p, r, b) ==
    balance'[b] = balance[b] + Amount * (RowMove(row'[p], b) + RowMove(row'[r], b) - RowMove(row[p], b) - RowMove(row[r], b))

LEMMA SidesBooked ==
    ASSUME SettlementAssumption, IInv, BooksInv, NEW p \in Rows, NEW r \in Rows, p # r,
           \A q \in Rows \ {p, r} : row'[q] = row[q],
           row[p].pair \in {0, r}, row[r].pair \in {0, p}, row'[p].pair = r, row'[r].pair = p,
           RowBooks(p)', RowBooks(r)', cheque' = cheque, \A b \in Banks : SidesMove(p, r, b)
    PROVE  BooksInv'
<1>1. TypeOK /\ row \in [Rows -> RowRecords] /\ \A q \in Rows : RowInv(q) /\ q # 0
  BY ConstantFacts DEF IInv, TypeOK, RecordsInv
<1>2. MoneyInv'
  <2>1. ASSUME NEW b \in Banks PROVE \E n \in Int : MovesBy(b, n)
    <3>1. PICK rs, qs : rs = row /\ qs = row'
      OBVIOUS
    <3>2. SameBeside(rs, qs, p, r)
      BY <3>1 DEF SameBeside
    <3>3. TwoMoves(rs, qs, p, r, b)
      BY <3>2, TwoRowsMove
    <3>4. PICK m \in Int, n \in Int, i \in Int, j \in Int :
              m = RowMove(row[p], b) /\ n = RowMove(row[r], b) /\ i = RowMove(row'[p], b) /\ j = RowMove(row'[r], b)
      BY MoveTypes
    <3>5. PICK k \in Int, l \in Int, h \in Int : k = RowMoves(row, b) /\ l = RowMoves(row', b) /\ h = ChequeMoves(cheque, b)
      BY MoveTypes
    <3>6. l = k - m - n + i + j
      BY <3>1, <3>3, <3>4, <3>5 DEF TwoMoves
    <3>7. l + h = k + h + (i + j - m - n) /\ i + j - m - n \in Int
      BY <3>6
    <3>8. balance'[b] = balance[b] + Amount * (i + j - m - n)
      BY <3>4 DEF SidesMove
    <3>9. MovesBy(b, i + j - m - n)
      BY <3>5, <3>7, <3>8 DEF MovesBy
    <3> QED BY <3>7, <3>9
  <2> QED BY <1>1, <2>1, MoneyKept DEF BooksInv
<1>3. ASSUME NEW q \in Rows PROVE RowBooks(q)'
  <2>1. CASE q \in {p, r}
    BY <2>1
  <2>2. CASE q \notin {p, r}
    <3>1. row'[q] = row[q] /\ RowBooks(q)
      BY <2>2 DEF BooksInv
    <3>2a. row[q] \in RowRecords /\ RowInv(q) /\ q # 0
      BY <1>1
    <3>2b. row[q].pair # 0 => row[q].pair \in Rows /\ row[row[q].pair].pair = q
      BY <3>2a DEF RowInv, RowRecords
    <3>2. row[q].pair # 0 => row[q].pair \in Rows \ {p, r}
      BY <2>2, <3>2a, <3>2b
    <3>3. row[q].pair # 0 => row'[row[q].pair] = row[row[q].pair]
      BY <3>2
    <3> QED BY <3>1, <3>3 DEF RowBooks, OwnBooks, PairBooks
  <2> QED BY <2>1, <2>2
<1>4. \A c \in Cheques : ChequeBooks(c)'
  BY DEF BooksInv, ChequeBooks
<1> QED BY <1>2, <1>3, <1>4 DEF BooksInv

LEMMA BooksOfTransfer ==
    ASSUME SettlementAssumption, IInv, BooksInv, NEW s \in Sessions, Transfer(s)
    PROVE  BooksInv'
<1>1. Ready(s, "transfer") /\ cheque' = cheque
  BY DEF Transfer
<1>2. /\ TypeOK /\ tx[s].op = "transfer" /\ Own(s) /\ \A b \in BanksOf(s) : tx[s].saw[b] = balance[b]
  BY <1>1, ReadyFacts
<1>3. PICK from \in Banks, to \in Banks : from = tx[s].bank /\ to = tx[s].to /\ from # to
  BY <1>2 DEF Own
<1>4. PICK p \in NextRow, r \in Unused :
          /\ r # p
          /\ row' = [row EXCEPT
                ![p] = [NoRow EXCEPT !.status = "completed", !.type = "payment", !.bank = from, !.pair = r,
                                     !.vouchers = {<<Bank(to), Bank(from)>>}],
                ![r] = [NoRow EXCEPT !.status = "completed", !.bank = to, !.pair = p]]
  BY <1>3 DEF Transfer
<1>5. /\ p \in Rows /\ row[p].status = "none" /\ row[p].pair = 0
      /\ r \in Rows /\ row[r].status = "none" /\ row[r].pair = 0
  BY <1>4, NextRowFacts DEF NextRow
<1>6. PICK out : out = [NoRow EXCEPT !.status = "completed", !.type = "payment", !.bank = from, !.pair = r,
                                     !.vouchers = {<<Bank(to), Bank(from)>>}]
  OBVIOUS
<1>7. PICK in : in = [NoRow EXCEPT !.status = "completed", !.bank = to, !.pair = p]
  OBVIOUS
<1>8. row' = [row EXCEPT ![p] = out, ![r] = in]
  BY <1>4, <1>6, <1>7
<1>9. /\ out.status = "completed" /\ out.type = "payment" /\ out.bank = from /\ out.pair = r
      /\ out.vouchers = {<<Bank(to), Bank(from)>>}
      /\ in.status = "completed" /\ in.type = "receipt" /\ in.bank = to /\ in.pair = p /\ in.vouchers = {}
  BY <1>6, <1>7 DEF NoRow
<1>10. row'[p] = out /\ row'[r] = in /\ \A q \in Rows \ {p, r} : row'[q] = row[q]
  BY <1>2, <1>4, <1>5, <1>8 DEF TypeOK
<1>11. RowBooks(p)' /\ RowBooks(r)'
  <2>1. p # 0 /\ r # 0
    BY <1>5, ConstantFacts
  <2> QED BY <1>9, <1>10, <2>1 DEF RowBooks, PairBooks
<1>12. balance' = [balance EXCEPT ![from] = balance[from] + (0 - Amount), ![to] = balance[to] + Amount]
  <2>1. tx[s].saw[from] = balance[from] /\ tx[s].saw[to] = balance[to]
    BY <1>2, <1>3 DEF BanksOf
  <2> QED BY <1>3, <2>1 DEF Transfer, Moved
<1>13. ASSUME NEW b \in Banks
       PROVE  SidesMove(p, r, b)
  <2>1. balance[b] \in Nat /\ Amount \in Nat
    BY <1>2, BalanceTypes
  <2>2. balance'[b] = IF b = to THEN balance[b] + Amount ELSE IF b = from THEN balance[b] + (0 - Amount) ELSE balance[b]
    BY <1>2, <1>3, <1>12 DEF TypeOK
  <2>3. /\ RowMove(out, b) = IF b = from THEN 0 - 1 ELSE 0
        /\ RowMove(in, b) = IF b = to THEN 1 ELSE 0
        /\ RowMove(row[p], b) = 0 /\ RowMove(row[r], b) = 0
    BY <1>5, <1>9 DEF RowMove
  <2>4. /\ balance[b] + Amount * (0 + 1 - 0 - 0) = balance[b] + Amount
        /\ balance[b] + Amount * ((0 - 1) + 0 - 0 - 0) = balance[b] + (0 - Amount)
        /\ balance[b] + Amount * (0 + 0 - 0 - 0) = balance[b]
    BY <2>1
  <2> QED BY <1>3, <1>10, <2>2, <2>3, <2>4 DEF SidesMove
<1>14. row'[p].pair = r /\ row'[r].pair = p
  BY <1>9, <1>10
<1> QED BY <1>1, <1>4, <1>5, <1>10, <1>11, <1>13, <1>14, SidesBooked

LEMMA BooksOfVoid ==
    ASSUME SettlementAssumption, IInv, BooksInv, NEW s \in Sessions, Void(s)
    PROVE  BooksInv'
<1>1. Ready(s, "void") /\ cheque' = cheque
  BY DEF Void
<1>2. TypeOK /\ tx[s].op = "void" /\ Own(s) /\ Claims(s) /\ \A b \in BanksOf(s) : tx[s].saw[b] = balance[b]
  BY <1>1, ReadyFacts
<1>3. PICK r \in Rows : r = tx[s].id
  BY <1>2 DEF Own
<1>4. PICK sides : sides = SidesOf(r)
  OBVIOUS
<1>5. row[r].status = "completed" /\ r # 0 /\ RowInv(r) /\ row[r] \in RowRecords
  BY <1>2, <1>3, ConstantFacts DEF Claims, Live, IInv, RecordsInv, TypeOK
<1>6. /\ sides \in SUBSET Rows /\ r \in sides /\ sides = {r} \cup ({row[r].pair} \ {0})
      /\ \A q \in sides : q \in Rows /\ row[q].status = "completed"
      /\ row[r].pair # 0 => row[r].pair \in Rows /\ RowInv(row[r].pair)
  BY <1>4, <1>5, SidesFacts DEF SidesOf
<1>7. row' = [q \in Rows |-> IF q \in sides THEN [row[q] EXCEPT !.status = "voided", !.vouchers = {}] ELSE row[q]]
  BY <1>3, <1>4 DEF Void
<1>8. ASSUME NEW b \in Banks
      PROVE  balance'[b] = IF \E q \in sides : row[q].bank = b
                           THEN balance[b] + Back(CHOOSE q \in sides : row[q].bank = b) ELSE balance[b]
  <2>1. balance'[b] = IF \E q \in sides : row[q].bank = b
                      THEN tx[s].saw[b] + Back(CHOOSE q \in sides : row[q].bank = b) ELSE balance[b]
    BY <1>3, <1>4 DEF Void, Moved
  <2>2. (\E q \in sides : row[q].bank = b) => b \in BanksOf(s)
    BY <1>2, <1>3, <1>4 DEF BanksOf
  <2> QED BY <1>2, <2>1, <2>2
<1>9. ASSUME NEW q \in sides
      PROVE  \E gone : /\ gone = [row[q] EXCEPT !.status = "voided", !.vouchers = {}] /\ row'[q] = gone
                       /\ gone.pair = row[q].pair /\ gone.status = "voided" /\ gone.bank = row[q].bank /\ gone.vouchers = {}
  <2>1. q \in Rows /\ row[q] \in RowRecords
    BY <1>2, <1>6 DEF TypeOK
  <2>2. PICK gone : gone = [row[q] EXCEPT !.status = "voided", !.vouchers = {}]
    OBVIOUS
  <2>3. gone.pair = row[q].pair /\ gone.status = "voided" /\ gone.bank = row[q].bank /\ gone.vouchers = {}
    BY <2>1, <2>2 DEF RowRecords
  <2>4. row'[q] = gone
    BY <1>7, <2>1, <2>2
  <2> QED BY <2>2, <2>3, <2>4
<1>10. \A q \in Rows \ sides : row'[q] = row[q]
  BY <1>7
<1>11. ASSUME NEW q \in sides, NEW b \in Banks
       PROVE  IF row[q].bank = b THEN Back(q) = Amount * (0 - RowMove(row[q], b)) ELSE RowMove(row[q], b) = 0
  <2>1. row[q].type \in {"receipt", "payment"} /\ row[q].status = "completed" /\ Amount \in Int
    BY <1>2, <1>6, SettlementAssumption DEF TypeOK, RowRecords
  <2>2. Amount * (0 - 1) = 0 - Amount /\ Amount * (0 - (0 - 1)) = Amount
    BY <2>1
  <2>3. row[q].bank = b => RowMove(row[q], b) = IF row[q].type = "receipt" THEN 1 ELSE 0 - 1
    BY <2>1 DEF RowMove
  <2>4. row[q].bank # b => RowMove(row[q], b) = 0
    BY DEF RowMove
  <2> QED BY <2>1, <2>2, <2>3, <2>4 DEF Back
<1>12. \A b \in Banks : balance[b] \in Int
  BY <1>2, BalanceTypes
<1>13. CASE row[r].pair = 0
  <2>1. sides = {r}
    BY <1>6, <1>13
  <2>2. PICK gone : /\ gone = [row[r] EXCEPT !.status = "voided", !.vouchers = {}] /\ row'[r] = gone
                    /\ gone.pair = 0 /\ gone.status = "voided" /\ gone.bank = row[r].bank /\ gone.vouchers = {}
    BY <1>6, <1>9, <1>13
  <2>3. row' = [row EXCEPT ![r] = gone]
    BY <1>2, <1>7, <2>1, <2>2 DEF TypeOK
  <2>4. OwnBooks(gone)
    BY <2>2 DEF OwnBooks
  <2>5. ASSUME NEW b \in Banks PROVE balance'[b] = balance[b] + Amount * (RowMove(gone, b) - RowMove(row[r], b))
    <3>1. RowMove(gone, b) = 0
      BY <2>2 DEF RowMove
    <3>2. CASE row[r].bank = b
      <4>1. (CHOOSE q \in sides : row[q].bank = b) = r
        BY <2>1, <3>2
      <4>2. balance'[b] = balance[b] + Back(r)
        BY <1>8, <2>1, <3>2, <4>1
      <4> QED BY <1>6, <1>11, <3>1, <3>2, <4>2
    <3>3. CASE row[r].bank # b
      <4>1. balance'[b] = balance[b]
        BY <1>8, <2>1, <3>3
      <4>2. RowMove(row[r], b) = 0
        BY <1>6, <1>11, <3>3
      <4>3. balance[b] + Amount * (0 - 0) = balance[b]
        BY <1>12, NobodyMoves
      <4> QED BY <3>1, <4>1, <4>2, <4>3
    <3> QED BY <3>2, <3>3
  <2> QED BY <1>1, <1>13, <2>2, <2>3, <2>4, <2>5, RowBooked
<1>14. CASE row[r].pair # 0
  <2>1. PICK p \in Rows : p = row[r].pair
    BY <1>6, <1>14
  <2>2. sides = {p, r} /\ p # r /\ row[p].pair = r /\ row[p].bank # row[r].bank
    BY <1>5, <1>6, <1>14, <2>1 DEF RowInv
  <2>3. PICK in : row'[r] = in /\ in.pair = p /\ in.status = "voided" /\ in.vouchers = {}
    BY <1>9, <2>1, <2>2
  <2>4. PICK out : row'[p] = out /\ out.pair = r /\ out.status = "voided" /\ out.vouchers = {}
    BY <1>9, <2>1, <2>2
  <2>5. RowBooks(p)' /\ RowBooks(r)'
    <3>1. p # 0 /\ r # 0
      BY ConstantFacts
    <3> QED BY <2>3, <2>4, <3>1 DEF RowBooks, PairBooks
  <2>6. ASSUME NEW b \in Banks
        PROVE  SidesMove(p, r, b)
    <3>1. RowMove(row'[p], b) = 0 /\ RowMove(row'[r], b) = 0
      BY <2>3, <2>4 DEF RowMove
    <3>2. PICK m \in Int, n \in Int : m = RowMove(row[p], b) /\ n = RowMove(row[r], b)
      BY MoveTypes
    <3>3. CASE row[p].bank = b
      <4>1. (CHOOSE q \in sides : row[q].bank = b) = p
        BY <2>2, <3>3
      <4>2. balance'[b] = balance[b] + Back(p)
        BY <1>8, <2>2, <3>3, <4>1
      <4>3. Back(p) = Amount * (0 - m) /\ n = 0
        BY <1>11, <2>2, <3>2, <3>3
      <4>4. 0 + 0 - m - n = 0 - m
        BY <4>3
      <4> QED BY <3>1, <3>2, <4>2, <4>3, <4>4 DEF SidesMove
    <3>4. CASE row[r].bank = b
      <4>1. (CHOOSE q \in sides : row[q].bank = b) = r
        BY <2>2, <3>4
      <4>2. balance'[b] = balance[b] + Back(r)
        BY <1>8, <2>2, <3>4, <4>1
      <4>3. Back(r) = Amount * (0 - n) /\ m = 0
        BY <1>11, <2>2, <3>2, <3>4
      <4>4. 0 + 0 - m - n = 0 - n
        BY <4>3
      <4> QED BY <3>1, <3>2, <4>2, <4>3, <4>4 DEF SidesMove
    <3>5. CASE row[p].bank # b /\ row[r].bank # b
      <4>1. balance'[b] = balance[b]
        BY <1>8, <2>2, <3>5
      <4>2. m = 0 /\ n = 0
        BY <1>11, <2>2, <3>2, <3>5
      <4>3. 0 + 0 - m - n = 0 - 0
        BY <4>2
      <4>4. balance[b] + Amount * (0 - 0) = balance[b]
        BY <1>12, NobodyMoves
      <4> QED BY <3>1, <3>2, <4>1, <4>3, <4>4 DEF SidesMove
    <3> QED BY <3>3, <3>4, <3>5
  <2>7. \A q \in Rows \ {p, r} : row'[q] = row[q]
    BY <1>10, <2>2
  <2>8. row[p].pair \in {0, r} /\ row[r].pair \in {0, p} /\ row'[p].pair = r /\ row'[r].pair = p
    BY <2>1, <2>2, <2>3, <2>4
  <2> QED BY <1>1, <2>2, <2>5, <2>6, <2>7, <2>8, SidesBooked
<1> QED BY <1>13, <1>14

-----------------------------------------------------------------------------
(* The steps of a cheque, and every step.                                   *)

(* A cheque that moves no money.                                            *)
LEMMA ChequeStaysBooked ==
    ASSUME SettlementAssumption, IInv, BooksInv, NEW c \in Cheques, NEW me, cheque' = [cheque EXCEPT ![c] = me],
           row' = row, balance' = balance, me.vouchers \in ChequeSets(me.type, me.status, me.bank),
           \A b \in Banks : ChequeMove(me, b) = ChequeMove(cheque[c], b)
    PROVE  BooksInv'
<1>1. ASSUME NEW b \in Banks PROVE balance'[b] = balance[b] + Amount * (ChequeMove(me, b) - ChequeMove(cheque[c], b))
  <2>1. ChequeMove(me, b) = ChequeMove(cheque[c], b)
    OBVIOUS
  <2>2. balance[b] \in Int
    BY BalanceTypes DEF IInv
  <2>3. PICK n \in Int : n = ChequeMove(me, b)
    BY MoveTypes
  <2>4. Amount * (n - n) = 0
    BY NobodyMoves
  <2> QED BY <2>1, <2>2, <2>3, <2>4
<1> QED BY <1>1, ChequeBooked

LEMMA BooksOfCheque ==
    ASSUME SettlementAssumption, IInv, BooksInv, NEW s \in Sessions, Cheque(s)
    PROVE  BooksInv'
<1>1. Ready(s, "cheque") /\ row' = row /\ balance' = balance
  BY DEF Cheque
<1>2. tx[s].op = "cheque" /\ Own(s)
  BY <1>1, ReadyFacts
<1>3. PICK type \in {"received", "paid"} : type = tx[s].want
  BY <1>2 DEF Own
<1>4. PICK me : me = [status |-> IF type = "received" THEN "received" ELSE "in_treasury", type |-> type, bank |-> tx[s].bank,
                      parts |-> tx[s].parts,
                      vouchers |-> IF type = "received" THEN {<<Hand, Party>>} ELSE {<<Party, Payable>>}]
  OBVIOUS
<1>5. PICK c \in NextCheque : cheque' = [cheque EXCEPT ![c] = me]
  BY <1>3, <1>4 DEF Cheque
<1>6. c \in Cheques /\ cheque[c].status = "none"
  BY <1>5 DEF NextCheque
<1>7. /\ me.type = type /\ me.status = IF type = "received" THEN "received" ELSE "in_treasury"
      /\ me.vouchers = IF type = "received" THEN {Taken} ELSE {Issued}
  BY <1>4 DEF Taken, Issued
<1>8. me.vouchers \in ChequeSets(me.type, me.status, me.bank)
  BY <1>3, <1>7 DEF ChequeSets
<1>9. \A b \in Banks : ChequeMove(me, b) = ChequeMove(cheque[c], b)
  BY <1>6, <1>7 DEF ChequeMove
<1> QED BY <1>1, <1>5, <1>6, <1>8, <1>9, ChequeStaysBooked

LEMMA BooksOfReplaceCheque ==
    ASSUME SettlementAssumption, IInv, BooksInv, NEW s \in Sessions, ReplaceCheque(s)
    PROVE  BooksInv'
<1>1. Ready(s, "replaceCheque") /\ row' = row /\ balance' = balance
  BY DEF ReplaceCheque
<1>2. TypeOK /\ tx[s].op = "replaceCheque" /\ Own(s)
  BY <1>1, ReadyFacts
<1>3. PICK c \in Cheques : c = tx[s].id
  BY <1>2 DEF Own
<1>4. PICK me : me = [cheque[c] EXCEPT !.parts = tx[s].parts]
  OBVIOUS
<1>5. cheque' = [cheque EXCEPT ![c] = me] /\ cheque[c] \in ChequeRecords
  BY <1>2, <1>3, <1>4 DEF ReplaceCheque, TypeOK
<1>6. me.status = cheque[c].status /\ me.type = cheque[c].type /\ me.bank = cheque[c].bank /\ me.vouchers = cheque[c].vouchers
  BY <1>4, <1>5 DEF ChequeRecords
<1>7. me.vouchers \in ChequeSets(me.type, me.status, me.bank)
  BY <1>6 DEF BooksInv, ChequeBooks
<1>8. \A b \in Banks : ChequeMove(me, b) = ChequeMove(cheque[c], b)
  BY <1>6 DEF ChequeMove
<1> QED BY <1>1, <1>5, <1>7, <1>8, ChequeStaysBooked

LEMMA BooksOfDeleteCheque ==
    ASSUME SettlementAssumption, IInv, BooksInv, NEW s \in Sessions, DeleteCheque(s)
    PROVE  BooksInv'
<1>1. Ready(s, "deleteCheque") /\ row' = row /\ balance' = balance
  BY DEF DeleteCheque
<1>2. TypeOK /\ tx[s].op = "deleteCheque" /\ Own(s) /\ Claims(s)
  BY <1>1, ReadyFacts
<1>3. PICK c \in Cheques : c = tx[s].id
  BY <1>2 DEF Own
<1>4. PICK me : me = [cheque[c] EXCEPT !.status = "deleted", !.vouchers = {}]
  OBVIOUS
<1>5. cheque' = [cheque EXCEPT ![c] = me] /\ cheque[c] \in ChequeRecords /\ cheque[c].status # "passed"
  BY <1>2, <1>3, <1>4 DEF DeleteCheque, TypeOK, Claims
<1>6. me.status = "deleted" /\ me.vouchers = {}
  BY <1>4, <1>5 DEF ChequeRecords
<1>7. me.vouchers \in ChequeSets(me.type, me.status, me.bank)
  BY <1>6 DEF ChequeSets
<1>8. \A b \in Banks : ChequeMove(me, b) = ChequeMove(cheque[c], b)
  BY <1>5, <1>6 DEF ChequeMove
<1> QED BY <1>1, <1>5, <1>7, <1>8, ChequeStaysBooked

(* The voucher of a step takes the set of one state to the set of the next. *)
LEMMA StepSets ==
    ASSUME NEW c \in Cheques, cheque[c] \in ChequeRecords, ChequeBooks(c), NEW want, NEW b, NEW bank,
           want \in chequeNextStatuses(c), want = "passed" => bank = b
    PROVE  cheque[c].vouchers \cup StepVouchers(c, want, b) \in ChequeSets(cheque[c].type, want, bank)
<1>0. PICK type \in {"received", "paid"} : type = cheque[c].type
  BY DEF ChequeRecords
<1>a. PICK status, old, V : status = cheque[c].status /\ old = cheque[c].bank /\ V = cheque[c].vouchers
  OBVIOUS
<1>1. type = cheque[c].type /\ status = cheque[c].status /\ old = cheque[c].bank /\ V = cheque[c].vouchers
  BY <1>0, <1>a
<1>2. V \in ChequeSets(type, status, old)
  BY <1>1 DEF ChequeBooks
<1>3. PICK from : from = IF status = "in_collection" THEN Collection ELSE Hand
  OBVIOUS
<1> HIDE DEF Hand, Collection, Payable, Protest, Party, Creditors, Bank
<1>4. CASE type = "paid"
  <2>1. \/ status = "in_treasury" /\ want \in {"passed", "bounced"}
        \/ status = "bounced" /\ want = "returned"
    <3>1. \/ status \in {"received", "in_treasury"} /\ want \in {"passed", "bounced", "in_treasury"}
          \/ status = "in_collection" /\ want \in {"passed", "bounced"}
          \/ status = "bounced" /\ want = "returned"
      BY <1>1, <1>4 DEF chequeNextStatuses, FromHand
    <3>2. status # "received" /\ status # "in_collection"
      BY <1>2, <1>4 DEF ChequeSets
    <3>3. status = "in_treasury" => want # "in_treasury"
      BY <1>1, <1>4 DEF chequeNextStatuses, FromHand
    <3> QED BY <3>1, <3>2, <3>3
  <2>2. CASE status = "in_treasury" /\ want = "passed"
    <3>1. V = {Issued}
      BY <1>2, <1>4, <2>2 DEF ChequeSets
    <3>2. StepVouchers(c, want, b) = {<<Payable, Bank(b)>>}
      BY <1>1, <1>4, <2>2 DEF StepVouchers
    <3>3. ChequeSets(type, want, bank) = {{Issued, <<Payable, Bank(b)>>}}
      BY <1>4, <2>2 DEF ChequeSets
    <3> QED BY <1>1, <3>1, <3>2, <3>3
  <2>3. CASE status = "in_treasury" /\ want = "bounced"
    <3>1. V = {Issued}
      BY <1>2, <1>4, <2>3 DEF ChequeSets
    <3>2. StepVouchers(c, want, b) = {<<Payable, Party>>}
      BY <1>1, <1>4, <2>3 DEF StepVouchers
    <3>3. ChequeSets(type, want, bank) = {{Issued, <<Payable, Party>>}}
      BY <1>4, <2>3 DEF ChequeSets
    <3> QED BY <1>1, <3>1, <3>2, <3>3
  <2>4. CASE status = "bounced" /\ want = "returned"
    <3>1. StepVouchers(c, want, b) = {}
      BY <1>1, <1>4, <2>4 DEF StepVouchers
    <3>2. ChequeSets(type, want, bank) = ChequeSets(type, status, old)
      BY <1>4, <2>4 DEF ChequeSets
    <3> QED BY <1>1, <1>2, <3>1, <3>2
  <2> QED BY <2>1, <2>2, <2>3, <2>4
<1>5. CASE type = "received"
  <2>1. \/ status \in {"received", "in_treasury"} /\ want \in {"in_treasury", "in_collection", "passed", "bounced", "spent"}
        \/ status = "in_collection" /\ want \in {"passed", "bounced"}
        \/ status = "bounced" /\ want = "returned"
    BY <1>1, <1>5 DEF chequeNextStatuses, FromHand
  <2>2. CASE status \in {"received", "in_treasury"}
    <3>1. V = {Taken} /\ from = Hand
      BY <1>2, <1>3, <1>5, <2>2 DEF ChequeSets
    <3>2. CASE want = "in_treasury"
      <4>1. StepVouchers(c, want, b) = {} /\ ChequeSets(type, want, bank) = {{Taken}}
        BY <1>1, <1>5, <3>2 DEF StepVouchers, ChequeSets
      <4> QED BY <1>1, <3>1, <4>1
    <3>3. CASE want = "in_collection"
      <4>1. StepVouchers(c, want, b) = {Sent} /\ ChequeSets(type, want, bank) = {{Taken, Sent}}
        BY <1>1, <1>5, <3>3 DEF StepVouchers, ChequeSets, Sent
      <4> QED BY <1>1, <3>1, <4>1
    <3>4. CASE want = "passed"
      <4>1. StepVouchers(c, want, b) = {<<Bank(b), Hand>>}
        BY <1>1, <1>3, <1>5, <3>1, <3>4 DEF StepVouchers
      <4>2. {Taken, <<Bank(b), Hand>>} \in ChequeSets(type, want, bank)
        BY <1>5, <3>4 DEF ChequeSets
      <4> QED BY <1>1, <3>1, <4>1, <4>2
    <3>5. CASE want = "bounced"
      <4>1. StepVouchers(c, want, b) = {<<Protest, Hand>>}
        BY <1>1, <1>3, <1>5, <3>1, <3>5 DEF StepVouchers
      <4>2. {Taken, <<Protest, Hand>>} \in ChequeSets(type, want, bank)
        BY <1>5, <3>5 DEF ChequeSets
      <4> QED BY <1>1, <3>1, <4>1, <4>2
    <3>6. CASE want = "spent"
      <4>1. StepVouchers(c, want, b) = {<<Creditors, Hand>>} /\ ChequeSets(type, want, bank) = {{Taken, <<Creditors, Hand>>}}
        BY <1>1, <1>5, <3>6 DEF StepVouchers, ChequeSets
      <4> QED BY <1>1, <3>1, <4>1
    <3> QED BY <2>1, <2>2, <3>2, <3>3, <3>4, <3>5, <3>6
  <2>3. CASE status = "in_collection"
    <3>1. V = {Taken, Sent} /\ from = Collection
      BY <1>2, <1>3, <1>5, <2>3 DEF ChequeSets
    <3>2. CASE want = "passed"
      <4>1. StepVouchers(c, want, b) = {<<Bank(b), Collection>>}
        BY <1>1, <1>3, <1>5, <3>1, <3>2, <2>3 DEF StepVouchers
      <4>2. {Taken, Sent, <<Bank(b), Collection>>} \in ChequeSets(type, want, bank)
        BY <1>5, <3>2 DEF ChequeSets
      <4> QED BY <1>1, <3>1, <4>1, <4>2
    <3>3. CASE want = "bounced"
      <4>1. StepVouchers(c, want, b) = {<<Protest, Collection>>}
        BY <1>1, <1>3, <1>5, <3>1, <3>3, <2>3 DEF StepVouchers
      <4>2. {Taken, Sent, <<Protest, Collection>>} \in ChequeSets(type, want, bank)
        BY <1>5, <3>3 DEF ChequeSets
      <4> QED BY <1>1, <3>1, <4>1, <4>2
    <3> QED BY <2>1, <2>3, <3>2, <3>3
  <2>4. CASE status = "bounced" /\ want = "returned"
    <3>1. StepVouchers(c, want, b) = {<<Party, Protest>>}
      BY <1>1, <1>5, <2>4 DEF StepVouchers
    <3>2. V = {Taken, <<Protest, Hand>>} \/ V = {Taken, Sent, <<Protest, Collection>>}
      BY <1>2, <1>5, <2>4 DEF ChequeSets
    <3>3. ChequeSets(type, want, bank) = {{Taken, <<Protest, Hand>>, <<Party, Protest>>},
                                          {Taken, Sent, <<Protest, Collection>>, <<Party, Protest>>}}
      BY <1>5, <2>4 DEF ChequeSets
    <3> QED BY <1>1, <3>1, <3>2, <3>3
  <2> QED BY <2>1, <2>2, <2>3, <2>4
<1> QED BY <1>4, <1>5

LEMMA BooksOfStep ==
    ASSUME SettlementAssumption, IInv, BooksInv, NEW s \in Sessions, Step(s)
    PROVE  BooksInv'
<1>1. Ready(s, "step") /\ row' = row
  BY DEF Step
<1>2. TypeOK /\ tx[s].op = "step" /\ Own(s) /\ Claims(s)
  BY <1>1, ReadyFacts
<1>3. PICK c \in Cheques, want \in ChequeStatus, b \in Banks \cup {0} : c = tx[s].id /\ want = tx[s].want /\ b = tx[s].bank
  BY <1>2, SessionTypes DEF Own
<1>4. /\ cheque[c] \in ChequeRecords /\ ChequeBooks(c) /\ want \in chequeNextStatuses(c)
      /\ want = "passed" => b \in Banks /\ balance[b] + Clears(c) >= 0
  BY <1>2, <1>3 DEF Own, Claims, TypeOK, BooksInv
<1>5. PICK bank \in NextBanks(c, want, b) :
          cheque' = [cheque EXCEPT ![c].status = want, ![c].bank = bank, ![c].vouchers = @ \cup StepVouchers(c, want, b)]
  BY <1>3 DEF Step
<1>6. want = "passed" => bank = b /\ b # 0
  BY <1>4, <1>5, ConstantFacts DEF NextBanks
<1>7. PICK more : more = cheque[c].vouchers \cup StepVouchers(c, want, b)
  OBVIOUS
<1>8. PICK me : me = [cheque[c] EXCEPT !.status = want, !.bank = bank, !.vouchers = more]
  OBVIOUS
<1>9. cheque' = [cheque EXCEPT ![c] = me]
  BY <1>2, <1>5, <1>7, <1>8 DEF TypeOK
<1>10. me.status = want /\ me.bank = bank /\ me.type = cheque[c].type /\ me.vouchers = more
  BY <1>4, <1>8 DEF ChequeRecords
<1>11. me.vouchers \in ChequeSets(me.type, me.status, me.bank)
  <2>1. want = "passed" => bank = b
    BY <1>6
  <2>2. cheque[c].vouchers \cup StepVouchers(c, want, b) \in ChequeSets(cheque[c].type, want, bank)
    BY <1>4, <2>1, StepSets
  <2> QED BY <1>7, <1>10, <2>2
<1>12. cheque[c].status # "passed"
  BY <1>4 DEF chequeNextStatuses
<1>13. CASE want # "passed"
  <2>1. balance' = balance
    BY <1>3, <1>13 DEF Step
  <2>2. \A e \in Banks : ChequeMove(me, e) = ChequeMove(cheque[c], e)
    BY <1>10, <1>12, <1>13 DEF ChequeMove
  <2> QED BY <1>1, <1>9, <1>11, <2>1, <2>2, ChequeStaysBooked
<1>14. CASE want = "passed"
  <2>1. Amount \in Nat /\ b \in Banks /\ bank = b /\ \A e \in Banks : balance[e] \in Int
    BY <1>2, <1>4, <1>6, <1>14, BalanceTypes
  <2>2. PICK delta \in Int : delta = Clears(c)
    BY <2>1 DEF Clears
  <2>3. b \in BanksOf(s) /\ writeBankBalance(s, b, delta) /\ balance[b] + delta >= 0
    BY <1>2, <1>3, <1>4, <1>14, <2>2 DEF BanksOf, Step
  <2>4. balance'[b] = balance[b] + delta /\ \A a \in Banks \ {b} : balance'[a] = balance[a]
    BY <1>1, <2>2, <2>3, BalanceWritten
  <2>5. ASSUME NEW e \in Banks PROVE balance'[e] = balance[e] + Amount * (ChequeMove(me, e) - ChequeMove(cheque[c], e))
    <3>1. ChequeMove(cheque[c], e) = 0
      BY <1>12 DEF ChequeMove
    <3>2. ChequeMove(me, e) = IF e = b THEN (IF cheque[c].type = "received" THEN 1 ELSE 0 - 1) ELSE 0
      BY <1>10, <1>14, <2>1 DEF ChequeMove
    <3>3. Amount * (1 - 0) = Amount /\ Amount * ((0 - 1) - 0) = 0 - Amount /\ Amount * (0 - 0) = 0 /\ balance[e] + 0 = balance[e]
      BY <2>1
    <3>4. CASE e = b
      <4>1. balance'[e] = balance[e] + (IF cheque[c].type = "received" THEN Amount ELSE 0 - Amount)
        BY <2>2, <2>4, <3>4 DEF Clears
      <4> QED BY <3>1, <3>2, <3>3, <3>4, <4>1
    <3>5. CASE e # b
      BY <2>4, <3>1, <3>2, <3>3, <3>5
    <3> QED BY <3>4, <3>5
  <2> QED BY <1>1, <1>9, <1>11, <2>5, ChequeBooked
<1> QED BY <1>13, <1>14

(* Every step keeps the books.                                              *)
LEMMA NextBooks ==
    ASSUME SettlementAssumption, IInv, BooksInv, [Next]_vars
    PROVE  BooksInv'
<1>1. ASSUME UNCHANGED data PROVE BooksInv'
  BY <1>1, NothingBooked DEF data
<1>2. ASSUME NEW s \in Sessions, Begin(s) \/ Lock(s) \/ Check(s) \/ RollBack(s) PROVE UNCHANGED data
  BY <1>2, OnlyWritesWrite
<1>5. ASSUME NEW s \in Sessions, Write(s) PROVE BooksInv'
  <2>1. ASSUME Rewrite(s) \/ Return(s) \/ VoidDocument(s) PROVE BooksInv'
    BY <2>1, NothingBooked DEF Rewrite, Return, VoidDocument
  <2> QED BY <1>5, <2>1, BooksOfReceipt, BooksOfPayment, BooksOfTransfer, BooksOfVoid, BooksOfRelink, BooksOfReplace,
             BooksOfCheque, BooksOfStep, BooksOfReplaceCheque, BooksOfDeleteCheque DEF Write
<1>6. ASSUME NEW d \in scene.docs, VoidReturn(d) PROVE BooksInv'
  BY <1>6, NothingBooked DEF VoidReturn
<1>7. CASE UNCHANGED vars
  BY <1>1, <1>7 DEF vars
<1> QED BY <1>1, <1>2, <1>5, <1>6, <1>7 DEF Next

LEMMA InitBooks ==
    ASSUME SettlementAssumption, Init
    PROVE  BooksInv
<1>1. balance = [b \in Banks |-> Opening] /\ row = [r \in Rows |-> NoRow] /\ cheque = [c \in Cheques |-> NoCheque]
  BY DEF Init
<1>2. NoRow.status = "none" /\ NoRow.pair = 0 /\ NoRow.vouchers = {}
  BY DEF NoRow
<1>3. NoCheque.status = "none" /\ NoCheque.vouchers = {}
  BY DEF NoCheque
<1>4. IsFiniteSet(Rows) /\ IsFiniteSet(Cheques) /\ Amount \in Int /\ Opening \in Int
  BY DEF SettlementAssumption
<1>5. ASSUME NEW b \in Banks PROVE balance[b] = Opening + Amount * (RowMoves(row, b) + ChequeMoves(cheque, b))
  <2>1. PICK F : F = [r \in Rows |-> RowMove(row[r], b)]
    OBVIOUS
  <2>2. PICK G : G = [c \in Cheques |-> ChequeMove(cheque[c], b)]
    OBVIOUS
  <2>3. (\A r \in Rows : F[r] = 0) /\ (\A c \in Cheques : G[c] = 0)
    BY <1>1, <1>2, <1>3, <2>1, <2>2 DEF RowMove, ChequeMove
  <2>4. SumFunctionOnSet(F, Rows) = 0 /\ SumFunctionOnSet(G, Cheques) = 0
    <3>1. PICK none \in SUBSET Rows, nothing \in SUBSET Cheques : none = {} /\ nothing = {}
      OBVIOUS
    <3>1a. (\A r \in Rows : F[r] \in Int) /\ (\A r \in Rows \ none : F[r] = 0)
      BY <2>3
    <3>1b. (\A c \in Cheques : G[c] \in Int) /\ (\A c \in Cheques \ nothing : G[c] = 0)
      BY <2>3
    <3>2. SumFunctionOnSet(F, Rows) = SumFunctionOnSet(F, none)
      BY <1>4, <3>1a, SumWithout
    <3>3. SumFunctionOnSet(G, Cheques) = SumFunctionOnSet(G, nothing)
      BY <1>4, <3>1b, SumWithout
    <3> QED BY <3>1, <3>2, <3>3, SumOfNone
  <2>5. RowMoves(row, b) = 0 /\ ChequeMoves(cheque, b) = 0
    BY <2>1, <2>2, <2>4 DEF RowMoves, ChequeMoves
  <2>6. Opening + Amount * (0 + 0) = Opening
    BY <1>4
  <2> QED BY <1>1, <2>5, <2>6
<1>6. \A r \in Rows : RowBooks(r)
  BY <1>1, <1>2 DEF RowBooks, OwnBooks
<1>7. \A c \in Cheques : ChequeBooks(c)
  BY <1>1, <1>3 DEF ChequeBooks, ChequeSets
<1> QED BY <1>5, <1>6, <1>7 DEF BooksInv, MoneyInv

-----------------------------------------------------------------------------
(* What the books of a record come to on the accounts of the ledger.        *)

(* Two sums differ by the sum of the differences.                           *)
Differs(F, G, D, S) == \A x \in S : D[x] = F[x] - G[x]

LEMMA SumOfDifferences ==
    ASSUME NEW S, IsFiniteSet(S), NEW F, NEW G, NEW D, Integral(F, S), Integral(G, S), Differs(F, G, D, S)
    PROVE  SumFunctionOnSet(F, S) = SumFunctionOnSet(G, S) + SumFunctionOnSet(D, S)
<1> DEFINE Bad == {T \in SUBSET S : SumFunctionOnSet(F, T) # SumFunctionOnSet(G, T) + SumFunctionOnSet(D, T)}
<1>1. SUFFICES ASSUME Bad # {} PROVE FALSE
  OBVIOUS
<1>2. Bad \in SUBSET SUBSET S
  OBVIOUS
<1>3. PICK T \in Bad : \A U \in SUBSET T : U # T => U \notin Bad
  <2> HIDE DEF Bad
  <2> QED BY <1>1, <1>2, SmallestSet
<1>4. T \in SUBSET S /\ SumFunctionOnSet(F, T) # SumFunctionOnSet(G, T) + SumFunctionOnSet(D, T)
  OBVIOUS
<1>5. IsFiniteSet(T) /\ \A x \in T : F[x] \in Int /\ G[x] \in Int /\ D[x] \in Int /\ D[x] = F[x] - G[x]
  BY <1>4, FS_Subset DEF Integral, Differs
<1>6. T # {}
  BY <1>4, SumOfNone
<1>7. PICK x \in T : TRUE
  BY <1>6
<1>8. PICK U : U = T \ {x}
  OBVIOUS
<1>9. U \in SUBSET T /\ U # T /\ U \in SUBSET S
  BY <1>4, <1>7, <1>8
<1>10. SumFunctionOnSet(F, U) = SumFunctionOnSet(G, U) + SumFunctionOnSet(D, U)
  BY <1>3, <1>9
<1> HIDE DEF Bad
<1>11. /\ SumFunctionOnSet(F, T) = F[x] + SumFunctionOnSet(F, U)
       /\ SumFunctionOnSet(G, T) = G[x] + SumFunctionOnSet(G, U)
       /\ SumFunctionOnSet(D, T) = D[x] + SumFunctionOnSet(D, U)
  BY <1>5, <1>7, <1>8, SumOfOne
<1>12. SumFunctionOnSet(F, U) \in Int /\ SumFunctionOnSet(G, U) \in Int /\ SumFunctionOnSet(D, U) \in Int
  <2>1. IsFiniteSet(U) /\ \A y \in U : F[y] \in Int /\ G[y] \in Int /\ D[y] \in Int
    BY <1>5, <1>9, FS_Subset
  <2> QED BY <2>1, SumType
<1> QED BY <1>4, <1>5, <1>7, <1>10, <1>11, <1>12

(* What comes in opposite pairs sums up to nothing.                         *)
Opposed(D, T, pair) ==
    \A x \in T : D[x] = 0 \/ (pair[x] \in T /\ pair[x] # x /\ pair[pair[x]] = x /\ D[pair[x]] = 0 - D[x])

LEMMA SumOfOpposites ==
    ASSUME NEW S, IsFiniteSet(S), NEW D, NEW pair, Integral(D, S), Opposed(D, S, pair)
    PROVE  SumFunctionOnSet(D, S) = 0
<1> DEFINE Bad == {T \in SUBSET S : Opposed(D, T, pair) /\ SumFunctionOnSet(D, T) # 0}
<1>1. SUFFICES ASSUME Bad # {} PROVE FALSE
  OBVIOUS
<1>2. Bad \in SUBSET SUBSET S
  OBVIOUS
<1>3. PICK T \in Bad : \A U \in SUBSET T : U # T => U \notin Bad
  <2> HIDE DEF Bad
  <2> QED BY <1>1, <1>2, SmallestSet
<1>4. T \in SUBSET S /\ Opposed(D, T, pair) /\ SumFunctionOnSet(D, T) # 0
  OBVIOUS
<1>5. \A U \in SUBSET T : U # T /\ Opposed(D, U, pair) => SumFunctionOnSet(D, U) = 0
  BY <1>3
<1> HIDE DEF Bad
<1>6. IsFiniteSet(T) /\ \A x \in T : D[x] \in Int
  BY <1>4, FS_Subset DEF Integral
<1>7. T # {}
  BY <1>4, SumOfNone
<1>8. PICK x \in T : TRUE
  BY <1>7
<1>9. PICK U : U = T \ {x}
  OBVIOUS
<1>10. SumFunctionOnSet(D, T) = D[x] + SumFunctionOnSet(D, U)
  BY <1>6, <1>8, <1>9, SumOfOne
<1>11. CASE D[x] = 0
  <2>1. ASSUME NEW y \in U, D[y] # 0
        PROVE  pair[y] \in U /\ pair[y] # y /\ pair[pair[y]] = y /\ D[pair[y]] = 0 - D[y]
    <3>1. pair[y] \in T /\ pair[y] # y /\ pair[pair[y]] = y /\ D[pair[y]] = 0 - D[y] /\ D[y] \in Int
      BY <1>4, <1>6, <1>9, <2>1 DEF Opposed
    <3>2. pair[y] # x
      BY <1>11, <2>1, <3>1
    <3> QED BY <1>9, <3>1, <3>2
  <2>2. Opposed(D, U, pair)
    BY <2>1 DEF Opposed
  <2>3. SumFunctionOnSet(D, U) = 0
    BY <1>5, <1>8, <1>9, <2>2
  <2> QED BY <1>4, <1>10, <1>11, <2>3
<1>12. CASE D[x] # 0
  <2>1. PICK z : z = pair[x]
    OBVIOUS
  <2>2. z \in U /\ z # x /\ pair[z] = x /\ D[z] = 0 - D[x] /\ D[x] \in Int
    BY <1>4, <1>6, <1>8, <1>9, <1>12, <2>1 DEF Opposed
  <2>3. PICK W : W = U \ {z}
    OBVIOUS
  <2>4. IsFiniteSet(U) /\ (\A y \in U : D[y] \in Int) /\ U \in SUBSET T
    BY <1>6, <1>9, FS_Subset
  <2>5. SumFunctionOnSet(D, U) = D[z] + SumFunctionOnSet(D, W)
    BY <2>2, <2>3, <2>4, SumOfOne
  <2>6. ASSUME NEW y \in W, D[y] # 0
        PROVE  pair[y] \in W /\ pair[y] # y /\ pair[pair[y]] = y /\ D[pair[y]] = 0 - D[y]
    <3>1. y \in T /\ y # x /\ y # z
      BY <1>9, <2>3
    <3>2. pair[y] \in T /\ pair[y] # y /\ pair[pair[y]] = y /\ D[pair[y]] = 0 - D[y]
      BY <1>4, <2>6, <3>1 DEF Opposed
    <3>3. pair[y] # x /\ pair[y] # z
      BY <2>1, <2>2, <3>1, <3>2
    <3> QED BY <1>9, <2>3, <3>2, <3>3
  <2>7. Opposed(D, W, pair)
    BY <2>6 DEF Opposed
  <2>8. SumFunctionOnSet(D, W) = 0
    BY <1>5, <1>8, <1>9, <2>3, <2>7
  <2> QED BY <1>4, <1>10, <2>2, <2>5, <2>8
<1> QED BY <1>11, <1>12

(* What a voucher and what a set of vouchers post on the accounts.          *)
EffectsAre(v, hand, collection, protest, payable, bank, n) ==
    /\ Sides(v, Hand) = hand
    /\ Sides(v, Collection) = collection
    /\ Sides(v, Protest) = protest
    /\ Sides(v, Payable) = payable
    /\ \A b : Sides(v, Bank(b)) = IF b = bank THEN n ELSE 0

PostsAre(V, hand, collection, protest, payable, bank, n) ==
    /\ Posted(V, Hand) = hand
    /\ Posted(V, Collection) = collection
    /\ Posted(V, Protest) = protest
    /\ Posted(V, Payable) = payable
    /\ \A b : Posted(V, Bank(b)) = IF b = bank THEN n ELSE 0

(* The account of a bank is none of the others.                             *)
LEMMA BankDiffers ==
    \A b : /\ Bank(b) # Hand /\ Bank(b) # Collection /\ Bank(b) # Payable /\ Bank(b) # Protest /\ Bank(b) # Party
           /\ Bank(b) # Creditors
BY AccountsDiffer DEF Names

LEMMA SidesAre ==
    ASSUME NEW x, NEW y
    PROVE  /\ \A a : x = a /\ y # a => Sides(<<x, y>>, a) = 1
           /\ \A a : x # a /\ y = a => Sides(<<x, y>>, a) = 0 - 1
           /\ \A a : x # a /\ y # a => Sides(<<x, y>>, a) = 0
BY DEF Sides

LEMMA EffectsOf ==
    ASSUME NEW bank
    PROVE  /\ EffectsAre(<<Bank(bank), Party>>, 0, 0, 0, 0, bank, 1)
           /\ EffectsAre(<<Party, Bank(bank)>>, 0, 0, 0, 0, bank, 0 - 1)
           /\ EffectsAre(<<Bank(bank), Hand>>, 0 - 1, 0, 0, 0, bank, 1)
           /\ EffectsAre(<<Bank(bank), Collection>>, 0, 0 - 1, 0, 0, bank, 1)
           /\ EffectsAre(<<Payable, Bank(bank)>>, 0, 0, 0, 1, bank, 0 - 1)
           /\ EffectsAre(Taken, 1, 0, 0, 0, bank, 0)
           /\ EffectsAre(Sent, 0 - 1, 1, 0, 0, bank, 0)
           /\ EffectsAre(Issued, 0, 0, 0, 0 - 1, bank, 0)
           /\ EffectsAre(<<Payable, Party>>, 0, 0, 0, 1, bank, 0)
           /\ EffectsAre(<<Protest, Hand>>, 0 - 1, 0, 1, 0, bank, 0)
           /\ EffectsAre(<<Protest, Collection>>, 0, 0 - 1, 1, 0, bank, 0)
           /\ EffectsAre(<<Party, Protest>>, 0, 0, 0 - 1, 0, bank, 0)
           /\ EffectsAre(<<Creditors, Hand>>, 0 - 1, 0, 0, 0, bank, 0)
<1>1. \A b, c : Bank(b) = Bank(c) => b = c
  BY AccountsDiffer
<1>2. EffectsAre(<<Bank(bank), Party>>, 0, 0, 0, 0, bank, 1)
  BY <1>1, SidesAre, AccountsDiffer, BankDiffers DEF EffectsAre
<1>3. EffectsAre(<<Party, Bank(bank)>>, 0, 0, 0, 0, bank, 0 - 1)
  BY <1>1, SidesAre, AccountsDiffer, BankDiffers DEF EffectsAre
<1>4. EffectsAre(<<Bank(bank), Hand>>, 0 - 1, 0, 0, 0, bank, 1)
  BY <1>1, SidesAre, AccountsDiffer, BankDiffers DEF EffectsAre
<1>5. EffectsAre(<<Bank(bank), Collection>>, 0, 0 - 1, 0, 0, bank, 1)
  BY <1>1, SidesAre, AccountsDiffer, BankDiffers DEF EffectsAre
<1>6. EffectsAre(<<Payable, Bank(bank)>>, 0, 0, 0, 1, bank, 0 - 1)
  BY <1>1, SidesAre, AccountsDiffer, BankDiffers DEF EffectsAre
<1>7. EffectsAre(Taken, 1, 0, 0, 0, bank, 0)
  BY SidesAre, AccountsDiffer, BankDiffers DEF EffectsAre, Taken
<1>8. EffectsAre(Sent, 0 - 1, 1, 0, 0, bank, 0)
  BY SidesAre, AccountsDiffer, BankDiffers DEF EffectsAre, Sent
<1>9. EffectsAre(Issued, 0, 0, 0, 0 - 1, bank, 0)
  BY SidesAre, AccountsDiffer, BankDiffers DEF EffectsAre, Issued
<1>10. EffectsAre(<<Payable, Party>>, 0, 0, 0, 1, bank, 0)
  BY SidesAre, AccountsDiffer, BankDiffers DEF EffectsAre
<1>11. EffectsAre(<<Protest, Hand>>, 0 - 1, 0, 1, 0, bank, 0)
  BY SidesAre, AccountsDiffer, BankDiffers DEF EffectsAre
<1>12. EffectsAre(<<Protest, Collection>>, 0, 0 - 1, 1, 0, bank, 0)
  BY SidesAre, AccountsDiffer, BankDiffers DEF EffectsAre
<1>13. EffectsAre(<<Party, Protest>>, 0, 0, 0 - 1, 0, bank, 0)
  BY SidesAre, AccountsDiffer, BankDiffers DEF EffectsAre
<1>14. EffectsAre(<<Creditors, Hand>>, 0 - 1, 0, 0, 0, bank, 0)
  BY SidesAre, AccountsDiffer, BankDiffers DEF EffectsAre
<1> QED BY <1>2, <1>3, <1>4, <1>5, <1>6, <1>7, <1>8, <1>9, <1>10, <1>11, <1>12, <1>13, <1>14

LEMMA PostsOf ==
    ASSUME NEW bank
    PROVE  /\ PostsAre({}, 0, 0, 0, 0, bank, 0)
           /\ PostsAre({<<Bank(bank), Party>>}, 0, 0, 0, 0, bank, 1)
           /\ PostsAre({<<Party, Bank(bank)>>}, 0, 0, 0, 0, bank, 0 - 1)
           /\ PostsAre({Taken}, 1, 0, 0, 0, bank, 0)
           /\ PostsAre({Issued}, 0, 0, 0, 0 - 1, bank, 0)
           /\ PostsAre({Issued, <<Payable, Bank(bank)>>}, 0, 0, 0, 0, bank, 0 - 1)
           /\ PostsAre({Issued, <<Payable, Party>>}, 0, 0, 0, 0, bank, 0)
           /\ PostsAre({Taken, Sent}, 0, 1, 0, 0, bank, 0)
           /\ PostsAre({Taken, <<Bank(bank), Hand>>}, 0, 0, 0, 0, bank, 1)
           /\ PostsAre({Taken, Sent, <<Bank(bank), Collection>>}, 0, 0, 0, 0, bank, 1)
           /\ PostsAre({Taken, <<Protest, Hand>>}, 0, 0, 1, 0, bank, 0)
           /\ PostsAre({Taken, Sent, <<Protest, Collection>>}, 0, 0, 1, 0, bank, 0)
           /\ PostsAre({Taken, <<Protest, Hand>>, <<Party, Protest>>}, 0, 0, 0, 0, bank, 0)
           /\ PostsAre({Taken, Sent, <<Protest, Collection>>, <<Party, Protest>>}, 0, 0, 0, 0, bank, 0)
           /\ PostsAre({Taken, <<Creditors, Hand>>}, 0, 0, 0, 0, bank, 0)
<1>1. PostsAre({}, 0, 0, 0, 0, bank, 0)
  BY NothingPosted DEF PostsAre
<1>2. PostsAre({<<Bank(bank), Party>>}, 0, 0, 0, 0, bank, 1)
  <2>2. \A a : Posted({<<Bank(bank), Party>>}, a) = Sides(<<Bank(bank), Party>>, a)
    BY PostedOne
  <2>3. EffectsAre(<<Bank(bank), Party>>, 0, 0, 0, 0, bank, 1)
    BY EffectsOf
  <2> QED BY <2>2, <2>3 DEF EffectsAre, PostsAre
<1>3. PostsAre({<<Party, Bank(bank)>>}, 0, 0, 0, 0, bank, 0 - 1)
  <2>2. \A a : Posted({<<Party, Bank(bank)>>}, a) = Sides(<<Party, Bank(bank)>>, a)
    BY PostedOne
  <2>3. EffectsAre(<<Party, Bank(bank)>>, 0, 0, 0, 0, bank, 0 - 1)
    BY EffectsOf
  <2> QED BY <2>2, <2>3 DEF EffectsAre, PostsAre
<1>4. PostsAre({Taken}, 1, 0, 0, 0, bank, 0)
  <2>2. \A a : Posted({Taken}, a) = Sides(Taken, a)
    BY PostedOne
  <2>3. EffectsAre(Taken, 1, 0, 0, 0, bank, 0)
    BY EffectsOf
  <2> QED BY <2>2, <2>3 DEF EffectsAre, PostsAre
<1>5. PostsAre({Issued}, 0, 0, 0, 0 - 1, bank, 0)
  <2>2. \A a : Posted({Issued}, a) = Sides(Issued, a)
    BY PostedOne
  <2>3. EffectsAre(Issued, 0, 0, 0, 0 - 1, bank, 0)
    BY EffectsOf
  <2> QED BY <2>2, <2>3 DEF EffectsAre, PostsAre
<1>6. PostsAre({Issued, <<Payable, Bank(bank)>>}, 0, 0, 0, 0, bank, 0 - 1)
  <2>1. Issued # <<Payable, Bank(bank)>>
    BY AccountsDiffer, BankDiffers DEF Taken, Sent, Issued
  <2>2. \A a : Posted({Issued, <<Payable, Bank(bank)>>}, a) = Sides(Issued, a) + Sides(<<Payable, Bank(bank)>>, a)
    BY <2>1, PostedTwo
  <2>3. /\ EffectsAre(Issued, 0, 0, 0, 0 - 1, bank, 0)
        /\ EffectsAre(<<Payable, Bank(bank)>>, 0, 0, 0, 1, bank, 0 - 1)
    BY EffectsOf
  <2> QED BY <2>2, <2>3 DEF EffectsAre, PostsAre
<1>7. PostsAre({Issued, <<Payable, Party>>}, 0, 0, 0, 0, bank, 0)
  <2>1. Issued # <<Payable, Party>>
    BY AccountsDiffer, BankDiffers DEF Taken, Sent, Issued
  <2>2. \A a : Posted({Issued, <<Payable, Party>>}, a) = Sides(Issued, a) + Sides(<<Payable, Party>>, a)
    BY <2>1, PostedTwo
  <2>3. /\ EffectsAre(Issued, 0, 0, 0, 0 - 1, bank, 0)
        /\ EffectsAre(<<Payable, Party>>, 0, 0, 0, 1, bank, 0)
    BY EffectsOf
  <2> QED BY <2>2, <2>3 DEF EffectsAre, PostsAre
<1>8. PostsAre({Taken, Sent}, 0, 1, 0, 0, bank, 0)
  <2>1. Taken # Sent
    BY AccountsDiffer, BankDiffers DEF Taken, Sent, Issued
  <2>2. \A a : Posted({Taken, Sent}, a) = Sides(Taken, a) + Sides(Sent, a)
    BY <2>1, PostedTwo
  <2>3. /\ EffectsAre(Taken, 1, 0, 0, 0, bank, 0)
        /\ EffectsAre(Sent, 0 - 1, 1, 0, 0, bank, 0)
    BY EffectsOf
  <2> QED BY <2>2, <2>3 DEF EffectsAre, PostsAre
<1>9. PostsAre({Taken, <<Bank(bank), Hand>>}, 0, 0, 0, 0, bank, 1)
  <2>1. Taken # <<Bank(bank), Hand>>
    BY AccountsDiffer, BankDiffers DEF Taken, Sent, Issued
  <2>2. \A a : Posted({Taken, <<Bank(bank), Hand>>}, a) = Sides(Taken, a) + Sides(<<Bank(bank), Hand>>, a)
    BY <2>1, PostedTwo
  <2>3. /\ EffectsAre(Taken, 1, 0, 0, 0, bank, 0)
        /\ EffectsAre(<<Bank(bank), Hand>>, 0 - 1, 0, 0, 0, bank, 1)
    BY EffectsOf
  <2> QED BY <2>2, <2>3 DEF EffectsAre, PostsAre
<1>10. PostsAre({Taken, Sent, <<Bank(bank), Collection>>}, 0, 0, 0, 0, bank, 1)
  <2>1. Taken # Sent /\ Taken # <<Bank(bank), Collection>> /\ Sent # <<Bank(bank), Collection>>
    BY AccountsDiffer, BankDiffers DEF Taken, Sent, Issued
  <2>2. \A a : Posted({Taken, Sent, <<Bank(bank), Collection>>}, a) = Sides(Taken, a) + Sides(Sent, a) + Sides(<<Bank(bank), Collection>>, a)
    BY <2>1, PostedThree
  <2>3. /\ EffectsAre(Taken, 1, 0, 0, 0, bank, 0)
        /\ EffectsAre(Sent, 0 - 1, 1, 0, 0, bank, 0)
        /\ EffectsAre(<<Bank(bank), Collection>>, 0, 0 - 1, 0, 0, bank, 1)
    BY EffectsOf
  <2> QED BY <2>2, <2>3 DEF EffectsAre, PostsAre
<1>11. PostsAre({Taken, <<Protest, Hand>>}, 0, 0, 1, 0, bank, 0)
  <2>1. Taken # <<Protest, Hand>>
    BY AccountsDiffer, BankDiffers DEF Taken, Sent, Issued
  <2>2. \A a : Posted({Taken, <<Protest, Hand>>}, a) = Sides(Taken, a) + Sides(<<Protest, Hand>>, a)
    BY <2>1, PostedTwo
  <2>3. /\ EffectsAre(Taken, 1, 0, 0, 0, bank, 0)
        /\ EffectsAre(<<Protest, Hand>>, 0 - 1, 0, 1, 0, bank, 0)
    BY EffectsOf
  <2> QED BY <2>2, <2>3 DEF EffectsAre, PostsAre
<1>12. PostsAre({Taken, Sent, <<Protest, Collection>>}, 0, 0, 1, 0, bank, 0)
  <2>1. Taken # Sent /\ Taken # <<Protest, Collection>> /\ Sent # <<Protest, Collection>>
    BY AccountsDiffer, BankDiffers DEF Taken, Sent, Issued
  <2>2. \A a : Posted({Taken, Sent, <<Protest, Collection>>}, a) = Sides(Taken, a) + Sides(Sent, a) + Sides(<<Protest, Collection>>, a)
    BY <2>1, PostedThree
  <2>3. /\ EffectsAre(Taken, 1, 0, 0, 0, bank, 0)
        /\ EffectsAre(Sent, 0 - 1, 1, 0, 0, bank, 0)
        /\ EffectsAre(<<Protest, Collection>>, 0, 0 - 1, 1, 0, bank, 0)
    BY EffectsOf
  <2> QED BY <2>2, <2>3 DEF EffectsAre, PostsAre
<1>13. PostsAre({Taken, <<Protest, Hand>>, <<Party, Protest>>}, 0, 0, 0, 0, bank, 0)
  <2>1. Taken # <<Protest, Hand>> /\ Taken # <<Party, Protest>> /\ <<Protest, Hand>> # <<Party, Protest>>
    BY AccountsDiffer, BankDiffers DEF Taken, Sent, Issued
  <2>2. \A a : Posted({Taken, <<Protest, Hand>>, <<Party, Protest>>}, a) = Sides(Taken, a) + Sides(<<Protest, Hand>>, a) + Sides(<<Party, Protest>>, a)
    BY <2>1, PostedThree
  <2>3. /\ EffectsAre(Taken, 1, 0, 0, 0, bank, 0)
        /\ EffectsAre(<<Protest, Hand>>, 0 - 1, 0, 1, 0, bank, 0)
        /\ EffectsAre(<<Party, Protest>>, 0, 0, 0 - 1, 0, bank, 0)
    BY EffectsOf
  <2> QED BY <2>2, <2>3 DEF EffectsAre, PostsAre
<1>14. PostsAre({Taken, Sent, <<Protest, Collection>>, <<Party, Protest>>}, 0, 0, 0, 0, bank, 0)
  <2>1. Taken # Sent /\ Taken # <<Protest, Collection>> /\ Sent # <<Protest, Collection>> /\ Taken # <<Party, Protest>> /\ Sent # <<Party, Protest>> /\ <<Protest, Collection>> # <<Party, Protest>>
    BY AccountsDiffer, BankDiffers DEF Taken, Sent, Issued
  <2>2. \A a : Posted({Taken, Sent, <<Protest, Collection>>, <<Party, Protest>>}, a) = Sides(Taken, a) + Sides(Sent, a) + Sides(<<Protest, Collection>>, a) + Sides(<<Party, Protest>>, a)
    BY <2>1, PostedFour
  <2>3. /\ EffectsAre(Taken, 1, 0, 0, 0, bank, 0)
        /\ EffectsAre(Sent, 0 - 1, 1, 0, 0, bank, 0)
        /\ EffectsAre(<<Protest, Collection>>, 0, 0 - 1, 1, 0, bank, 0)
        /\ EffectsAre(<<Party, Protest>>, 0, 0, 0 - 1, 0, bank, 0)
    BY EffectsOf
  <2> QED BY <2>2, <2>3 DEF EffectsAre, PostsAre
<1>15. PostsAre({Taken, <<Creditors, Hand>>}, 0, 0, 0, 0, bank, 0)
  <2>1. Taken # <<Creditors, Hand>>
    BY AccountsDiffer, BankDiffers DEF Taken, Sent, Issued
  <2>2. \A a : Posted({Taken, <<Creditors, Hand>>}, a) = Sides(Taken, a) + Sides(<<Creditors, Hand>>, a)
    BY <2>1, PostedTwo
  <2>3. /\ EffectsAre(Taken, 1, 0, 0, 0, bank, 0)
        /\ EffectsAre(<<Creditors, Hand>>, 0 - 1, 0, 0, 0, bank, 0)
    BY EffectsOf
  <2> QED BY <2>2, <2>3 DEF EffectsAre, PostsAre
<1> QED BY <1>1, <1>2, <1>3, <1>4, <1>5, <1>6, <1>7, <1>8, <1>9, <1>10, <1>11, <1>12, <1>13, <1>14, <1>15

(* A cheque posts 1 on the account of its state, and on its bank's when it  *)
(* has cleared.                                                             *)

LEMMA ChequePosts ==
    ASSUME NEW type \in {"received", "paid"}, NEW status \in ChequeStatus \cup {"none", "deleted"}, NEW bank,
           NEW V \in ChequeSets(type, status, bank)
    PROVE  PostsAre(V, IF type = "received" /\ status \in {"received", "in_treasury"} THEN 1 ELSE 0,
                       IF type = "received" /\ status \in {"in_collection"} THEN 1 ELSE 0,
                       IF type = "received" /\ status \in {"bounced"} THEN 1 ELSE 0,
                       IF type = "paid" /\ status \in {"in_treasury"} THEN 0 - 1 ELSE 0, bank,
                       IF status = "passed" THEN (IF type = "received" THEN 1 ELSE 0 - 1) ELSE 0)
<1>1. CASE status \in {"none", "deleted"}
  <2>1. V = {}
    BY <1>1 DEF ChequeSets
  <2>2. PostsAre({}, 0, 0, 0, 0, bank, 0)
    BY PostsOf
  <2> QED BY <1>1, <2>1, <2>2
<1>2. CASE type = "paid" /\ status \notin {"none", "deleted"}
  <2>1. \/ status = "in_treasury" /\ V = {Issued}
        \/ status = "passed" /\ V = {Issued, <<Payable, Bank(bank)>>}
        \/ status \in {"bounced", "returned"} /\ V = {Issued, <<Payable, Party>>}
    <3> HIDE DEF Hand, Collection, Payable, Protest, Party, Creditors, Bank
    <3> QED BY <1>2 DEF ChequeSets, ChequeStatus
  <2>2. PostsAre({Issued}, 0, 0, 0, 0 - 1, bank, 0)
    BY PostsOf
  <2>3. PostsAre({Issued, <<Payable, Bank(bank)>>}, 0, 0, 0, 0, bank, 0 - 1)
    BY PostsOf
  <2>4. PostsAre({Issued, <<Payable, Party>>}, 0, 0, 0, 0, bank, 0)
    BY PostsOf
  <2>5. CASE status = "in_treasury" /\ V = {Issued}
    BY <1>2, <2>2, <2>5
  <2>6. CASE status = "passed" /\ V = {Issued, <<Payable, Bank(bank)>>}
    BY <1>2, <2>3, <2>6
  <2>7. CASE status \in {"bounced", "returned"} /\ V = {Issued, <<Payable, Party>>}
    BY <1>2, <2>4, <2>7
  <2> QED BY <2>1, <2>5, <2>6, <2>7
<1>3. CASE type = "received" /\ status \notin {"none", "deleted"}
  <2>1. CASE status \in {"received", "in_treasury"}
    <3>1. V = {Taken}
      BY <1>3, <2>1 DEF ChequeSets
    <3>2. PostsAre({Taken}, 1, 0, 0, 0, bank, 0)
      BY PostsOf
    <3> QED BY <1>3, <2>1, <3>1, <3>2
  <2>2. CASE status = "in_collection"
    <3>1. V = {Taken, Sent}
      BY <1>3, <2>2 DEF ChequeSets
    <3>2. PostsAre({Taken, Sent}, 0, 1, 0, 0, bank, 0)
      BY PostsOf
    <3> QED BY <1>3, <2>2, <3>1, <3>2
  <2>3. CASE status = "passed"
    <3>1. V = {Taken, <<Bank(bank), Hand>>} \/ V = {Taken, Sent, <<Bank(bank), Collection>>}
      BY <1>3, <2>3 DEF ChequeSets
    <3>2. PostsAre({Taken, <<Bank(bank), Hand>>}, 0, 0, 0, 0, bank, 1)
      BY PostsOf
    <3>3. PostsAre({Taken, Sent, <<Bank(bank), Collection>>}, 0, 0, 0, 0, bank, 1)
      BY PostsOf
    <3> QED BY <1>3, <2>3, <3>1, <3>2, <3>3
  <2>4. CASE status = "bounced"
    <3>1. V = {Taken, <<Protest, Hand>>} \/ V = {Taken, Sent, <<Protest, Collection>>}
      BY <1>3, <2>4 DEF ChequeSets
    <3>2. PostsAre({Taken, <<Protest, Hand>>}, 0, 0, 1, 0, bank, 0)
      BY PostsOf
    <3>3. PostsAre({Taken, Sent, <<Protest, Collection>>}, 0, 0, 1, 0, bank, 0)
      BY PostsOf
    <3> QED BY <1>3, <2>4, <3>1, <3>2, <3>3
  <2>5. CASE status = "returned"
    <3>1. V = {Taken, <<Protest, Hand>>, <<Party, Protest>>} \/ V = {Taken, Sent, <<Protest, Collection>>, <<Party, Protest>>}
      BY <1>3, <2>5 DEF ChequeSets
    <3>2. PostsAre({Taken, <<Protest, Hand>>, <<Party, Protest>>}, 0, 0, 0, 0, bank, 0)
      BY PostsOf
    <3>3. PostsAre({Taken, Sent, <<Protest, Collection>>, <<Party, Protest>>}, 0, 0, 0, 0, bank, 0)
      BY PostsOf
    <3> QED BY <1>3, <2>5, <3>1, <3>2, <3>3
  <2>6. CASE status = "spent"
    <3>1. V = {Taken, <<Creditors, Hand>>}
      BY <1>3, <2>6 DEF ChequeSets
    <3>2. PostsAre({Taken, <<Creditors, Hand>>}, 0, 0, 0, 0, bank, 0)
      BY PostsOf
    <3> QED BY <1>3, <2>6, <3>1, <3>2
  <2> QED BY <1>3, <2>1, <2>2, <2>3, <2>4, <2>5, <2>6 DEF ChequeStatus
<1> QED BY <1>1, <1>2, <1>3

(* A sum of ones counts; a sum of nothing is nothing.                       *)
LEMMA SumOfOnes ==
    ASSUME NEW S, IsFiniteSet(S), NEW T \in SUBSET S, NEW F
    PROVE  /\ (\A x \in S : F[x] = IF x \in T THEN 1 ELSE 0) => SumFunctionOnSet(F, S) = Cardinality(T)
           /\ (\A x \in S : F[x] = IF x \in T THEN 0 - 1 ELSE 0) => SumFunctionOnSet(F, S) = 0 - Cardinality(T)
<1>1. Cardinality({}) = 0 /\ Cardinality(T) \in Nat
  BY FS_EmptySet, FS_Subset, FS_CardinalityType
<1>2. ASSUME \A x \in S : F[x] = IF x \in T THEN 1 ELSE 0
      PROVE  SumFunctionOnSet(F, S) = Cardinality(T)
  <2>1. Signed(F, S)
    BY <1>2 DEF Signed
  <2>2. Plus(F, S) = T /\ Minus(F, S) = {}
    BY <1>2 DEF Plus, Minus
  <2>3. SumFunctionOnSet(F, S) = Cardinality(Plus(F, S)) - Cardinality(Minus(F, S))
    BY <2>1, SumOfSigns
  <2> QED BY <1>1, <2>2, <2>3
<1>3. ASSUME \A x \in S : F[x] = IF x \in T THEN 0 - 1 ELSE 0
      PROVE  SumFunctionOnSet(F, S) = 0 - Cardinality(T)
  <2>1. Signed(F, S)
    BY <1>3 DEF Signed
  <2>2. Plus(F, S) = {} /\ Minus(F, S) = T
    BY <1>3 DEF Plus, Minus
  <2>3. SumFunctionOnSet(F, S) = Cardinality(Plus(F, S)) - Cardinality(Minus(F, S))
    BY <2>1, SumOfSigns
  <2> QED BY <1>1, <2>2, <2>3
<1> QED BY <1>2, <1>3

LEMMA SumOfZeros ==
    ASSUME NEW S, IsFiniteSet(S), NEW F, \A x \in S : F[x] = 0
    PROVE  SumFunctionOnSet(F, S) = 0
<1>1. PICK T \in SUBSET S : T = {}
  OBVIOUS
<1>2. \A x \in S : F[x] = IF x \in T THEN 1 ELSE 0
  BY <1>1
<1>3. SumFunctionOnSet(F, S) = Cardinality(T)
  BY <1>2, SumOfOnes
<1> QED BY <1>1, <1>3, FS_EmptySet

(* Rows post on banks only, and the two sides of a transfer balance.        *)
LEMMA RowPosts ==
    ASSUME SettlementAssumption, IInv, BooksInv, NEW r \in Rows
    PROVE  /\ Posted(row[r].vouchers, Hand) = 0 /\ Posted(row[r].vouchers, Collection) = 0
           /\ Posted(row[r].vouchers, Protest) = 0 /\ Posted(row[r].vouchers, Payable) = 0
           /\ \A b : Posted(row[r].vouchers, Bank(b)) \in Int
           /\ \A b : row[r].pair = 0 => Posted(row[r].vouchers, Bank(b)) = RowMove(row[r], b)
           /\ \A b : row[r].pair # 0 => Posted(row[r].vouchers, Bank(b)) - RowMove(row[r], b) =
                  IF row[r].status # "completed" THEN 0
                  ELSE IF row[r].type = "payment" THEN (IF row[row[r].pair].bank = b THEN 1 ELSE 0)
                  ELSE (IF row[r].bank = b THEN 0 - 1 ELSE 0)
<1>1. row[r] \in RowRecords /\ RowInv(r) /\ RowBooks(r)
  BY DEF IInv, TypeOK, RecordsInv, BooksInv
<1>2. PICK me, other : me = row[r] /\ other = row[row[r].pair].bank
  OBVIOUS
<1>3. /\ me.type \in {"receipt", "payment"}
      /\ me.pair # 0 => other # me.bank /\ PairBooks(me, other)
      /\ me.pair = 0 => OwnBooks(me)
  BY <1>1, <1>2 DEF RowInv, RowBooks, RowRecords
<1>4. CASE me.status # "completed"
  <2>1. me.vouchers = {}
    BY <1>3, <1>4 DEF PairBooks, OwnBooks
  <2>2. PostsAre(me.vouchers, 0, 0, 0, 0, 0, 0)
    BY <2>1, PostsOf
  <2>3. \A b : RowMove(me, b) = 0
    BY <1>4 DEF RowMove
  <2> QED BY <1>2, <1>4, <2>2, <2>3 DEF PostsAre
<1>5. CASE me.status = "completed" /\ me.pair = 0
  <2>1. PostsAre(me.vouchers, 0, 0, 0, 0, me.bank, IF me.type = "receipt" THEN 1 ELSE 0 - 1)
    BY <1>3, <1>5, PostsOf DEF OwnBooks
  <2>2. \A b : RowMove(me, b) = IF b = me.bank THEN (IF me.type = "receipt" THEN 1 ELSE 0 - 1) ELSE 0
    BY <1>5 DEF RowMove
  <2> QED BY <1>2, <1>5, <2>1, <2>2 DEF PostsAre
<1>6. CASE me.status = "completed" /\ me.pair # 0 /\ me.type = "receipt"
  <2>1. me.vouchers = {}
    BY <1>3, <1>6 DEF PairBooks
  <2>2. PostsAre(me.vouchers, 0, 0, 0, 0, 0, 0)
    BY <2>1, PostsOf
  <2>3. \A b : RowMove(me, b) = IF me.bank = b THEN 1 ELSE 0
    BY <1>6 DEF RowMove
  <2> QED BY <1>2, <1>6, <2>2, <2>3 DEF PostsAre
<1>7. CASE me.status = "completed" /\ me.pair # 0 /\ me.type = "payment"
  <2>1. me.vouchers = {<<Bank(other), Bank(me.bank)>>}
    BY <1>3, <1>7 DEF PairBooks
  <2>2. \A a : Posted(me.vouchers, a) = Sides(<<Bank(other), Bank(me.bank)>>, a)
    BY <2>1, PostedOne
  <2>3. \A a : a \in {Hand, Collection, Protest, Payable} => Posted(me.vouchers, a) = 0
    BY <2>2, SidesAre, BankDiffers
  <2>4. \A b : Posted(me.vouchers, Bank(b)) = IF other = b THEN 1 ELSE IF me.bank = b THEN 0 - 1 ELSE 0
    <3>1. \A b, c : Bank(b) = Bank(c) => b = c
      BY AccountsDiffer
    <3> QED BY <1>3, <1>7, <2>2, <3>1, SidesAre
  <2>5. \A b : RowMove(me, b) = IF me.bank = b THEN 0 - 1 ELSE 0
    BY <1>7 DEF RowMove
  <2>6. \A b : Posted(me.vouchers, Bank(b)) - RowMove(me, b) = IF other = b THEN 1 ELSE 0
    BY <1>3, <1>7, <2>4, <2>5
  <2> QED BY <1>2, <1>7, <2>3, <2>4, <2>6
<1> QED BY <1>3, <1>4, <1>5, <1>6, <1>7

RowPostings(a) == SumFunctionOnSet([r \in Rows |-> Posted(row[r].vouchers, a)], Rows)
ChequePostings(a) == SumFunctionOnSet([c \in Cheques |-> Posted(cheque[c].vouchers, a)], Cheques)

(* The rows post on a bank what they move there.                            *)
LEMMA RowsPost ==
    ASSUME SettlementAssumption, IInv, BooksInv
    PROVE  /\ \A a \in {Hand, Collection, Protest, Payable} : RowPostings(a) = 0
           /\ \A b \in Banks : RowPostings(Bank(b)) = RowMoves(row, b)
<1>1. IsFiniteSet(Rows) /\ \A r \in Rows : RowInv(r) /\ row[r] \in RowRecords
  BY DEF SettlementAssumption, IInv, RecordsInv, TypeOK
<1>2. ASSUME NEW a \in {Hand, Collection, Protest, Payable} PROVE RowPostings(a) = 0
  <2>1. PICK F : F = [r \in Rows |-> Posted(row[r].vouchers, a)]
    OBVIOUS
  <2>2. \A r \in Rows : F[r] = 0
    BY <1>2, <2>1, RowPosts
  <2>3. SumFunctionOnSet(F, Rows) = 0
    BY <1>1, <2>2, SumOfZeros
  <2> QED BY <2>1, <2>3 DEF RowPostings
<1>3. ASSUME NEW b \in Banks PROVE RowPostings(Bank(b)) = RowMoves(row, b)
  <2>1. PICK F : F = [r \in Rows |-> Posted(row[r].vouchers, Bank(b))]
    OBVIOUS
  <2>2. PICK G : G = [r \in Rows |-> RowMove(row[r], b)]
    OBVIOUS
  <2>3. PICK D : D = [r \in Rows |-> F[r] - G[r]]
    OBVIOUS
  <2>4. PICK pair : pair = [r \in Rows |-> row[r].pair]
    OBVIOUS
  <2>5. ASSUME NEW r \in Rows
        PROVE  /\ F[r] \in Int /\ G[r] \in Int /\ D[r] = F[r] - G[r] /\ D[r] \in Int
               /\ row[r].pair = 0 => D[r] = 0
               /\ row[r].pair # 0 => D[r] = IF row[r].status # "completed" THEN 0
                                            ELSE IF row[r].type = "payment" THEN (IF row[row[r].pair].bank = b THEN 1 ELSE 0)
                                            ELSE (IF row[r].bank = b THEN 0 - 1 ELSE 0)
    <3>1. F[r] = Posted(row[r].vouchers, Bank(b)) /\ G[r] = RowMove(row[r], b) /\ D[r] = F[r] - G[r]
      BY <2>1, <2>2, <2>3
    <3>2. Posted(row[r].vouchers, Bank(b)) \in Int /\ RowMove(row[r], b) \in Int
      BY RowPosts, MoveTypes
    <3>3. row[r].pair = 0 => Posted(row[r].vouchers, Bank(b)) = RowMove(row[r], b)
      BY RowPosts
    <3>4. row[r].pair # 0 => Posted(row[r].vouchers, Bank(b)) - RowMove(row[r], b) =
                  IF row[r].status # "completed" THEN 0
                  ELSE IF row[r].type = "payment" THEN (IF row[row[r].pair].bank = b THEN 1 ELSE 0)
                  ELSE (IF row[r].bank = b THEN 0 - 1 ELSE 0)
      BY RowPosts
    <3>5. F[r] \in Int /\ G[r] \in Int /\ D[r] \in Int
      BY <3>1, <3>2
    <3>6. row[r].pair = 0 => D[r] = 0
      BY <3>1, <3>2, <3>3
    <3> QED BY <3>1, <3>4, <3>5, <3>6
  <2>6. ASSUME NEW r \in Rows, D[r] # 0
        PROVE  pair[r] \in Rows /\ pair[r] # r /\ pair[pair[r]] = r /\ D[pair[r]] = 0 - D[r]
    <3>1. row[r].pair # 0 /\ row[r].status = "completed"
      BY <2>5, <2>6
    <3>2. PICK p : p = row[r].pair
      OBVIOUS
    <3>3. p \in Rows /\ p # r /\ row[p].pair = r /\ row[p].status = "completed" /\ row[p].type # row[r].type /\ r # 0
      BY <1>1, <3>1, <3>2, ConstantFacts DEF RowInv, RowRecords
    <3>4. row[r].type \in {"receipt", "payment"} /\ row[p].type \in {"receipt", "payment"}
      BY <1>1, <3>3 DEF RowRecords
    <3>5. D[r] = IF row[r].type = "payment" THEN (IF row[p].bank = b THEN 1 ELSE 0) ELSE (IF row[r].bank = b THEN 0 - 1 ELSE 0)
      BY <2>5, <3>1, <3>2
    <3>6. D[p] = IF row[p].type = "payment" THEN (IF row[r].bank = b THEN 1 ELSE 0) ELSE (IF row[p].bank = b THEN 0 - 1 ELSE 0)
      BY <2>5, <3>3
    <3>7. D[p] = 0 - D[r]
      BY <3>3, <3>4, <3>5, <3>6
    <3> QED BY <2>4, <3>2, <3>3, <3>7
  <2>7. Opposed(D, Rows, pair)
    BY <2>6 DEF Opposed
  <2>8. Integral(F, Rows) /\ Integral(G, Rows) /\ Integral(D, Rows) /\ Differs(F, G, D, Rows)
    BY <2>5 DEF Integral, Differs
  <2>9. SumFunctionOnSet(D, Rows) = 0
    BY <1>1, <2>7, <2>8, SumOfOpposites
  <2>10. SumFunctionOnSet(F, Rows) = SumFunctionOnSet(G, Rows) + SumFunctionOnSet(D, Rows)
    BY <1>1, <2>8, SumOfDifferences
  <2>11. SumFunctionOnSet(G, Rows) \in Int /\ SumFunctionOnSet(G, Rows) = RowMoves(row, b)
    BY <2>2, MoveTypes DEF RowMoves
  <2>12. SumFunctionOnSet(F, Rows) = RowPostings(Bank(b))
    BY <2>1 DEF RowPostings
  <2> QED BY <2>9, <2>10, <2>11, <2>12
<1> QED BY <1>2, <1>3

(* The cheques post on a bank what they move there, and on the account of a *)
(* state the cheques in it.                                                 *)
Standers(type, statuses) == {c \in Cheques : cheque[c].type = type /\ cheque[c].status \in statuses}

LEMMA ChequesPost ==
    ASSUME SettlementAssumption, IInv, BooksInv
    PROVE  /\ ChequePostings(Hand) = Cardinality(Standers("received", {"received", "in_treasury"}))
           /\ ChequePostings(Collection) = Cardinality(Standers("received", {"in_collection"}))
           /\ ChequePostings(Protest) = Cardinality(Standers("received", {"bounced"}))
           /\ ChequePostings(Payable) = 0 - Cardinality(Standers("paid", {"in_treasury"}))
           /\ \A b \in Banks : ChequePostings(Bank(b)) = ChequeMoves(cheque, b)
<1>1. IsFiniteSet(Cheques)
  BY DEF SettlementAssumption
<1>2. ASSUME NEW c \in Cheques
      PROVE  /\ Posted(cheque[c].vouchers, Hand) = IF c \in Standers("received", {"received", "in_treasury"}) THEN 1 ELSE 0
             /\ Posted(cheque[c].vouchers, Collection) = IF c \in Standers("received", {"in_collection"}) THEN 1 ELSE 0
             /\ Posted(cheque[c].vouchers, Protest) = IF c \in Standers("received", {"bounced"}) THEN 1 ELSE 0
             /\ Posted(cheque[c].vouchers, Payable) = IF c \in Standers("paid", {"in_treasury"}) THEN 0 - 1 ELSE 0
             /\ \A b : Posted(cheque[c].vouchers, Bank(b)) = ChequeMove(cheque[c], b)
  <2>1. cheque[c] \in ChequeRecords /\ ChequeBooks(c)
    BY DEF IInv, TypeOK, BooksInv
  <2>2. PICK type \in {"received", "paid"}, status \in ChequeStatus \cup {"none", "deleted"} :
            type = cheque[c].type /\ status = cheque[c].status
    BY <2>1 DEF ChequeRecords
  <2>3. PICK bank : bank = cheque[c].bank
    OBVIOUS
  <2>4. PICK V \in ChequeSets(type, status, bank) : V = cheque[c].vouchers
    BY <2>1, <2>2, <2>3 DEF ChequeBooks
  <2>5. PostsAre(V, IF type = "received" /\ status \in {"received", "in_treasury"} THEN 1 ELSE 0,
                    IF type = "received" /\ status \in {"in_collection"} THEN 1 ELSE 0,
                    IF type = "received" /\ status \in {"bounced"} THEN 1 ELSE 0,
                    IF type = "paid" /\ status \in {"in_treasury"} THEN 0 - 1 ELSE 0, bank,
                    IF status = "passed" THEN (IF type = "received" THEN 1 ELSE 0 - 1) ELSE 0)
    BY ChequePosts
  <2>6. \A b : ChequeMove(cheque[c], b) = IF b = bank THEN (IF status = "passed" THEN (IF type = "received" THEN 1 ELSE 0 - 1) ELSE 0)
                                          ELSE 0
    BY <2>2, <2>3 DEF ChequeMove
  <2>7. \A which, statuses : c \in Standers(which, statuses) <=> type = which /\ status \in statuses
    BY <2>2 DEF Standers
  <2> QED BY <2>2, <2>4, <2>5, <2>6, <2>7 DEF PostsAre
<1>3. ASSUME NEW a, NEW T \in SUBSET Cheques
      PROVE  /\ (\A c \in Cheques : Posted(cheque[c].vouchers, a) = IF c \in T THEN 1 ELSE 0) => ChequePostings(a) = Cardinality(T)
             /\ (\A c \in Cheques : Posted(cheque[c].vouchers, a) = IF c \in T THEN 0 - 1 ELSE 0) =>
                    ChequePostings(a) = 0 - Cardinality(T)
  <2>1. PICK F : F = [c \in Cheques |-> Posted(cheque[c].vouchers, a)]
    OBVIOUS
  <2>2. \A c \in Cheques : F[c] = Posted(cheque[c].vouchers, a)
    BY <2>1
  <2>3. ChequePostings(a) = SumFunctionOnSet(F, Cheques)
    BY <2>1 DEF ChequePostings
  <2> QED BY <1>1, <2>2, <2>3, SumOfOnes
<1>4. \A which, statuses : Standers(which, statuses) \in SUBSET Cheques
  BY DEF Standers
<1>5. ASSUME NEW b \in Banks PROVE ChequePostings(Bank(b)) = ChequeMoves(cheque, b)
  <2>1. PICK F : F = [c \in Cheques |-> Posted(cheque[c].vouchers, Bank(b))]
    OBVIOUS
  <2>2. PICK G : G = [c \in Cheques |-> ChequeMove(cheque[c], b)]
    OBVIOUS
  <2>3. \A c \in Cheques : F[c] = G[c]
    BY <1>2, <2>1, <2>2
  <2>4. SumFunctionOnSet(F, Cheques) = SumFunctionOnSet(G, Cheques)
    BY <1>1, <2>3, SumSame
  <2> QED BY <2>1, <2>2, <2>4 DEF ChequePostings, ChequeMoves
<1>6. ChequePostings(Hand) = Cardinality(Standers("received", {"received", "in_treasury"}))
  BY <1>2, <1>3, <1>4
<1>7. ChequePostings(Collection) = Cardinality(Standers("received", {"in_collection"}))
  BY <1>2, <1>3, <1>4
<1>8. ChequePostings(Protest) = Cardinality(Standers("received", {"bounced"}))
  BY <1>2, <1>3, <1>4
<1>9. ChequePostings(Payable) = 0 - Cardinality(Standers("paid", {"in_treasury"}))
  BY <1>2, <1>3, <1>4
<1> QED BY <1>5, <1>6, <1>7, <1>8, <1>9

(* What moves at a bank, counted.                                           *)
LEMMA MovesCounted ==
    ASSUME SettlementAssumption, IInv, NEW b \in Banks
    PROVE  /\ RowMoves(row, b) = Cardinality(RowsAt(b, "receipt")) - Cardinality(RowsAt(b, "payment"))
           /\ ChequeMoves(cheque, b) = Cardinality(ChequesAt(b, "received")) - Cardinality(ChequesAt(b, "paid"))
<1>1. IsFiniteSet(Rows) /\ IsFiniteSet(Cheques)
  BY DEF SettlementAssumption
<1>2. (\A r \in Rows : row[r].type \in {"receipt", "payment"}) /\ (\A c \in Cheques : cheque[c].type \in {"received", "paid"})
  BY DEF IInv, TypeOK, RowRecords, ChequeRecords
<1>3. RowMoves(row, b) = Cardinality(RowsAt(b, "receipt")) - Cardinality(RowsAt(b, "payment"))
  <2>1. PICK F : F = [r \in Rows |-> RowMove(row[r], b)]
    OBVIOUS
  <2>2. Signed(F, Rows)
    BY <2>1, MoveTypes DEF Signed
  <2>3. Plus(F, Rows) = RowsAt(b, "receipt")
    BY <1>2, <2>1 DEF Plus, RowsAt, RowMove, Live
  <2>4. Minus(F, Rows) = RowsAt(b, "payment")
    <3>1. ASSUME NEW r \in Rows
          PROVE  F[r] = 0 - 1 <=> row[r].bank = b /\ Live(r) /\ row[r].type = "payment"
      <4>1. F[r] = RowMove(row[r], b) /\ row[r].type \in {"receipt", "payment"}
        BY <1>2, <2>1
      <4> QED BY <4>1 DEF RowMove, Live
    <3> QED BY <3>1 DEF Minus, RowsAt
  <2>5. SumFunctionOnSet(F, Rows) = Cardinality(Plus(F, Rows)) - Cardinality(Minus(F, Rows))
    BY <1>1, <2>2, SumOfSigns
  <2> QED BY <2>1, <2>3, <2>4, <2>5 DEF RowMoves
<1>4. ChequeMoves(cheque, b) = Cardinality(ChequesAt(b, "received")) - Cardinality(ChequesAt(b, "paid"))
  <2>1. PICK F : F = [c \in Cheques |-> ChequeMove(cheque[c], b)]
    OBVIOUS
  <2>2. Signed(F, Cheques)
    BY <2>1, MoveTypes DEF Signed
  <2>3. Plus(F, Cheques) = ChequesAt(b, "received")
    BY <1>2, <2>1 DEF Plus, ChequesAt, ChequeMove
  <2>4. Minus(F, Cheques) = ChequesAt(b, "paid")
    <3>1. ASSUME NEW c \in Cheques
          PROVE  F[c] = 0 - 1 <=> cheque[c].bank = b /\ cheque[c].status = "passed" /\ cheque[c].type = "paid"
      <4>1. F[c] = ChequeMove(cheque[c], b) /\ cheque[c].type \in {"received", "paid"}
        BY <1>2, <2>1
      <4> QED BY <4>1 DEF ChequeMove
    <3> QED BY <3>1 DEF Minus, ChequesAt
  <2>5. SumFunctionOnSet(F, Cheques) = Cardinality(Plus(F, Cheques)) - Cardinality(Minus(F, Cheques))
    BY <1>1, <2>2, SumOfSigns
  <2> QED BY <2>1, <2>3, <2>4, <2>5 DEF ChequeMoves
<1> QED BY <1>3, <1>4

LEMMA BooksHold ==
    ASSUME SettlementAssumption, IInv, BooksInv
    PROVE  BooksAgree
<1>1. IsFiniteSet(Rows) /\ IsFiniteSet(Cheques) /\ Amount \in Int /\ Amount * 0 = 0
  BY DEF SettlementAssumption
<1>2. \A a : Ledger(a) = Amount * (RowPostings(a) + ChequePostings(a))
  BY DEF Ledger, RowPostings, ChequePostings
<1>3. ASSUME NEW b \in Banks
      PROVE  /\ balance[b] >= 0
             /\ balance[b] = Opening + Ledger(Bank(b))
             /\ balance[b] = Opening + Amount *
                   (Cardinality(RowsAt(b, "receipt")) - Cardinality(RowsAt(b, "payment"))
                    + Cardinality(ChequesAt(b, "received")) - Cardinality(ChequesAt(b, "paid")))
  <2>1. balance[b] = Opening + Amount * (RowMoves(row, b) + ChequeMoves(cheque, b))
    BY DEF BooksInv, MoneyInv
  <2>2. balance[b] >= 0
    BY BalanceTypes DEF IInv
  <2>3. Ledger(Bank(b)) = Amount * (RowMoves(row, b) + ChequeMoves(cheque, b))
    BY <1>2, RowsPost, ChequesPost
  <2>4. PICK i \in Int, j \in Int, k \in Int, l \in Int :
            /\ i = Cardinality(RowsAt(b, "receipt")) /\ j = Cardinality(RowsAt(b, "payment"))
            /\ k = Cardinality(ChequesAt(b, "received")) /\ l = Cardinality(ChequesAt(b, "paid"))
    <3>1. \A type : IsFiniteSet(RowsAt(b, type)) /\ IsFiniteSet(ChequesAt(b, type))
      <4>1. \A type : RowsAt(b, type) \in SUBSET Rows /\ ChequesAt(b, type) \in SUBSET Cheques
        BY DEF RowsAt, ChequesAt
      <4> QED BY <1>1, <4>1, FS_Subset
    <3> QED BY <3>1, FS_CardinalityType
  <2>5. RowMoves(row, b) = i - j /\ ChequeMoves(cheque, b) = k - l
    BY <2>4, MovesCounted
  <2>6. (i - j) + (k - l) = i - j + k - l
    OBVIOUS
  <2> QED BY <2>1, <2>2, <2>3, <2>4, <2>5, <2>6
<1>4. \A which, statuses : Standing(which, statuses) = Amount * Cardinality(Standers(which, statuses))
  BY DEF Standing, Standers
<1>5. \A which, statuses : Cardinality(Standers(which, statuses)) \in Nat
  <2>1. \A which, statuses : Standers(which, statuses) \in SUBSET Cheques
    BY DEF Standers
  <2> QED BY <1>1, <2>1, FS_Subset, FS_CardinalityType
<1>6. ASSUME NEW a \in {Hand, Collection, Protest, Payable}, NEW n \in Int, ChequePostings(a) = n
      PROVE  Ledger(a) = Amount * n
  <2>1. RowPostings(a) = 0
    BY <1>6, RowsPost
  <2> QED BY <1>2, <1>6, <2>1
<1>7. /\ Ledger(Hand) = Standing("received", {"received", "in_treasury"})
      /\ Ledger(Collection) = Standing("received", {"in_collection"})
      /\ Ledger(Protest) = Standing("received", {"bounced"})
  <2>1. Ledger(Hand) = Standing("received", {"received", "in_treasury"})
    BY <1>4, <1>5, <1>6, ChequesPost
  <2>2. Ledger(Collection) = Standing("received", {"in_collection"})
    BY <1>4, <1>5, <1>6, ChequesPost
  <2>3. Ledger(Protest) = Standing("received", {"bounced"})
    BY <1>4, <1>5, <1>6, ChequesPost
  <2> QED BY <2>1, <2>2, <2>3
<1>8. Ledger(Payable) = 0 - Standing("paid", {"in_treasury"})
  <2>1. PICK n \in Int : n = Cardinality(Standers("paid", {"in_treasury"}))
    BY <1>5
  <2>2. ChequePostings(Payable) = 0 - n /\ 0 - n \in Int
    BY <2>1, ChequesPost
  <2>3. Ledger(Payable) = Amount * (0 - n)
    BY <1>6, <2>2
  <2>4. Amount * (0 - n) = 0 - Amount * n
    BY <1>1
  <2> QED BY <1>4, <2>1, <2>3, <2>4
<1> QED BY <1>3, <1>7, <1>8 DEF BooksAgree

-----------------------------------------------------------------------------
(* A write changes what its request, alone, would change.                   *)

LEMMA ReceiptIsOne ==
    ASSUME SettlementAssumption, IInv, NEW s \in Sessions, Receipt(s)
    PROVE  SerialNext
<1>1. /\ Ready(s, "receipt") /\ cheque' = cheque /\ doc' = doc
      /\ writeBankBalance(s, tx[s].bank, Amount)
  BY DEF Receipt
<1>2. TypeOK /\ tx[s].op = "receipt" /\ Own(s) /\ Claims(s) /\ \A b \in BanksOf(s) : tx[s].saw[b] = balance[b]
  BY <1>1, ReadyFacts
<1>3. PICK b \in Banks, d \in Docs \cup {0}, parts \in Parts : b = tx[s].bank /\ d = tx[s].doc /\ parts = tx[s].parts
  BY <1>2, SessionTypes DEF Own
<1>4. PICK r \in NextRow :
          row' = [row EXCEPT ![r] = [NoRow EXCEPT !.status = "completed", !.bank = b, !.link = d, !.parts = parts,
                                                  !.vouchers = {<<Bank(b), Party>>}]]
  BY <1>3 DEF Receipt
<1>5. r \in FreeRows /\ r \in Rows
  BY <1>4, NextRowFacts DEF NextRow, FreeRows
<1>6. balance' = [balance EXCEPT ![b] = @ + Amount]
  <2>1. b \in BanksOf(s)
    BY <1>2, <1>3 DEF BanksOf
  <2>2. tx[s].saw[b] = balance[b]
    BY <1>2, <2>1
  <2> QED BY <1>1, <1>2, <1>3, <2>2 DEF writeBankBalance, Moved, TypeOK
<1>7. Total(parts) <= Amount /\ (d = 0 \/ parts = NoParts)
  BY <1>2, <1>3 DEF Own
<1>8. d # 0 => FitsAnew(d, Amount)
  <2>1. d # 0 => d \in Docs /\ Room(d, Amount, 0)
    BY <1>2, <1>3 DEF Claims
  <2>2. Amount \in Int
    BY DEF SettlementAssumption
  <2> QED BY <1>2, <2>1, <2>2, FitsAnewRoom
<1>9. AllFit(parts)
  <2>1. ASSUME NEW e \in Chosen(parts) PROVE FitsAnew(e, parts[e])
    <3>1. e \in Docs /\ parts[e] \in Int
      BY <1>2, <1>3, SessionTypes
    <3>2. Room(e, parts[e], 0)
      BY <1>2, <1>3 DEF Claims
    <3> QED BY <1>2, <3>1, <3>2, FitsAnewRoom
  <2> QED BY <2>1 DEF AllFit
<1>10. row' # row
  <2>1. PICK me : me = [NoRow EXCEPT !.status = "completed", !.bank = b, !.link = d, !.parts = parts,
                                     !.vouchers = {<<Bank(b), Party>>}]
    OBVIOUS
  <2>2. me.status = "completed"
    <3>1. IsRow(me, "receipt", b, d, 0, parts, {<<Bank(b), Party>>})
      BY <2>1, AccountTypes, 0 \in Rows \cup {0}, NewRows
    <3> QED BY <3>1 DEF IsRow
  <2>3. row'[r] = me /\ row[r].status = "none"
    BY <1>2, <1>4, <1>5, <2>1 DEF TypeOK, FreeRows
  <2> QED BY <2>2, <2>3
<1>11. OneReceipt(b, d, parts)
  BY <1>4, <1>5, <1>6, <1>7, <1>8, <1>9 DEF OneReceipt
<1> QED BY <1>1, <1>10, <1>11 DEF SerialNext, OneOfRows

LEMMA PaymentIsOne ==
    ASSUME SettlementAssumption, IInv, NEW s \in Sessions, Payment(s)
    PROVE  SerialNext
<1>1. /\ Ready(s, "payment") /\ cheque' = cheque /\ doc' = doc
      /\ writeBankBalance(s, tx[s].bank, 0 - Amount)
  BY DEF Payment
<1>2. TypeOK /\ tx[s].op = "payment" /\ Own(s) /\ Claims(s) /\ \A b \in BanksOf(s) : tx[s].saw[b] = balance[b]
  BY <1>1, ReadyFacts
<1>3. PICK b \in Banks : b = tx[s].bank
  BY <1>2 DEF Own
<1>4. PICK r \in NextRow :
          row' = [row EXCEPT ![r] = [NoRow EXCEPT !.status = "completed", !.type = "payment", !.bank = b,
                                                  !.vouchers = {<<Party, Bank(b)>>}]]
  BY <1>3 DEF Payment
<1>5. r \in FreeRows /\ r \in Rows
  BY <1>4, NextRowFacts DEF NextRow, FreeRows
<1>6. balance[b] \in Int /\ Amount \in Int
  BY <1>2, BalanceTypes
<1>7. balance' = [balance EXCEPT ![b] = @ - Amount]
  <2>1. b \in BanksOf(s)
    BY <1>2, <1>3 DEF BanksOf
  <2>2. tx[s].saw[b] = balance[b]
    BY <1>2, <2>1
  <2>3. balance[b] + (0 - Amount) = balance[b] - Amount
    BY <1>6
  <2> QED BY <1>1, <1>2, <1>3, <2>2, <2>3 DEF writeBankBalance, Moved, TypeOK
<1>8. NotOverdrawn(b, 0 - Amount)
  <2>1. balance[b] - Amount >= 0
    BY <1>2, <1>3 DEF Claims
  <2> QED BY <1>6, <2>1 DEF NotOverdrawn
<1>9. row' # row
  <2>1. PICK me : me = [NoRow EXCEPT !.status = "completed", !.type = "payment", !.bank = b,
                                     !.vouchers = {<<Party, Bank(b)>>}]
    OBVIOUS
  <2>2. me.status = "completed"
    <3>1. IsRow(me, "payment", b, 0, 0, NoParts, {<<Party, Bank(b)>>})
      BY <2>1, AccountTypes, 0 \in Rows \cup {0}, 0 \in Docs \cup {0}, ConstantFacts, NewRows
    <3> QED BY <3>1 DEF IsRow
  <2>3. row'[r] = me /\ row[r].status = "none"
    BY <1>2, <1>4, <1>5, <2>1 DEF TypeOK, FreeRows
  <2> QED BY <2>2, <2>3
<1>10. OnePayment(b)
  BY <1>4, <1>5, <1>7, <1>8 DEF OnePayment
<1> QED BY <1>1, <1>9, <1>10 DEF SerialNext, OneOfRows

LEMMA TransferIsOne ==
    ASSUME SettlementAssumption, IInv, NEW s \in Sessions, Transfer(s)
    PROVE  SerialNext
<1>1. Ready(s, "transfer") /\ cheque' = cheque /\ doc' = doc
  BY DEF Transfer
<1>2. TypeOK /\ tx[s].op = "transfer" /\ Own(s) /\ Claims(s) /\ \A b \in BanksOf(s) : tx[s].saw[b] = balance[b]
  BY <1>1, ReadyFacts
<1>3. PICK from \in Banks, to \in Banks : from = tx[s].bank /\ to = tx[s].to /\ from # to
  BY <1>2 DEF Own
<1>4. PICK p \in NextRow, r \in Unused :
          /\ r # p
          /\ row' = [row EXCEPT
                ![p] = [NoRow EXCEPT !.status = "completed", !.type = "payment", !.bank = from, !.pair = r,
                                     !.vouchers = {<<Bank(to), Bank(from)>>}],
                ![r] = [NoRow EXCEPT !.status = "completed", !.bank = to, !.pair = p]]
  BY <1>3 DEF Transfer
<1>5. p \in FreeRows /\ r \in FreeRows /\ p \in Rows /\ r \in Rows
  BY <1>4, NextRowFacts DEF NextRow, FreeRows
<1>6. balance[from] \in Int /\ balance[to] \in Int /\ Amount \in Int
  BY <1>2, BalanceTypes
<1>7. balance' = [balance EXCEPT ![from] = @ - Amount, ![to] = @ + Amount]
  <2>1. tx[s].saw[from] = balance[from] /\ tx[s].saw[to] = balance[to]
    BY <1>2, <1>3 DEF BanksOf
  <2>2. balance' = [balance EXCEPT ![from] = balance[from] + (0 - Amount), ![to] = balance[to] + Amount]
    BY <1>3, <2>1 DEF Transfer, Moved
  <2>3. balance[from] + (0 - Amount) = balance[from] - Amount
    BY <1>6
  <2> QED BY <1>2, <1>3, <2>2, <2>3 DEF TypeOK
<1>8. NotOverdrawn(from, 0 - Amount)
  <2>1. balance[from] - Amount >= 0
    BY <1>2, <1>3 DEF Claims
  <2> QED BY <1>6, <2>1 DEF NotOverdrawn
<1>9. row' # row
  <2>1. PICK me : me = [NoRow EXCEPT !.status = "completed", !.bank = to, !.pair = p]
    OBVIOUS
  <2>2. me.status = "completed"
    <3>1. IsRow(me, "receipt", to, 0, p, NoParts, {})
      BY <1>5, <2>1, AccountTypes, 0 \in Docs \cup {0}, ConstantFacts, NewRows
    <3> QED BY <3>1 DEF IsRow
  <2>3. row'[r] = me /\ row[r].status = "none"
    BY <1>2, <1>4, <1>5, <2>1 DEF TypeOK, FreeRows
  <2> QED BY <2>2, <2>3
<1>10. OneTransfer(from, to)
  BY <1>3, <1>4, <1>5, <1>7, <1>8 DEF OneTransfer
<1> QED BY <1>1, <1>9, <1>10 DEF SerialNext, OneOfRows

LEMMA VoidIsOne ==
    ASSUME SettlementAssumption, IInv, NEW s \in Sessions, Void(s)
    PROVE  SerialNext
<1>1. Ready(s, "void") /\ cheque' = cheque /\ doc' = doc
  BY DEF Void
<1>2. TypeOK /\ tx[s].op = "void" /\ Own(s) /\ Claims(s) /\ \A b \in BanksOf(s) : tx[s].saw[b] = balance[b]
  BY <1>1, ReadyFacts
<1>3. PICK r \in Rows : r = tx[s].id
  BY <1>2 DEF Own
<1>4. SidesOf(r) \in SUBSET Rows /\ r \in SidesOf(r) /\ BanksOf(s) = {row[q].bank : q \in SidesOf(r)}
  BY <1>2, <1>3, WorkSets DEF BanksOf
<1>5. Live(r) /\ \A q \in SidesOf(r) : NotOverdrawn(row[q].bank, Back(q))
  BY <1>2, <1>3 DEF Claims, NotOverdrawn
<1>6. row' = [q \in Rows |-> IF q \in SidesOf(r) THEN [row[q] EXCEPT !.status = "voided", !.vouchers = {}] ELSE row[q]]
  BY <1>3 DEF Void
<1>7. balance' = [b \in Banks |-> IF \E q \in SidesOf(r) : row[q].bank = b
                                  THEN balance[b] + Back(CHOOSE q \in SidesOf(r) : row[q].bank = b) ELSE balance[b]]
  <2>1. \A b \in Banks : (\E q \in SidesOf(r) : row[q].bank = b) => tx[s].saw[b] = balance[b]
    BY <1>2, <1>4
  <2> HIDE DEF SidesOf, Back
  <2>2. balance' = [b \in Banks |-> IF \E q \in SidesOf(r) : row[q].bank = b
                        THEN tx[s].saw[b] + Back(CHOOSE q \in SidesOf(r) : row[q].bank = b) ELSE balance[b]]
    BY <1>3 DEF Void, Moved
  <2> QED BY <2>1, <2>2
<1>8. row' # row
  <2>1. row[r] \in RowRecords /\ row[r].status = "completed"
    BY <1>2, <1>5 DEF TypeOK, Live
  <2>2. row'[r].status = "voided"
    BY <1>4, <1>6, <2>1 DEF RowRecords
  <2> QED BY <2>1, <2>2
<1>9. OneVoid(r)
  BY <1>5, <1>6, <1>7 DEF OneVoid
<1> QED BY <1>1, <1>8, <1>9 DEF SerialNext, OneOfRows

LEMMA RelinkIsOne ==
    ASSUME SettlementAssumption, IInv, NEW s \in Sessions, Relink(s)
    PROVE  SerialNext
<1>1. Ready(s, "relink") /\ cheque' = cheque /\ doc' = doc /\ balance' = balance
  BY DEF Relink
<1>2. TypeOK /\ tx[s].op = "relink" /\ Own(s) /\ Claims(s)
  BY <1>1, ReadyFacts
<1>3. PICK r \in Rows, d \in Docs \cup {0} : r = tx[s].id /\ d = tx[s].doc
  BY <1>2, SessionTypes DEF Own
<1>4. row' = [row EXCEPT ![r].link = d]
  BY <1>3 DEF Relink
<1>5. /\ Live(r) /\ row[r].type = "receipt" /\ row[r].pair = 0 /\ row[r].link # d
      /\ row[r].parts = NoParts
  BY <1>2, <1>3 DEF Own, Claims
<1>6. ~ HasParts(r)
  BY <1>5, ConstantFacts DEF HasParts
<1>7. d # 0 => FitsAnew(d, Amount)
  <2>1. d # 0 => d \in Docs /\ Room(d, Amount, 0)
    BY <1>2, <1>3 DEF Claims
  <2>2. Amount \in Int
    BY DEF SettlementAssumption
  <2> QED BY <1>2, <2>1, <2>2, FitsAnewRoom
<1>8. row' # row
  <2>1. row'[r].link = d
    BY <1>2, <1>4 DEF TypeOK, RowRecords
  <2> QED BY <1>5, <2>1
<1>9. OneRelink(r, d)
  BY <1>1, <1>4, <1>5, <1>6, <1>7 DEF OneRelink
<1> QED BY <1>1, <1>8, <1>9 DEF SerialNext, OneOfRows

LEMMA ReplaceIsOne ==
    ASSUME SettlementAssumption, IInv, NEW s \in Sessions, Replace(s)
    PROVE  [SerialNext]_data
<1>1. Ready(s, "replace") /\ cheque' = cheque /\ doc' = doc /\ balance' = balance
  BY DEF Replace
<1>2. TypeOK /\ tx[s].op = "replace" /\ Own(s) /\ Claims(s)
  BY <1>1, ReadyFacts
<1>3. PICK r \in Rows, parts \in Parts : r = tx[s].id /\ parts = tx[s].parts
  BY <1>2, SessionTypes DEF Own
<1>4. row' = [row EXCEPT ![r].parts = parts, ![r].link = 0]
  BY <1>3 DEF Replace
<1>5. Live(r) /\ row[r].type = "receipt" /\ row[r].pair = 0 /\ Total(parts) <= Amount
  BY <1>2, <1>3 DEF Own, Claims
<1>6. ASSUME NEW d \in Chosen(parts) PROVE Fits(d, parts[d], RowShare(r, d), Settled(d) - RowShare(r, d))
  <2>1. d \in Docs /\ parts[d] \in Int
    BY <1>2, <1>3, SessionTypes
  <2>a. RowShare(r, d) \in Nat
    BY <1>2, <2>1, SettledTypes
  <2>2. RowShare(r, d) \in Int
    BY <2>a
  <2>3. Room(d, parts[d], RowShare(r, d))
    BY <1>2, <1>3 DEF Claims
  <2> QED BY <1>2, <2>1, <2>2, <2>3, FitsRoom
<1>7. OneReplace(r, parts)
  BY <1>1, <1>4, <1>5, <1>6 DEF OneReplace
<1>8. CASE row' = row
  BY <1>1, <1>8 DEF data
<1>9. CASE row' # row
  BY <1>1, <1>7, <1>9 DEF SerialNext, OneOfRows
<1> QED BY <1>8, <1>9

LEMMA ChequeIsOne ==
    ASSUME SettlementAssumption, IInv, NEW s \in Sessions, Cheque(s)
    PROVE  SerialNext
<1>1. Ready(s, "cheque") /\ row' = row /\ doc' = doc /\ balance' = balance
  BY DEF Cheque
<1>2. TypeOK /\ tx[s].op = "cheque" /\ Own(s) /\ Claims(s)
  BY <1>1, ReadyFacts
<1>3. PICK type \in {"received", "paid"}, b \in Banks \cup {0}, parts \in Parts :
          type = tx[s].want /\ b = tx[s].bank /\ parts = tx[s].parts
  BY <1>2, SessionTypes DEF Own
<1>4. PICK me : me = [status |-> IF type = "received" THEN "received" ELSE "in_treasury", type |-> type, bank |-> b,
                      parts |-> parts, vouchers |-> IF type = "received" THEN {<<Hand, Party>>} ELSE {<<Party, Payable>>}]
  OBVIOUS
<1>5. PICK c \in NextCheque : cheque' = [cheque EXCEPT ![c] = me]
  BY <1>3, <1>4 DEF Cheque
<1>6. c \in FreeCheques /\ c \in Cheques
  BY <1>5 DEF NextCheque, FreeCheques
<1>7. Total(parts) <= Amount /\ (type = "paid" => parts = NoParts)
  BY <1>2, <1>3 DEF Own
<1>8. AllFit(parts)
  <2>1. ASSUME NEW e \in Chosen(parts) PROVE FitsAnew(e, parts[e])
    <3>1. e \in Docs /\ parts[e] \in Int
      BY <1>2, <1>3, SessionTypes
    <3>2. Room(e, parts[e], 0)
      BY <1>2, <1>3 DEF Claims
    <3> QED BY <1>2, <3>1, <3>2, FitsAnewRoom
  <2> QED BY <2>1 DEF AllFit
<1>9. cheque' # cheque
  <2>1. cheque'[c] = me /\ cheque[c].status = "none"
    BY <1>2, <1>5, <1>6 DEF TypeOK, FreeCheques
  <2>2. me.status # "none"
    BY <1>4
  <2> QED BY <2>1, <2>2
<1>10. OneCheque(type, b, parts)
  BY <1>1, <1>4, <1>5, <1>6, <1>7, <1>8 DEF OneCheque
<1> QED BY <1>1, <1>9, <1>10 DEF SerialNext, OneOfCheques

(* The account of a clearing was read before the cheque was locked.         *)
LEMMA StepIsOne ==
    ASSUME SettlementAssumption, IInv, NEW s \in Sessions, Step(s)
    PROVE  SerialNext
<1>1. Ready(s, "step") /\ row' = row /\ doc' = doc
  BY DEF Step
<1>2. TypeOK /\ tx[s].op = "step" /\ Own(s) /\ Claims(s) /\ \A b \in BanksOf(s) : tx[s].saw[b] = balance[b]
  BY <1>1, ReadyFacts
<1>3. PICK c \in Cheques, want \in ChequeStatus, b \in Banks \cup {0} : c = tx[s].id /\ want = tx[s].want /\ b = tx[s].bank
  BY <1>2, SessionTypes DEF Own
<1>4. PICK bank \in NextBanks(c, want, b) :
          cheque' = [cheque EXCEPT ![c].status = want, ![c].bank = bank, ![c].vouchers = @ \cup StepVouchers(c, want, b)]
  BY <1>3 DEF Step
<1>5. cheque[c] \in ChequeRecords /\ cheque[c].status # "none" /\ want \in chequeNextStatuses(c)
  BY <1>2, <1>3 DEF Own, Claims, TypeOK
<1>6. cheque[c].status # want
  BY <1>5 DEF chequeNextStatuses, FromHand
<1>7. cheque' # cheque
  <2>1. cheque'[c].status = want
    BY <1>2, <1>4, <1>5 DEF TypeOK, ChequeRecords
  <2> QED BY <1>6, <2>1
<1>8. CASE want = "passed"
  <2>1. b \in Banks /\ bank = b /\ b # 0
    BY <1>2, <1>3, <1>4, <1>8, ConstantFacts DEF Own, NextBanks
  <2>2. cheque[c].status # "passed"
    BY <1>6, <1>8
  <2>3. ClearsAt(c, b)
    BY <1>2, <1>3, <1>8, <2>2 DEF Own, IssuedFrom, ClearsAt
  <2>4. NotOverdrawn(b, Clears(c))
    BY <1>2, <1>3, <1>8 DEF Claims, NotOverdrawn
  <2>5. balance' = [balance EXCEPT ![b] = @ + Clears(c)]
    <3>1. tx[s].saw[b] = balance[b]
      BY <1>2, <1>3, <1>8 DEF BanksOf
    <3> QED BY <1>2, <1>3, <1>8, <2>1, <3>1 DEF Step, writeBankBalance, Moved, TypeOK
  <2>6. OneClearing(c, b)
    BY <1>4, <1>5, <1>8, <2>1, <2>3, <2>4, <2>5 DEF OneClearing
  <2> QED BY <1>1, <1>7, <2>1, <2>6 DEF SerialNext, OneOfCheques
<1>9. CASE want # "passed"
  <2>1. balance' = balance
    BY <1>3, <1>9 DEF Step
  <2>2. bank \in Banks \cup {0} /\ (bank = cheque[c].bank \/ want = "in_collection")
    <3>1. want # "in_collection" => b = 0
      BY <1>2, <1>3, <1>9 DEF Own
    <3>2. cheque[c].bank \in Banks \cup {0}
      BY <1>5 DEF ChequeRecords
    <3> QED BY <1>4, <3>1, <3>2 DEF NextBanks
  <2>3. StepVouchers(c, want, b) = StepVouchers(c, want, bank)
    BY <1>9 DEF StepVouchers
  <2>4. OneStep(c, want, bank)
    BY <1>4, <1>5, <1>9, <2>1, <2>2, <2>3 DEF OneStep
  <2> QED BY <1>1, <1>7, <2>2, <2>4 DEF SerialNext, OneOfCheques
<1> QED BY <1>8, <1>9

LEMMA ReplaceChequeIsOne ==
    ASSUME SettlementAssumption, IInv, NEW s \in Sessions, ReplaceCheque(s)
    PROVE  [SerialNext]_data
<1>1. Ready(s, "replaceCheque") /\ row' = row /\ doc' = doc /\ balance' = balance
  BY DEF ReplaceCheque
<1>2. TypeOK /\ tx[s].op = "replaceCheque" /\ Own(s) /\ Claims(s)
  BY <1>1, ReadyFacts
<1>3. PICK c \in Cheques, parts \in Parts : c = tx[s].id /\ parts = tx[s].parts
  BY <1>2, SessionTypes DEF Own
<1>4. cheque' = [cheque EXCEPT ![c].parts = parts]
  BY <1>3 DEF ReplaceCheque
<1>5. ~ Lapsed(c) /\ cheque[c].type = "received" /\ Total(parts) <= Amount
  BY <1>2, <1>3 DEF Own, Claims
<1>6. ASSUME NEW d \in Chosen(parts) PROVE Fits(d, parts[d], ChequeShare(c, d), Settled(d) - ChequeShare(c, d))
  <2>1. d \in Docs /\ parts[d] \in Int
    BY <1>2, <1>3, SessionTypes
  <2>a. ChequeShare(c, d) \in Nat
    BY <1>2, <2>1, SettledTypes
  <2>2. ChequeShare(c, d) \in Int
    BY <2>a
  <2>3. Room(d, parts[d], ChequeShare(c, d))
    BY <1>2, <1>3 DEF Claims
  <2> QED BY <1>2, <2>1, <2>2, <2>3, FitsRoom
<1>7. OneReplaceCheque(c, parts)
  BY <1>1, <1>4, <1>5, <1>6 DEF OneReplaceCheque
<1>8. CASE cheque' = cheque
  BY <1>1, <1>8 DEF data
<1>9. CASE cheque' # cheque
  BY <1>1, <1>7, <1>9 DEF SerialNext, OneOfCheques
<1> QED BY <1>8, <1>9

LEMMA DeleteChequeIsOne ==
    ASSUME SettlementAssumption, IInv, NEW s \in Sessions, DeleteCheque(s)
    PROVE  SerialNext
<1>1. Ready(s, "deleteCheque") /\ row' = row /\ doc' = doc /\ balance' = balance
  BY DEF DeleteCheque
<1>2. TypeOK /\ tx[s].op = "deleteCheque" /\ Own(s) /\ Claims(s)
  BY <1>1, ReadyFacts
<1>3. PICK c \in Cheques : c = tx[s].id
  BY <1>2 DEF Own
<1>4. cheque' = [cheque EXCEPT ![c].status = "deleted", ![c].vouchers = {}]
  BY <1>3 DEF DeleteCheque
<1>5. cheque[c].status \notin {"none", "passed", "spent", "deleted"} /\ cheque[c] \in ChequeRecords
  BY <1>2, <1>3 DEF Own, Claims, TypeOK
<1>6. cheque' # cheque
  <2>1. cheque'[c].status = "deleted"
    BY <1>2, <1>4, <1>5 DEF TypeOK, ChequeRecords
  <2> QED BY <1>5, <2>1
<1>7. OneDeleteCheque(c)
  BY <1>1, <1>4, <1>5 DEF OneDeleteCheque
<1> QED BY <1>1, <1>6, <1>7 DEF SerialNext, OneOfCheques

LEMMA DocumentIsOne ==
    ASSUME SettlementAssumption, IInv, NEW s \in Sessions, Rewrite(s) \/ Return(s) \/ VoidDocument(s)
    PROVE  [SerialNext]_data
<1>1. row' = row /\ cheque' = cheque /\ balance' = balance
  BY DEF Rewrite, Return, VoidDocument
<1>2. PICK op \in DocumentOps : Ready(s, op)
  BY DEF Rewrite, Return, VoidDocument, DocumentOps
<1>3. TypeOK /\ tx[s].op = op /\ Own(s) /\ Claims(s)
  BY <1>2, ReadyFacts
<1>4. PICK d \in Docs : d = tx[s].doc
  BY <1>3 DEF Own
<1>5. CASE Rewrite(s)
  <2>1. op \in {"edit", "finalize"}
    BY <1>3, <1>5 DEF Rewrite, Ready
  <2>2. PICK status \in {"draft", "proforma", "final"}, payable \in 1..MaxPayable : status = tx[s].want /\ payable = tx[s].payable
    BY <1>3, <2>1 DEF Own
  <2>3. doc[d].status \in {"draft", "proforma"} /\ Covers(d, payable)
    BY <1>3, <1>4, <2>1, <2>2 DEF Claims
  <2>4. OneRewrite(d, status, payable)
    BY <1>4, <1>5, <2>2, <2>3 DEF Rewrite, OneRewrite
  <2> QED BY <1>1, <2>4 DEF SerialNext, OneOfDocs, data
<1>6. CASE Return(s)
  <2>1. op = "return"
    BY <1>3, <1>6 DEF Return, Ready
  <2>2. OneReturn(d)
    BY <1>3, <1>4, <1>6, <2>1 DEF Claims, Return, OneReturn
  <2> QED BY <1>1, <2>2 DEF SerialNext, OneOfDocs, data
<1>7. CASE VoidDocument(s)
  <2>1. op = "voidDocument"
    BY <1>3, <1>7 DEF VoidDocument, Ready
  <2>2. OneVoidDocument(d)
    BY <1>3, <1>4, <1>7, <2>1 DEF Claims, VoidDocument, OneVoidDocument
  <2> QED BY <1>1, <2>2 DEF SerialNext, OneOfDocs, data
<1> QED BY <1>5, <1>6, <1>7

LEMMA NextIsOne ==
    ASSUME SettlementAssumption, IInv, [Next]_vars
    PROVE  [SerialNext]_data
<1>1. ASSUME NEW s \in Sessions, Begin(s) \/ Lock(s) \/ Check(s) \/ RollBack(s)
      PROVE  UNCHANGED data
  BY <1>1, OnlyWritesWrite
<1>2. ASSUME NEW s \in Sessions, Write(s) PROVE [SerialNext]_data
  BY <1>2, ReceiptIsOne, PaymentIsOne, TransferIsOne, VoidIsOne, RelinkIsOne, ReplaceIsOne, ChequeIsOne, StepIsOne,
     ReplaceChequeIsOne, DeleteChequeIsOne, DocumentIsOne DEF Write
<1>3. ASSUME NEW d \in scene.docs, VoidReturn(d) PROVE [SerialNext]_data
  <2>1. d \in Docs /\ row' = row /\ cheque' = cheque /\ balance' = balance
    BY <1>3, SceneTypes DEF IInv, VoidReturn
  <2>2. OneVoidReturn(d)
    BY <1>3 DEF VoidReturn, OneVoidReturn
  <2> QED BY <2>1, <2>2 DEF SerialNext, OneOfDocs, data
<1>4. CASE UNCHANGED vars
  BY <1>4 DEF vars
<1> QED BY <1>1, <1>2, <1>3, <1>4 DEF Next

LEMMA InitIsSerial ==
    ASSUME SettlementAssumption, Init
    PROVE  SerialInit
<1>1. scene.start \in {"proforma", "final"}
  BY DEF Init, SettlementAssumption
<1> QED BY <1>1 DEF Init, SerialInit

-----------------------------------------------------------------------------
(* The results. *)

(* The invariant the others follow from: what a transaction has read and    *)
(* checked under its row locks stays true until it writes, because no other *)
(* transaction can hold a lock it needs to disturb it (lockTreasuryBanks,   *)
(* lockSettlementDocuments, lockDocument).                                  *)
THEOREM ChecksHoldUntilWritten == Spec => []IInv
<1>1. Init => IInv
  BY SettlementAssumption, InitInv
<1>2. IInv /\ [Next]_vars => IInv'
  BY SettlementAssumption, NextKeeps
<1> QED BY <1>1, <1>2, PTL DEF Spec

(* Balances stay natural numbers (writeBankBalance refuses an overdraft),   *)
(* and rows, cheques, documents and transactions keep their types.          *)
THEOREM TypeCorrect == Spec => []TypeOK
<1>1. IInv => TypeOK
  BY DEF IInv
<1> QED BY <1>1, ChecksHoldUntilWritten, PTL

(* The transactions of the treasury, of cheques and of documents never wait *)
(* for each other in a circle (lib/lockOrder.ts, lockSettlementDocument).   *)
THEOREM NobodyWaitsInCircles == Spec => []NoCircularWait
<1>1. IInv => NoCircularWait
  BY SettlementAssumption, NobodyWaits DEF IInv
<1> QED BY <1>1, ChecksHoldUntilWritten, PTL

(* No receipt and no cheque settles more than its own amount                *)
(* (relinkTreasuryDocument, replaceTreasuryAllocations).                    *)
THEOREM SourcesStayWithinAmount == Spec => []SourceWithinAmount
<1>1. IInv => SourceWithinAmount
  BY SettlementAssumption, SourcesWithin DEF IInv
<1> QED BY <1>1, ChecksHoldUntilWritten, PTL

(* Only a return leaves more settled on a document than it is worth         *)
(* (assertWithinDocumentRemaining, settledDocumentEdit,                     *)
(* assertVoidHasNoTreasuryRows).                                            *)
THEOREM NothingOversettles == Spec => NoOversettle
<1>1. IInv /\ [Next]_vars => [\A d \in Docs : Excess(d)' > Excess(d) => doc'[d].returned > doc[d].returned]_vars
  BY SettlementAssumption, NextKeeps DEF Fair
<1> QED BY <1>1, ChecksHoldUntilWritten, PTL DEF Spec, NoOversettle

(* The books agree with the records for any number of transactions: the     *)
(* balance of an account is its opening, its live rows and the cheques      *)
(* cleared at it, is what the ledger says and never negative, and each      *)
(* cheque account holds the cheques in its state (writeBankBalance,         *)
(* updateChequeStatus, voidSourceVoucher).                                  *)
THEOREM BooksAlwaysAgree == Spec => []BooksAgree
<1>1. Init => BooksInv
  BY SettlementAssumption, InitBooks
<1>2. IInv /\ BooksInv /\ [Next]_vars => BooksInv'
  BY SettlementAssumption, NextBooks
<1>3. IInv /\ BooksInv => BooksAgree
  BY SettlementAssumption, BooksHold
<1> QED BY <1>1, <1>2, <1>3, ChecksHoldUntilWritten, PTL DEF Spec

(* For any number of transactions in any interleaving, balances, rows,      *)
(* cheques and documents change only as requests served one at a time       *)
(* would change them: the row locks of withTransaction make the treasury,   *)
(* the cheques and the documents serializable, the account of a clearing    *)
(* included, which is read before any lock (lockTreasuryBanks,              *)
(* lockSettlementDocuments, updateChequeStatus).                            *)
THEOREM TransactionsActOneAtATime == Spec => ActsOneAtATime
<1>1. Init => SerialInit
  BY SettlementAssumption, InitIsSerial
<1>2. IInv /\ [Next]_vars => [SerialNext]_data
  BY SettlementAssumption, NextIsOne
<1> QED BY <1>1, <1>2, ChecksHoldUntilWritten, PTL DEF Spec, ActsOneAtATime
=============================================================================
