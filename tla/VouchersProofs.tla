--------------------------- MODULE VouchersProofs ---------------------------
(* Proofs about Vouchers.  The inductive invariant says what each session  *)
(* holds and still asks for (LocksInv), what it may rely on of what it     *)
(* read (FactsInv), what a voucher of the journal is (EntryInv), that it   *)
(* is taken back once (ReversalInv), and what a closed year and an open    *)
(* one contain (YearInv).  That closed years post nothing                  *)
(* (ClosedYearsAreEmpty) is shown upon it.                                 *)
EXTENDS Vouchers, FiniteSetsExt, FiniteSetTheorems, SequenceTheorems, TLAPS

-----------------------------------------------------------------------------
(* Sums and counting.                                                      *)

(* The fold behind a sum picks one element after the other.                 *)
PartialSums(F, sum, S) ==
    sum = [T \in SUBSET S |-> IF T = {} THEN 0
                              ELSE F[CHOOSE x \in T : TRUE] + sum[T \ {CHOOSE x \in T : TRUE}]]

LEMMA SumIsPartial ==
    ASSUME NEW F, NEW S
    PROVE  SumFunctionOnSet(F, S) = (CHOOSE sum : PartialSums(F, sum, S))[S]
BY Zenon DEF SumFunctionOnSet, FoldFunctionOnSet, MapThenFoldSet, PartialSums

(* Induction over a finite set: of the sets that lack something one lacks it *)
(* first.                                                                   *)
LEMMA SmallestSet ==
    ASSUME NEW S, IsFiniteSet(S), NEW Bad \in SUBSET SUBSET S, Bad # {}
    PROVE  \E T \in Bad : \A U \in SUBSET T : U # T => U \notin Bad
<1>1. IsWellFoundedOn(StrictSubsetOrdering(S), FiniteSubsetsOf(S))
      BY FS_StrictSubsetOrderingWellFounded
<1>2. Bad \subseteq FiniteSubsetsOf(S)
      BY FS_Subset DEF FiniteSubsetsOf
<1>3. PICK T \in Bad : \A U \in Bad : ~ (<<U, T>> \in StrictSubsetOrdering(S))
      BY <1>1, <1>2, WFMin
<1>4. QED
      BY <1>3 DEF StrictSubsetOrdering

LEMMA PartialsAgree ==
    ASSUME NEW S, IsFiniteSet(S), NEW F, NEW A \in SUBSET S, NEW B \in SUBSET S,
           NEW f, NEW g, PartialSums(F, f, A), PartialSums(F, g, B)
    PROVE  \A T \in SUBSET (A \cap B) : f[T] = g[T]
<1> DEFINE Bad == {T \in SUBSET (A \cap B) : f[T] # g[T]}
<1>1. SUFFICES ASSUME Bad # {} PROVE FALSE
      OBVIOUS
<1>a. Bad \in SUBSET SUBSET S
      OBVIOUS
<1>2. PICK T \in Bad : \A U \in SUBSET T : U # T => U \notin Bad
  <2> HIDE DEF Bad
  <2>1. QED
        BY <1>1, <1>a, SmallestSet
<1> DEFINE x == CHOOSE x \in T : TRUE
<1>3. T \in SUBSET A /\ T \in SUBSET B
      BY <1>2
<1>4. /\ f[T] = IF T = {} THEN 0 ELSE F[x] + f[T \ {x}]
      /\ g[T] = IF T = {} THEN 0 ELSE F[x] + g[T \ {x}]
      BY <1>3 DEF PartialSums
<1>5. T # {}
      BY <1>2, <1>4
<1>6. x \in T
      BY <1>5
<1>7. T \ {x} \notin Bad
      BY <1>2, <1>6
<1>8. f[T \ {x}] = g[T \ {x}]
      BY <1>2, <1>7
<1>9. QED
      BY <1>2, <1>4, <1>5, <1>8

LEMMA PartialsExist ==
    ASSUME NEW S, IsFiniteSet(S), NEW F
    PROVE  \A A \in SUBSET S : \E sum : PartialSums(F, sum, A)
<1> DEFINE Bad == {A \in SUBSET S : ~ \E sum : PartialSums(F, sum, A)}
           Of(A) == CHOOSE sum : PartialSums(F, sum, A)
           x(T) == CHOOSE y \in T : TRUE
<1>1. SUFFICES ASSUME Bad # {} PROVE FALSE
      OBVIOUS
<1>2. Bad \in SUBSET SUBSET S
      OBVIOUS
<1>3. PICK A \in Bad : \A U \in SUBSET A : U # A => U \notin Bad
  <2> HIDE DEF Bad
  <2>1. QED
        BY <1>1, <1>2, SmallestSet
<1>4. \A U \in SUBSET A : U # A => PartialSums(F, Of(U), U)
      BY <1>3
<1>5. \A T \in SUBSET A : T # {} => x(T) \in T
      OBVIOUS
<1> DEFINE sum == [T \in SUBSET A |-> IF T = {} THEN 0 ELSE F[x(T)] + Of(T \ {x(T)})[T \ {x(T)}]]
<1>6. \A T \in SUBSET A : T # {} => sum[T] = F[x(T)] + Of(T \ {x(T)})[T \ {x(T)}]
  <2> HIDE DEF Of, x
  <2>1. QED
        OBVIOUS
<1>7. sum[{}] = 0
  <2> HIDE DEF Of, x
  <2>1. QED
        OBVIOUS
<1>8. \A U \in SUBSET A : U # A =>
          \A T \in SUBSET U : Of(U)[T] = IF T = {} THEN 0 ELSE F[x(T)] + Of(U)[T \ {x(T)}]
  <2>1. SUFFICES ASSUME NEW U \in SUBSET A, U # A, NEW T \in SUBSET U
                 PROVE  Of(U)[T] = IF T = {} THEN 0 ELSE F[x(T)] + Of(U)[T \ {x(T)}]
        OBVIOUS
  <2>2. PartialSums(F, Of(U), U)
        BY <1>4, <2>1
  <2> HIDE DEF Of
  <2>3. QED
        BY <2>2 DEF PartialSums
<1> HIDE DEF sum, x
<1>9. ASSUME NEW T \in SUBSET A, T # {}
      PROVE  sum[T \ {x(T)}] = Of(T \ {x(T)})[T \ {x(T)}]
  <2> DEFINE U == T \ {x(T)}
  <2>1. U \in SUBSET A /\ U # A
        BY <1>5, <1>9
  <2> HIDE DEF Of, U
  <2>2. CASE U = {}
    <3>1. Of(U)[U] = 0
          BY <1>8, <2>1, <2>2
    <3>2. QED
          BY <1>7, <2>2, <3>1 DEF U
  <2>3. CASE U # {}
    <3> DEFINE V == U \ {x(U)}
    <3>1. x(U) \in U /\ V \in SUBSET A /\ V # A /\ V \in SUBSET U
          BY <1>5, <2>1, <2>3
    <3>2. PartialSums(F, Of(V), V) /\ PartialSums(F, Of(U), U)
          BY <1>4, <2>1, <3>1
    <3>3. Of(U)[U] = F[x(U)] + Of(U)[V]
          BY <1>8, <2>1, <2>3
    <3>4. U \in SUBSET S /\ V \in SUBSET S
          BY <1>2, <2>1, <3>1
    <3> HIDE DEF V
    <3>5. \A W \in SUBSET (U \cap V) : Of(U)[W] = Of(V)[W]
          BY <3>2, <3>4, PartialsAgree
    <3>6. Of(U)[V] = Of(V)[V]
          BY <3>1, <3>5
    <3>7. sum[U] = F[x(U)] + Of(V)[V]
          BY <1>6, <2>1, <2>3 DEF V
    <3>8. QED
          BY <3>3, <3>6, <3>7 DEF U
  <2>4. QED
        BY <2>2, <2>3
<1>10. \A T \in SUBSET A : sum[T] = IF T = {} THEN 0 ELSE F[x(T)] + sum[T \ {x(T)}]
      BY <1>6, <1>7, <1>9
<1>11. sum = [T \in SUBSET A |-> sum[T]]
      BY DEF sum
<1>12. sum = [T \in SUBSET A |-> IF T = {} THEN 0 ELSE F[x(T)] + sum[T \ {x(T)}]]
      BY <1>10, <1>11
<1>13. PartialSums(F, sum, A)
      BY <1>12 DEF PartialSums, x
<1>14. QED
      BY <1>3, <1>13

(* A sum adds what one element has to the sum of the others; which one the  *)
(* fold picked first is settled by SumOfOne below.                          *)
LEMMA SumPicks ==
    ASSUME NEW S, IsFiniteSet(S), NEW F
    PROVE  SumFunctionOnSet(F, S) =
              IF S = {} THEN 0
              ELSE F[CHOOSE x \in S : TRUE] + SumFunctionOnSet(F, S \ {CHOOSE x \in S : TRUE})
<1> DEFINE Of(A) == CHOOSE sum : PartialSums(F, sum, A)
           x == CHOOSE x \in S : TRUE
           U == S \ {x}
<1>1. S \in SUBSET S /\ U \in SUBSET S
      OBVIOUS
<1>2. PartialSums(F, Of(S), S) /\ PartialSums(F, Of(U), U)
      BY <1>1, PartialsExist
<1>3. SumFunctionOnSet(F, S) = Of(S)[S] /\ SumFunctionOnSet(F, U) = Of(U)[U]
      BY SumIsPartial
<1> HIDE DEF Of
<1>4. Of(S)[S] = IF S = {} THEN 0 ELSE F[x] + Of(S)[U]
      BY <1>1, <1>2 DEF PartialSums
<1>5. Of(S)[U] = Of(U)[U]
  <2> HIDE DEF U
  <2>1. \A T \in SUBSET (S \cap U) : Of(S)[T] = Of(U)[T]
        BY <1>1, <1>2, PartialsAgree
  <2>2. QED
        BY <1>1, <2>1
<1>6. QED
      BY <1>3, <1>4, <1>5

LEMMA SumOfNone == \A F : SumFunctionOnSet(F, {}) = 0
<1>1. ASSUME NEW F PROVE SumFunctionOnSet(F, {}) = 0
  <2>1. IsFiniteSet({})
        BY FS_EmptySet
  <2>2. QED
        BY <2>1, SumPicks
<1>2. QED
      BY <1>1

LEMMA SumType ==
    ASSUME NEW S, IsFiniteSet(S), NEW F, \A x \in S : F[x] \in Int
    PROVE  SumFunctionOnSet(F, S) \in Int
<1> DEFINE Bad == {T \in SUBSET S : SumFunctionOnSet(F, T) \notin Int}
<1>1. SUFFICES ASSUME Bad # {} PROVE FALSE
      OBVIOUS
<1>2. Bad \in SUBSET SUBSET S
      OBVIOUS
<1>3. PICK T \in Bad : \A U \in SUBSET T : U # T => U \notin Bad
  <2> HIDE DEF Bad
  <2>1. QED
        BY <1>1, <1>2, SmallestSet
<1>4. PICK x : x = CHOOSE y \in T : TRUE
      OBVIOUS
<1>5. IsFiniteSet(T)
      BY <1>2, FS_Subset
<1>6. SumFunctionOnSet(F, T) = IF T = {} THEN 0 ELSE F[x] + SumFunctionOnSet(F, T \ {x})
      BY <1>4, <1>5, SumPicks
<1>7. T # {}
      BY <1>6
<1>8. x \in T
      BY <1>4, <1>7
<1>9. SumFunctionOnSet(F, T \ {x}) \in Int
      BY <1>3, <1>8
<1>10. QED
      BY <1>6, <1>7, <1>8, <1>9

LEMMA SumOfOne ==
    ASSUME NEW S, IsFiniteSet(S), NEW F, \A x \in S : F[x] \in Int, NEW x \in S
    PROVE  SumFunctionOnSet(F, S) = F[x] + SumFunctionOnSet(F, S \ {x})
<1> DEFINE Bad == {T \in SUBSET S : \E y \in T : SumFunctionOnSet(F, T) # F[y] + SumFunctionOnSet(F, T \ {y})}
<1>1. SUFFICES ASSUME Bad # {} PROVE FALSE
      OBVIOUS
<1>2. Bad \in SUBSET SUBSET S
      OBVIOUS
<1>3. PICK T \in Bad : \A U \in SUBSET T : U # T => U \notin Bad
  <2> HIDE DEF Bad
  <2>1. QED
        BY <1>1, <1>2, SmallestSet
<1>4. PICK y \in T : SumFunctionOnSet(F, T) # F[y] + SumFunctionOnSet(F, T \ {y})
      OBVIOUS
<1>5. PICK z : z = CHOOSE u \in T : TRUE
      OBVIOUS
<1>6. z \in T
      BY <1>4, <1>5
<1>7. IsFiniteSet(T) /\ IsFiniteSet(T \ {y}) /\ IsFiniteSet(T \ {z}) /\ IsFiniteSet((T \ {y}) \ {z})
      BY <1>2, FS_Subset
<1>8. SumFunctionOnSet(F, T) = F[z] + SumFunctionOnSet(F, T \ {z})
      BY <1>5, <1>6, <1>7, SumPicks
<1>9. y # z
      BY <1>4, <1>8
<1>10. T \ {z} \notin Bad /\ T \ {y} \notin Bad
      BY <1>3, <1>4, <1>6
<1>11. SumFunctionOnSet(F, T \ {z}) = F[y] + SumFunctionOnSet(F, (T \ {z}) \ {y})
      BY <1>4, <1>9, <1>10
<1>12. SumFunctionOnSet(F, T \ {y}) = F[z] + SumFunctionOnSet(F, (T \ {y}) \ {z})
      BY <1>4, <1>6, <1>9, <1>10
<1>13. (T \ {z}) \ {y} = (T \ {y}) \ {z}
      OBVIOUS
<1>14. SumFunctionOnSet(F, (T \ {y}) \ {z}) \in Int
      BY <1>7, SumType
<1>15. F[y] \in Int /\ F[z] \in Int
      BY <1>4, <1>6
<1>16. SumFunctionOnSet(F, T) = F[y] + SumFunctionOnSet(F, T \ {y})
  <2>1. \A a, b, c \in Int : c + (a + b) = a + (c + b)
        OBVIOUS
  <2>2. F[z] + (F[y] + SumFunctionOnSet(F, (T \ {y}) \ {z})) = F[y] + (F[z] + SumFunctionOnSet(F, (T \ {y}) \ {z}))
    <3> HIDE DEF Bad
    <3>1. QED
          BY <1>14, <1>15, <2>1, Zenon
  <2>3. QED
        BY <1>8, <1>11, <1>12, <1>13, <2>2, Zenon
<1>17. QED
      BY <1>4, <1>16

LEMMA SumSame ==
    ASSUME NEW S, IsFiniteSet(S), NEW F, NEW G, \A x \in S : F[x] = G[x]
    PROVE  SumFunctionOnSet(F, S) = SumFunctionOnSet(G, S)
<1> DEFINE Bad == {T \in SUBSET S : SumFunctionOnSet(F, T) # SumFunctionOnSet(G, T)}
<1>1. SUFFICES ASSUME Bad # {} PROVE FALSE
      OBVIOUS
<1>2. Bad \in SUBSET SUBSET S
      OBVIOUS
<1>3. PICK T \in Bad : \A U \in SUBSET T : U # T => U \notin Bad
  <2> HIDE DEF Bad
  <2>1. QED
        BY <1>1, <1>2, SmallestSet
<1>4. PICK x : x = CHOOSE y \in T : TRUE
      OBVIOUS
<1>5. IsFiniteSet(T)
      BY <1>2, FS_Subset
<1>6. /\ SumFunctionOnSet(F, T) = IF T = {} THEN 0 ELSE F[x] + SumFunctionOnSet(F, T \ {x})
      /\ SumFunctionOnSet(G, T) = IF T = {} THEN 0 ELSE G[x] + SumFunctionOnSet(G, T \ {x})
      BY <1>4, <1>5, SumPicks
<1>7. T # {}
      BY <1>3, <1>6
<1>8. x \in T
      BY <1>4, <1>7
<1>9. SumFunctionOnSet(F, T \ {x}) = SumFunctionOnSet(G, T \ {x})
      BY <1>3, <1>8
<1>10. QED
      BY <1>3, <1>6, <1>7, <1>8, <1>9

LEMMA SumOfMore ==
    ASSUME NEW S, IsFiniteSet(S), NEW F, NEW x, x \notin S, \A y \in S \cup {x} : F[y] \in Int
    PROVE  SumFunctionOnSet(F, S \cup {x}) = F[x] + SumFunctionOnSet(F, S)
<1> DEFINE T == S \cup {x}
<1>1. IsFiniteSet(T)
      BY FS_AddElement
<1>2. x \in T /\ T \ {x} = S /\ \A y \in T : F[y] \in Int
      OBVIOUS
<1> HIDE DEF T
<1>3. SumFunctionOnSet(F, T) = F[x] + SumFunctionOnSet(F, T \ {x})
      BY <1>1, <1>2, SumOfOne
<1>4. QED
      BY <1>2, <1>3 DEF T

LEMMA SumOfTwo ==
    ASSUME NEW A, IsFiniteSet(A), NEW B, IsFiniteSet(B), A \cap B = {}, NEW F, \A x \in A \cup B : F[x] \in Int
    PROVE  SumFunctionOnSet(F, A \cup B) = SumFunctionOnSet(F, A) + SumFunctionOnSet(F, B)
<1> DEFINE Bad == {T \in SUBSET B : SumFunctionOnSet(F, A \cup T) # SumFunctionOnSet(F, A) + SumFunctionOnSet(F, T)}
<1>1. SUFFICES ASSUME Bad # {} PROVE FALSE
      OBVIOUS
<1>2. Bad \in SUBSET SUBSET B
      OBVIOUS
<1>3. PICK T \in Bad : \A U \in SUBSET T : U # T => U \notin Bad
  <2> HIDE DEF Bad
  <2>1. QED
        BY <1>1, <1>2, SmallestSet
<1>4. SumFunctionOnSet(F, A) \in Int
      BY SumType
<1>5. T # {}
  <2>1. ASSUME T = {} PROVE FALSE
    <3>1. A \cup T = A /\ SumFunctionOnSet(F, T) = 0
          BY <2>1, SumOfNone
    <3>2. PICK n : n = SumFunctionOnSet(F, A)
          OBVIOUS
    <3>3. n = n + 0
          BY <1>4, <3>2
    <3>4. QED
          BY <1>3, <3>1, <3>2, <3>3
  <2>2. QED
        BY <2>1
<1>6. PICK x \in T : TRUE
      BY <1>5
<1>7. PICK U : U = T \ {x}
      OBVIOUS
<1>8. U \in SUBSET T /\ U # T /\ T \in SUBSET B /\ T = U \cup {x} /\ A \cup T = (A \cup U) \cup {x} /\ x \notin A \cup U /\ x \notin U
      BY <1>6, <1>7
<1>9. SumFunctionOnSet(F, A \cup U) = SumFunctionOnSet(F, A) + SumFunctionOnSet(F, U)
      BY <1>3, <1>8
<1>10. IsFiniteSet(U) /\ IsFiniteSet(A \cup U)
      BY <1>8, FS_Subset, FS_Union
<1>11. F[x] \in Int /\ (\A y \in U \cup {x} : F[y] \in Int) /\ \A y \in (A \cup U) \cup {x} : F[y] \in Int
      BY <1>6, <1>8
<1>12. SumFunctionOnSet(F, U \cup {x}) = F[x] + SumFunctionOnSet(F, U)
      BY <1>8, <1>10, <1>11, SumOfMore
<1>13. PICK V : V = A \cup U
      OBVIOUS
<1>14. SumFunctionOnSet(F, V \cup {x}) = F[x] + SumFunctionOnSet(F, V)
      BY <1>8, <1>10, <1>11, <1>13, SumOfMore
<1>15. SumFunctionOnSet(F, U) \in Int
      BY <1>10, <1>11, SumType
<1>16. SumFunctionOnSet(F, A \cup T) = SumFunctionOnSet(F, A) + SumFunctionOnSet(F, T)
  <2>1. \A a, b, c \in Int : c + (a + b) = a + (c + b)
        OBVIOUS
  <2>2. F[x] + (SumFunctionOnSet(F, A) + SumFunctionOnSet(F, U)) = SumFunctionOnSet(F, A) + (F[x] + SumFunctionOnSet(F, U))
    <3> HIDE DEF Bad
    <3>1. QED
          BY <1>4, <1>11, <1>15, <2>1, Zenon
  <2>3. QED
        BY <1>8, <1>9, <1>12, <1>13, <1>14, <2>2, Zenon
<1>17. QED
      BY <1>3, <1>16

(* What comes in pairs of opposites adds up to nothing.                     *)
LEMMA SumOfPairs ==
    ASSUME NEW S, IsFiniteSet(S), NEW F, \A x \in S : F[x] \in Int, NEW partner \in [S -> S],
           \A x \in S : /\ partner[partner[x]] = x
                        /\ partner[x] # x
                        /\ F[partner[x]] = 0 - F[x]
    PROVE  SumFunctionOnSet(F, S) = 0
<1> DEFINE Bad == {T \in SUBSET S : (\A x \in T : partner[x] \in T) /\ SumFunctionOnSet(F, T) # 0}
<1>1. SUFFICES ASSUME Bad # {} PROVE FALSE
      OBVIOUS
<1>2. Bad \in SUBSET SUBSET S
      OBVIOUS
<1>3. PICK T \in Bad : \A U \in SUBSET T : U # T => U \notin Bad
  <2> HIDE DEF Bad
  <2>1. QED
        BY <1>1, <1>2, SmallestSet
<1>4. T # {}
      BY SumOfNone
<1>5. PICK x \in T : TRUE
      BY <1>4
<1>6. PICK y : y = partner[x]
      OBVIOUS
<1>7. y \in T /\ y # x /\ F[y] = 0 - F[x] /\ partner[y] = x /\ F[x] \in Int /\ F[y] \in Int /\ T \in SUBSET S
      BY <1>5, <1>6
<1>8. PICK U : U = (T \ {x}) \ {y}
      OBVIOUS
<1>9. \A z \in U : partner[z] \in U
      BY <1>6, <1>7, <1>8
<1>10. U \in SUBSET T /\ U # T /\ U \in SUBSET S
      BY <1>5, <1>7, <1>8
<1>11. SumFunctionOnSet(F, U) = 0
      BY <1>3, <1>9, <1>10
<1>12. IsFiniteSet(T) /\ IsFiniteSet(T \ {x})
      BY <1>7, FS_Subset
<1>13. SumFunctionOnSet(F, T) = F[x] + SumFunctionOnSet(F, T \ {x})
      BY <1>7, <1>12, SumOfOne
<1>14. PICK R : R = T \ {x}
      OBVIOUS
<1>19. y \in R /\ IsFiniteSet(R) /\ (\A z \in R : F[z] \in Int)
      BY <1>7, <1>12, <1>14
<1>15. SumFunctionOnSet(F, R) = F[y] + SumFunctionOnSet(F, R \ {y})
      BY <1>19, SumOfOne
<1>16. SumFunctionOnSet(F, T) = F[x] + (F[y] + 0)
      BY <1>8, <1>11, <1>13, <1>14, <1>15
<1>17. F[x] + (F[y] + 0) = 0
      BY <1>7
<1>18. QED
      BY <1>3, <1>16, <1>17

(* Of elements with a key one is last.                                      *)
LEMMA LastOfSet ==
    ASSUME NEW S, IsFiniteSet(S), S # {}, NEW key \in [S -> Int]
    PROVE  \E m \in S : \A x \in S : key[x] <= key[m]
<1> DEFINE Bad == {T \in SUBSET S : T # {} /\ ~ \E m \in T : \A x \in T : key[x] <= key[m]}
<1>1. SUFFICES ASSUME Bad # {} PROVE FALSE
      OBVIOUS
<1>2. Bad \in SUBSET SUBSET S
      OBVIOUS
<1>3. PICK T \in Bad : \A U \in SUBSET T : U # T => U \notin Bad
  <2> HIDE DEF Bad
  <2>1. QED
        BY <1>1, <1>2, SmallestSet
<1>4. PICK x \in T : TRUE
      OBVIOUS
<1>5. \A z \in T : key[z] \in Int
      OBVIOUS
<1>6. CASE T \ {x} = {}
  <2>1. \A z \in T : z = x
        BY <1>6
  <2>2. QED
        BY <1>4, <1>5, <2>1
<1>7. CASE T \ {x} # {}
  <2>a. T \ {x} \notin Bad
    <3> HIDE DEF Bad
    <3>1. T \ {x} \in SUBSET T /\ T \ {x} # T
          BY <1>4
    <3>2. QED
          BY <1>3, <3>1
  <2>b. T \ {x} \in SUBSET S
        BY <1>3
  <2>1. PICK m \in T \ {x} : \A z \in T \ {x} : key[z] <= key[m]
        BY <1>7, <2>a, <2>b
  <2>2. CASE key[x] <= key[m]
        BY <1>5, <2>1, <2>2
  <2>3. CASE ~ (key[x] <= key[m])
    <3>1. \A z \in T : key[z] <= key[x]
          BY <1>4, <1>5, <2>1, <2>3
    <3>2. QED
          BY <1>4, <3>1
  <2>4. QED
        BY <2>2, <2>3
<1>8. QED
      BY <1>6, <1>7

(* Elements that differ in their keys can be counted: the n-th has n - 1    *)
(* before it.                                                               *)
LEMMA NthOfSet ==
    ASSUME NEW S, IsFiniteSet(S), NEW key \in [S -> Int], \A x, y \in S : key[x] = key[y] => x = y
    PROVE  \A n \in 1..Cardinality(S) : \E x \in S : Cardinality({y \in S : key[y] < key[x]}) = n - 1
<1> DEFINE Before(T, x) == {y \in T : key[y] < key[x]}
           Bad == {T \in SUBSET S : \E n \in 1..Cardinality(T) : \A x \in T : Cardinality(Before(T, x)) # n - 1}
<1>1. SUFFICES ASSUME Bad # {} PROVE FALSE
  <2>1. ASSUME NEW n \in 1..Cardinality(S), \A x \in S : Cardinality(Before(S, x)) # n - 1 PROVE S \in Bad
    <3> HIDE DEF Before
    <3>1. QED
          BY <2>1
  <2>2. QED
        BY <2>1
<1>2. Bad \in SUBSET SUBSET S
      OBVIOUS
<1>3. PICK T \in Bad : \A U \in SUBSET T : U # T => U \notin Bad
  <2> HIDE DEF Bad
  <2>1. QED
        BY <1>1, <1>2, SmallestSet
<1>4. PICK n \in 1..Cardinality(T) : \A x \in T : Cardinality(Before(T, x)) # n - 1
      OBVIOUS
<1>5. IsFiniteSet(T) /\ T \in SUBSET S
      BY <1>3, FS_Subset
<1>6. Cardinality(T) \in Nat /\ n \in Nat /\ n >= 1 /\ n <= Cardinality(T)
      BY <1>4, <1>5, FS_CardinalityType
<1>7. T # {}
      BY <1>6, FS_EmptySet
<1>8. PICK m \in T : \A x \in T : key[x] <= key[m]
  <2>1. PICK k : k = [x \in T |-> key[x]]
        OBVIOUS
  <2>2. k \in [T -> Int] /\ \A x \in T : k[x] = key[x]
        BY <1>5, <2>1
  <2>3. \E m \in T : \A x \in T : k[x] <= k[m]
        BY <1>5, <1>7, <2>2, LastOfSet
  <2>4. QED
        BY <2>2, <2>3
<1>9. PICK U : U = T \ {m}
      OBVIOUS
<1>10. IsFiniteSet(U) /\ Cardinality(U) = Cardinality(T) - 1 /\ U \in SUBSET T /\ U # T /\ U \in SUBSET S
      BY <1>5, <1>8, <1>9, FS_RemoveElement
<1>11. \A x \in T : key[x] \in Int
      BY <1>5
<1>12. CASE n = Cardinality(T)
  <2>1. Before(T, m) = U
        BY <1>5, <1>8, <1>9, <1>11
  <2>2. Cardinality(Before(T, m)) = n - 1
        BY <1>10, <1>12, <2>1
  <2>3. QED
        BY <1>4, <1>8, <2>2
<1>13. CASE n # Cardinality(T)
  <2>1. n \in 1..Cardinality(U)
        BY <1>6, <1>10, <1>13
  <2>2. PICK x \in U : Cardinality(Before(U, x)) = n - 1
        BY <1>3, <1>10, <2>1
  <2>3. ~ (key[m] < key[x])
        BY <1>8, <1>9, <1>11, <2>2
  <2>4. Before(T, x) = Before(U, x)
        BY <1>9, <2>3
  <2>5. QED
        BY <1>4, <1>9, <2>2, <2>4
<1>14. QED
      BY <1>12, <1>13

-----------------------------------------------------------------------------
(* What a session holds, what it relies on, and what the journal keeps.    *)


VoucherOps == {"edit", "delete", "status", "reverse", "correct", "voidSource"}
YearOps == {"close", "reopen"}

(* The year a session writes in, but for a closing and a reopening. *)
WritesIn(s) ==
    LET v == tx[s].id IN
    IF tx[s].op \in {"delete", "status"} \/ (tx[s].op = "voidSource" /\ voucher[v].status = "draft")
    THEN voucher[v].year
    ELSE tx[s].year

(* Two sessions never hold locks that exclude each other; a session that   *)
(* is about to write holds its voucher and shares its year, or holds the   *)
(* years' sequence and its year alone.                                     *)
ApartInv == \A s, p \in Sessions : s # p => \A h \in tx[s].held, l \in tx[p].held : ~ Conflict(h, l)

Holds(s) ==
    /\ tx[s].op = "none" => tx[s] = Idle
    /\ tx[s].op \in {"create", "issue"} =>
          /\ tx[s].year \in Years /\ tx[s].checked
          /\ tx[s].need = << >>
          /\ shareYear(tx[s].year) \in tx[s].held
    /\ tx[s].op \in VoucherOps =>
          /\ tx[s].id \in Ids
          /\ tx[s].op \notin {"delete", "status"} => tx[s].year \in Years
          /\ lockVoucher(tx[s].id) \in tx[s].held
          /\ ~ tx[s].checked => tx[s].need = << >>
          /\ tx[s].checked => \/ tx[s].need = <<shareYear(WritesIn(s))>>
                              \/ tx[s].need = << >> /\ shareYear(WritesIn(s)) \in tx[s].held
    /\ tx[s].op \in YearOps =>
          /\ tx[s].year \in Years
          /\ Sequence \in tx[s].held
          /\ ~ tx[s].checked => tx[s].need \in {<<lockYear(tx[s].year)>>, << >>}
          /\ tx[s].checked \/ tx[s].need = << >> => lockYear(tx[s].year) \in tx[s].held

LocksInv == ApartInv /\ \A s \in Sessions : Holds(s)

(* What the vouchers of a journal post in some years.                      *)
BooksIn(journal, years) ==
    [a \in Accounts |-> SumFunctionOnSet([v \in Ids |-> journal[v].rows[a]],
                                         {v \in Ids : journal[v].status \in {"approved", "permanent"} /\ journal[v].year \in years})]

(* What a session read under its locks still holds when it writes: the     *)
(* balances of a year closed in order are those of the closed years before *)
(* it and its own.                                                         *)
Seen(s) ==
    /\ tx[s].checked
    /\ findDraftVouchersOfYear(tx[s].year) = {}
    /\ tx[s].year \notin late => tx[s].balance = BooksIn(voucher, (closed \cap 1..tx[s].year) \cup {tx[s].year})

Facts(s) ==
    LET v == tx[s].id IN
    /\ tx[s].op = "create" => /\ tx[s].want \in {"draft", "approved"}
                              /\ tx[s].want = "approved" => tx[s].user \in Admins
    /\ tx[s].op = "issue" => tx[s].want \in {"draft", "approved"}
    /\ tx[s].op \in VoucherOps => Live(v)
    /\ tx[s].op \in {"edit", "delete"} /\ tx[s].checked => voucher[v].status = "draft"
    /\ tx[s].op = "status" => tx[s].want \in Statuses
    /\ tx[s].op = "status" /\ tx[s].checked =>
          /\ tx[s].want = "draft" /\ voucher[v].status # "draft" => mayReturnToDraft(v)
          /\ MayApprove(v, tx[s].want, tx[s].user)
    /\ tx[s].op \in {"reverse", "correct"} => MayTakeBack(v)
    /\ tx[s].op \in {"reverse", "correct"} /\ tx[s].checked => mayReverse(v)
    /\ tx[s].op = "voidSource" => voucher[v].kind = "sourced" /\ ~ IsReversal(v)
    /\ tx[s].op = "voidSource" /\ tx[s].checked => voucher[v].status = "draft" \/ mayReverse(v)
    /\ tx[s].op = "close" => /\ tx[s].year < Today
                             /\ tx[s].checked => tx[s].year \notin closed
                             /\ tx[s].seen => Seen(s)
    /\ tx[s].op = "reopen" /\ tx[s].checked =>
          tx[s].year \in closed /\ \A y \in closed : y <= tx[s].year

FactsInv == \A s \in Sessions : Facts(s)

(* A voucher: only closings have a run, of their year or the one before; a *)
(* draft is neither a closing nor a reversal.                              *)
ReviewedByAnother(w) ==
    w.status \in {"approved", "permanent"} /\ w.kind = "manual" /\ w.reverses = 0 =>
        w.reviewer \notin {w.maker, w.editor} \ (Admins \cup {Nobody})

Sound(w) ==
    /\ w.run = 0 <=> w.kind # "closing"
    /\ w.kind = "closing" => w.status # "draft" /\ w.year \in {w.run, w.run + 1}
    /\ w.reverses # 0 => w.status # "draft"
    /\ ReviewedByAnother(w)

EntryInv == \A v \in Ids : Live(v) => Sound(voucher[v])

(* A reversal's original is in the books, is none itself, and has no other. *)
ReversalInv ==
    /\ \A r \in Ids : Live(r) /\ IsReversal(r) =>
          LET v == voucher[r].reverses IN
          /\ InBooks(v) /\ ~ IsReversal(v)
          /\ voucher[r].run = voucher[v].run
          /\ voucher[r].rows = Negative(voucher[v].rows)
    /\ \A q, r \in Ids : Live(q) /\ Live(r) /\ IsReversal(q) /\ voucher[q].reverses = voucher[r].reverses => q = r

YearInv ==
    \A y \in Years : IF y \in closed THEN findDraftVouchersOfYear(y) = {} ELSE activeClosingRunVouchers(y) = {}

IInv == TypeOK /\ LocksInv /\ FactsInv /\ EntryInv /\ ReversalInv /\ YearInv

(* The years closed so far, up to any year, post nothing, if none of them  *)
(* was closed out of order.                                                *)
ClosedYearsAreEmpty ==
    \A y \in 0..Today : late \cap closed \cap 1..y = {} => BooksIn(voucher, closed \cap 1..y) = NoRows

-----------------------------------------------------------------------------
(* Types *)

LEMMA ConstantFacts ==
    /\ Today \in Nat /\ Today >= 2
    /\ Ids \subseteq Nat \ {0} /\ IsFiniteSet(Ids) /\ 1 \in Ids
    /\ Admins \subseteq Users
    /\ \A y \in Years : y \in Nat /\ y # 0 /\ y <= Today
    /\ \A y \in Nat : y # 0 /\ y <= Today => y \in Years
BY VouchersAssumption DEF Years

LEMMA SceneFacts ==
    ASSUME scene \in Scenes
    PROVE  /\ scene.ops \in SUBSET Operations
           /\ scene.users \in SUBSET Users
           /\ scene.years \in SUBSET Years
           /\ scene.rows \in SUBSET [Accounts -> Int]
           /\ scene.ids \in SUBSET Ids
           /\ scene.first \in {"none", "approved", "permanent"}
           /\ scene.kind \in {"manual", "sourced"}
BY VouchersAssumption

LEMMA EmptyTypes ==
    /\ NoRows \in [Accounts -> Int]
    /\ NoVoucher \in Vouchers
    /\ Idle \in Transactions
<1>1. NoRows \in [Accounts -> Int]
      BY DEF NoRows
<1>2. 1 \in Years /\ 0 \in 0..Today - 1
      BY ConstantFacts
<1>3. NoVoucher \in Vouchers
      BY <1>1, <1>2 DEF NoVoucher, Vouchers, Statuses
<1>4. << >> \in Seq(Locks)
      OBVIOUS
<1>5. Idle \in Transactions
      BY <1>1, <1>4 DEF Idle, Transactions
<1>6. QED
      BY <1>1, <1>3, <1>5

LEMMA IdleFields == Idle.op = "none" /\ Idle.need = << >> /\ Idle.held = {}
BY DEF Idle

LEMMA LockTypes ==
    /\ Sequence \in Locks
    /\ \A y \in Nat : shareYear(y) \in Locks /\ lockYear(y) \in Locks /\ lockVoucher(y) \in Locks
BY DEF Sequence, shareYear, lockYear, lockVoucher, Locks

LEMMA HoldingIsTyped ==
    ASSUME NEW t \in Transactions, t.need # << >>
    PROVE  Holding(t) \in Transactions
<1>1. t.need \in Seq(Locks) /\ t.held \in SUBSET Locks
      BY DEF Transactions
<1>2. Tail(t.need) \in Seq(Locks) /\ Head(t.need) \in Locks
      BY <1>1, HeadTailProperties
<1>3. QED
      BY <1>1, <1>2 DEF Holding, Transactions

LEMMA PostedType ==
    ASSUME voucher \in [Ids -> Vouchers], NEW vs \in SUBSET Ids
    PROVE  Posted(vs) \in [Accounts -> Int]
<1>1. ASSUME NEW a \in Accounts
      PROVE  SumFunctionOnSet([v \in Ids |-> voucher[v].rows[a]], vs) \in Int
  <2>1. PICK F : F = [v \in Ids |-> voucher[v].rows[a]]
        OBVIOUS
  <2>2. \A v \in vs : F[v] \in Int
        BY <1>1, <2>1 DEF Vouchers
  <2>3. IsFiniteSet(vs)
        BY ConstantFacts, FS_Subset
  <2>4. SumFunctionOnSet(F, vs) \in Int
        BY <2>2, <2>3, SumType
  <2>5. QED
        BY <2>1, <2>4
<1>2. QED
      BY <1>1 DEF Posted

LEMMA BalanceType ==
    ASSUME TypeOK, NEW y
    PROVE  Balance(y) \in [Accounts -> Int]
BY PostedType DEF Balance, TypeOK

LEMMA NegativeType ==
    ASSUME NEW rows \in [Accounts -> Int]
    PROVE  Negative(rows) \in [Accounts -> Int]
BY DEF Negative

LEMMA SessionType ==
    ASSUME TypeOK, NEW s \in Sessions
    PROVE  /\ tx[s] \in Transactions
           /\ tx[s].op \in Operations \cup {"none"}
           /\ tx[s].id \in Ids \cup {0}
           /\ tx[s].user \in Users \cup {Nobody}
           /\ tx[s].year \in Years \cup {0}
           /\ tx[s].rows \in [Accounts -> Int]
           /\ tx[s].want \in Statuses \cup {""}
           /\ tx[s].opening \in BOOLEAN /\ tx[s].checked \in BOOLEAN /\ tx[s].seen \in BOOLEAN
           /\ tx[s].balance \in [Accounts -> Int]
           /\ tx[s].need \in Seq(Locks)
           /\ tx[s].held \in SUBSET Locks
BY DEF TypeOK, Transactions

LEMMA VoucherType ==
    ASSUME TypeOK, NEW v \in Ids
    PROVE  /\ voucher[v] \in Vouchers
           /\ voucher[v].status \in Statuses \cup {"none", "deleted"}
           /\ voucher[v].kind \in {"manual", "sourced", "closing"}
           /\ voucher[v].year \in Years
           /\ voucher[v].rows \in [Accounts -> Int]
           /\ voucher[v].run \in 0..Today - 1
           /\ voucher[v].reverses \in Ids \cup {0}
BY DEF TypeOK, Vouchers

LEMMA ReversalType ==
    ASSUME TypeOK, NEW v \in Ids, NEW y \in Years, NEW user \in Users \cup {Nobody}
    PROVE  /\ ReversalOf(v, y, user) \in Vouchers
           /\ ReversalOf(v, y, user).status = "approved"
           /\ ReversalOf(v, y, user).year = y
           /\ ReversalOf(v, y, user).kind = voucher[v].kind
           /\ ReversalOf(v, y, user).run = voucher[v].run
           /\ ReversalOf(v, y, user).reverses = v
           /\ ReversalOf(v, y, user).rows = Negative(voucher[v].rows)
<1>1. voucher[v] \in Vouchers /\ Negative(voucher[v].rows) \in [Accounts -> Int]
      BY VoucherType, NegativeType
<1>2. QED
      BY <1>1 DEF ReversalOf, Vouchers, Statuses

-----------------------------------------------------------------------------
(* Steps that only change a session's transaction. *)

LEMMA SameData ==
    ASSUME voucher' = voucher, closed' = closed
    PROVE  /\ \A v : /\ Live(v)' = Live(v) /\ InBooks(v)' = InBooks(v)
                     /\ Manual(v)' = Manual(v) /\ IsReversal(v)' = IsReversal(v)
                     /\ findActiveReversal(v)' = findActiveReversal(v)
                     /\ MayTakeBack(v)' = MayTakeBack(v) /\ mayReverse(v)' = mayReverse(v)
                     /\ mayReturnToDraft(v)' = mayReturnToDraft(v)
           /\ \A v, want, user : MayApprove(v, want, user)' = MayApprove(v, want, user)
           /\ \A y : /\ findDraftVouchersOfYear(y)' = findDraftVouchersOfYear(y)
                     /\ activeClosingRunVouchers(y)' = activeClosingRunVouchers(y)
<1>1. \A v : /\ Live(v)' = Live(v) /\ InBooks(v)' = InBooks(v)
             /\ Manual(v)' = Manual(v) /\ IsReversal(v)' = IsReversal(v)
             /\ findActiveReversal(v)' = findActiveReversal(v)
      BY DEF Live, InBooks, Manual, IsReversal, findActiveReversal
<1>2. \A v : /\ MayTakeBack(v)' = MayTakeBack(v) /\ mayReverse(v)' = mayReverse(v)
             /\ mayReturnToDraft(v)' = mayReturnToDraft(v)
      BY <1>1 DEF MayTakeBack, mayReverse, mayReturnToDraft
<1>3. \A v, want, user : MayApprove(v, want, user)' = MayApprove(v, want, user)
      BY <1>1 DEF MayApprove
<1>4. \A y : /\ findDraftVouchersOfYear(y)' = findDraftVouchersOfYear(y)
             /\ activeClosingRunVouchers(y)' = activeClosingRunVouchers(y)
      BY <1>1 DEF findDraftVouchersOfYear, activeClosingRunVouchers
<1>5. QED
      BY <1>1, <1>2, <1>3, <1>4

LEMMA OtherTransactions ==
    ASSUME IInv, NEW s \in Sessions, NEW t \in Transactions, tx' = [tx EXCEPT ![s] = t]
    PROVE  tx'[s] = t /\ \A p \in Sessions : p # s => tx'[p] = tx[p]
BY DEF IInv, TypeOK

(* Who holds the years' sequence is the only one who closes or reopens.    *)
LEMMA OneYearWriter ==
    ASSUME IInv, NEW s \in Sessions, NEW p \in Sessions, p # s, Sequence \in tx[s].held
    PROVE  tx[p].op \notin YearOps
<1>1. \A h \in tx[s].held, l \in tx[p].held : ~ Conflict(h, l)
      BY DEF IInv, LocksInv, ApartInv
<1>2. Sequence \notin tx[p].held
      BY <1>1 DEF Conflict, Sequence
<1>3. QED
      BY <1>2 DEF IInv, LocksInv, Holds

LEMMA ReadingStep ==
    ASSUME IInv, NEW s \in Sessions, NEW t \in Transactions, tx' = [tx EXCEPT ![s] = t],
           UNCHANGED <<scene, data>>,
           late' = late \/ (late' \in SUBSET Years /\ Sequence \in tx[s].held),
           \A h \in t.held : h \in tx[s].held \/ Blockers(s, h) = {},
           Holds(s)', Facts(s)'
    PROVE  IInv'
<1>1. voucher' = voucher /\ closed' = closed /\ scene' = scene
      BY DEF data
<1>2. tx'[s] = t /\ \A p \in Sessions : p # s => tx'[p] = tx[p]
      BY OtherTransactions
<1>3. TypeOK'
      BY <1>1 DEF IInv, TypeOK
<1>4. ApartInv'
  <2>1. \A p \in Sessions : p # s => \A h \in t.held, l \in tx[p].held : ~ Conflict(h, l) /\ ~ Conflict(l, h)
        BY DEF IInv, LocksInv, ApartInv, Blockers, Conflict
  <2>2. QED
        BY <1>2, <2>1 DEF IInv, LocksInv, ApartInv
<1>5. ASSUME NEW p \in Sessions, p # s PROVE Holds(p)'
  <2>1. WritesIn(p)' = WritesIn(p)
        BY <1>1, <1>2, <1>5 DEF WritesIn
  <2>2. QED
        BY <1>2, <1>5, <2>1 DEF IInv, LocksInv, Holds
<1>6. ASSUME NEW p \in Sessions, p # s PROVE Facts(p)'
  <2>1. tx[p].op = "close" => Seen(p)' = Seen(p)
    <3>1. tx[p].op = "close" => late' = late
          BY <1>6, OneYearWriter DEF YearOps
    <3>2. QED
          BY <1>1, <1>2, <1>6, <3>1, SameData DEF Seen
  <2>2. Facts(p)
        BY DEF IInv, FactsInv
  <2>3. tx'[p] = tx[p]
        BY <1>2, <1>6
  <2>4. QED
        BY <1>1, <2>1, <2>2, <2>3, SameData DEF Facts
<1>7. EntryInv'
      BY <1>1, SameData DEF IInv, EntryInv
<1>8. ReversalInv'
      BY <1>1, SameData DEF IInv, ReversalInv
<1>9. YearInv'
      BY <1>1, SameData DEF IInv, YearInv
<1>10. QED
      BY <1>3, <1>4, <1>5, <1>6, <1>7, <1>8, <1>9 DEF IInv, LocksInv, FactsInv

LEMMA TransactionStep ==
    ASSUME IInv, NEW s \in Sessions, NEW t \in Transactions, tx' = [tx EXCEPT ![s] = t],
           UNCHANGED <<scene, late, data>>,
           \A h \in t.held : h \in tx[s].held \/ Blockers(s, h) = {},
           Holds(s)', Facts(s)'
    PROVE  IInv'
BY ReadingStep

LEMMA Begun ==
    ASSUME IInv, NEW s \in Sessions, NEW t \in Transactions, t.need # << >>, t.held = {}, Begins(s, t)
    PROVE  /\ UNCHANGED <<scene, late, data>>
           /\ tx' = [tx EXCEPT ![s] = tx'[s]] /\ tx'[s] \in Transactions
           /\ tx'[s].op = t.op /\ tx'[s].id = t.id /\ tx'[s].user = t.user /\ tx'[s].year = t.year
           /\ tx'[s].rows = t.rows /\ tx'[s].want = t.want /\ tx'[s].checked = t.checked /\ tx'[s].seen = t.seen
           /\ tx'[s].need = Tail(t.need) /\ tx'[s].held = {Head(t.need)}
           /\ \A h \in tx'[s].held : h \in tx[s].held \/ Blockers(s, h) = {}
<1>1. PICK u : u = Holding(t)
      OBVIOUS
<1>2. u \in Transactions
      BY <1>1, HoldingIsTyped
<1>3. tx' = [tx EXCEPT ![s] = u] /\ UNCHANGED <<scene, late, data>> /\ Blockers(s, Head(t.need)) = {}
      BY <1>1 DEF Begins
<1>4. tx'[s] = u
      BY <1>2, <1>3, OtherTransactions
<1>5. /\ u.op = t.op /\ u.id = t.id /\ u.user = t.user /\ u.year = t.year
      /\ u.rows = t.rows /\ u.want = t.want /\ u.checked = t.checked /\ u.seen = t.seen
      /\ u.need = Tail(t.need) /\ u.held = {Head(t.need)}
      BY <1>1 DEF Holding, Transactions
<1>6. QED
      BY <1>2, <1>3, <1>4, <1>5

LEMMA BegunWithOne ==
    ASSUME IInv, NEW s \in Sessions, NEW t \in Transactions, NEW l, t.need = <<l>>, t.held = {}, Begins(s, t)
    PROVE  /\ UNCHANGED <<scene, late, data>>
           /\ tx' = [tx EXCEPT ![s] = tx'[s]] /\ tx'[s] \in Transactions
           /\ tx'[s].op = t.op /\ tx'[s].id = t.id /\ tx'[s].user = t.user /\ tx'[s].year = t.year
           /\ tx'[s].rows = t.rows /\ tx'[s].want = t.want /\ tx'[s].checked = t.checked /\ tx'[s].seen = t.seen
           /\ tx'[s].need = << >> /\ tx'[s].held = {l}
           /\ \A h \in tx'[s].held : h \in tx[s].held \/ Blockers(s, h) = {}
<1>1. t.need # << >> /\ Tail(t.need) = << >> /\ Head(t.need) = l
      OBVIOUS
<1>2. QED
      BY <1>1, Begun

LEMMA CreateBegins ==
    ASSUME IInv, NEW s \in Sessions,
           \/ \E user \in scene.users, y \in scene.years, rows \in scene.rows, status \in Statuses :
                 BeginCreate(s, user, y, rows, status)
           \/ \E y \in scene.years, rows \in scene.rows, status \in Statuses : BeginIssue(s, y, rows, status)
    PROVE  IInv'
<1>1. scene.years \in SUBSET Years /\ scene.rows \in SUBSET [Accounts -> Int] /\ scene.users \in SUBSET Users
      BY SceneFacts DEF IInv, TypeOK
<1>2. \A y \in Years : y \in Nat /\ <<shareYear(y)>> \in Seq(Locks)
      BY LockTypes, ConstantFacts
<1>3. CASE \E user \in scene.users, y \in scene.years, rows \in scene.rows, status \in Statuses :
              BeginCreate(s, user, y, rows, status)
  <2>0. PICK user \in scene.users, y \in scene.years, rows \in scene.rows, status \in Statuses :
              BeginCreate(s, user, y, rows, status)
        BY <1>3
  <2>1. PICK t : t = [Idle EXCEPT !.op = "create", !.user = user, !.year = y, !.rows = rows, !.want = status,
                      !.checked = TRUE, !.need = <<shareYear(y)>>]
        OBVIOUS
  <2>2. t \in Transactions /\ t.held = {} /\ t.need = <<shareYear(y)>> /\ t.op = "create" /\ t.year = y /\ t.want = status
        /\ t.user = user /\ t.checked
        BY <1>1, <1>2, <2>0, <2>1, EmptyTypes DEF Idle, Transactions, Operations
  <2>3. Begins(s, t) /\ (status = "draft" \/ (status = "approved" /\ user \in Admins))
        BY <2>0, <2>1 DEF BeginCreate
  <2>4. Holds(s)'
        BY <1>1, <2>0, <2>2, <2>3, BegunWithOne DEF Holds, VoucherOps, YearOps
  <2>5. Facts(s)'
        BY <2>2, <2>3, BegunWithOne DEF Facts, VoucherOps
  <2>6. QED
        BY <2>2, <2>3, <2>4, <2>5, BegunWithOne, TransactionStep
<1>4. CASE \E y \in scene.years, rows \in scene.rows, status \in Statuses : BeginIssue(s, y, rows, status)
  <2>0. PICK y \in scene.years, rows \in scene.rows, status \in Statuses : BeginIssue(s, y, rows, status)
        BY <1>4
  <2>1. PICK t : t = [Idle EXCEPT !.op = "issue", !.year = y, !.rows = rows, !.want = status,
                      !.checked = TRUE, !.need = <<shareYear(y)>>]
        OBVIOUS
  <2>2. t \in Transactions /\ t.held = {} /\ t.need = <<shareYear(y)>> /\ t.op = "issue" /\ t.year = y /\ t.want = status
        /\ t.checked
        BY <1>1, <1>2, <2>0, <2>1, EmptyTypes DEF Idle, Transactions, Operations
  <2>3. Begins(s, t) /\ status \in {"draft", "approved"}
        BY <2>0, <2>1 DEF BeginIssue
  <2>4. Holds(s)'
        BY <1>1, <2>0, <2>2, <2>3, BegunWithOne DEF Holds, VoucherOps, YearOps
  <2>5. Facts(s)'
        BY <2>2, <2>3, BegunWithOne DEF Facts, VoucherOps
  <2>6. QED
        BY <2>2, <2>3, <2>4, <2>5, BegunWithOne, TransactionStep
<1>5. QED
      BY <1>3, <1>4

(* Whatever works on a voucher begins with the voucher's row. *)
LEMMA VoucherBegins ==
    ASSUME IInv, NEW s \in Sessions, NEW t \in Transactions, NEW v \in Ids, Live(v),
           t.op \in VoucherOps, t.id = v, ~ t.checked, ~ t.seen, t.held = {}, t.need = <<lockVoucher(v)>>,
           t.op \notin {"delete", "status"} => t.year \in Years,
           t.op = "status" => t.want \in Statuses,
           t.op \in {"reverse", "correct"} => MayTakeBack(v),
           t.op = "voidSource" => voucher[v].kind = "sourced" /\ ~ IsReversal(v),
           Begins(s, t)
    PROVE  IInv'
<1>2. /\ UNCHANGED <<scene, late, data>>
      /\ tx' = [tx EXCEPT ![s] = tx'[s]] /\ tx'[s] \in Transactions
      /\ tx'[s].op = t.op /\ tx'[s].id = v /\ tx'[s].year = t.year
      /\ tx'[s].want = t.want /\ tx'[s].checked = t.checked
      /\ tx'[s].need = << >> /\ tx'[s].held = {lockVoucher(v)}
      /\ \A h \in tx'[s].held : h \in tx[s].held \/ Blockers(s, h) = {}
      BY BegunWithOne
<1>3. Holds(s)'
      BY <1>2 DEF Holds, VoucherOps, YearOps
<1>4. voucher' = voucher /\ closed' = closed
      BY <1>2 DEF data
<1>5. Facts(s)'
      BY <1>2, <1>4, SameData DEF Facts, VoucherOps
<1>6. QED
      BY <1>2, <1>3, <1>5, TransactionStep

LEMMA VoucherOperationsBegin ==
    ASSUME IInv, NEW s \in Sessions, NEW v \in Ids, Live(v),
           \/ \E user \in scene.users, y \in scene.years, rows \in scene.rows :
                 BeginEdit(s, user, v, y, rows) \/ BeginCorrect(s, user, v, y, rows)
           \/ BeginDelete(s, v)
           \/ \E user \in scene.users, want \in Statuses : BeginStatus(s, user, v, want)
           \/ \E user \in scene.users, y \in scene.years : BeginReverse(s, user, v, y)
           \/ \E y \in scene.years : BeginVoidSource(s, v, y)
    PROVE  IInv'
<1>1. /\ scene.years \in SUBSET Years /\ scene.rows \in SUBSET [Accounts -> Int] /\ scene.users \in SUBSET Users
      /\ v \in Nat
      BY SceneFacts, ConstantFacts DEF IInv, TypeOK
<1>2. <<lockVoucher(v)>> \in Seq(Locks)
      BY <1>1, LockTypes
<1>3. CASE \E user \in scene.users, y \in scene.years, rows \in scene.rows : BeginEdit(s, user, v, y, rows)
  <2>1. PICK user \in scene.users, y \in scene.years, rows \in scene.rows : BeginEdit(s, user, v, y, rows)
        BY <1>3
  <2>2. PICK t : t = [Idle EXCEPT !.op = "edit", !.id = v, !.user = user, !.year = y, !.rows = rows, !.need = <<lockVoucher(v)>>]
        OBVIOUS
  <2>3. t \in Transactions /\ t.op = "edit" /\ t.id = v /\ ~ t.checked /\ ~ t.seen /\ t.held = {} /\ t.need = <<lockVoucher(v)>> /\ t.year = y
        BY <1>1, <1>2, <2>1, <2>2, EmptyTypes DEF Idle, Transactions, Operations
  <2>4. Begins(s, t)
        BY <2>1, <2>2 DEF BeginEdit
  <2>5. QED
        BY <1>1, <2>1, <2>3, <2>4, VoucherBegins DEF VoucherOps
<1>4. CASE \E user \in scene.users, y \in scene.years, rows \in scene.rows : BeginCorrect(s, user, v, y, rows)
  <2>1. PICK user \in scene.users, y \in scene.years, rows \in scene.rows : BeginCorrect(s, user, v, y, rows)
        BY <1>4
  <2>2. PICK t : t = [Idle EXCEPT !.op = "correct", !.id = v, !.user = user, !.year = y, !.rows = rows, !.need = <<lockVoucher(v)>>]
        OBVIOUS
  <2>3. t \in Transactions /\ t.op = "correct" /\ t.id = v /\ ~ t.checked /\ ~ t.seen /\ t.held = {} /\ t.need = <<lockVoucher(v)>> /\ t.year = y
        BY <1>1, <1>2, <2>1, <2>2, EmptyTypes DEF Idle, Transactions, Operations
  <2>4. Begins(s, t) /\ MayTakeBack(v)
        BY <2>1, <2>2 DEF BeginCorrect
  <2>5. QED
        BY <1>1, <2>1, <2>3, <2>4, VoucherBegins DEF VoucherOps
<1>5. CASE BeginDelete(s, v)
  <2>2. PICK t : t = [Idle EXCEPT !.op = "delete", !.id = v, !.need = <<lockVoucher(v)>>]
        OBVIOUS
  <2>3. t \in Transactions /\ t.op = "delete" /\ t.id = v /\ ~ t.checked /\ ~ t.seen /\ t.held = {} /\ t.need = <<lockVoucher(v)>>
        BY <1>1, <1>2, <2>2, EmptyTypes DEF Idle, Transactions, Operations
  <2>4. Begins(s, t)
        BY <1>5, <2>2 DEF BeginDelete
  <2>5. QED
        BY <1>1, <2>3, <2>4, VoucherBegins DEF VoucherOps
<1>6. CASE \E user \in scene.users, want \in Statuses : BeginStatus(s, user, v, want)
  <2>1. PICK user \in scene.users, want \in Statuses : BeginStatus(s, user, v, want)
        BY <1>6
  <2>2. PICK t : t = [Idle EXCEPT !.op = "status", !.id = v, !.user = user, !.want = want, !.need = <<lockVoucher(v)>>]
        OBVIOUS
  <2>3. t \in Transactions /\ t.op = "status" /\ t.id = v /\ ~ t.checked /\ ~ t.seen /\ t.held = {} /\ t.need = <<lockVoucher(v)>> /\ t.want = want
        BY <1>1, <1>2, <2>1, <2>2, EmptyTypes DEF Idle, Transactions, Operations
  <2>4. Begins(s, t)
        BY <2>1, <2>2 DEF BeginStatus
  <2>5. QED
        BY <1>1, <2>1, <2>3, <2>4, VoucherBegins DEF VoucherOps
<1>7. CASE \E user \in scene.users, y \in scene.years : BeginReverse(s, user, v, y)
  <2>1. PICK user \in scene.users, y \in scene.years : BeginReverse(s, user, v, y)
        BY <1>7
  <2>2. PICK t : t = [Idle EXCEPT !.op = "reverse", !.id = v, !.user = user, !.year = y, !.need = <<lockVoucher(v)>>]
        OBVIOUS
  <2>3. t \in Transactions /\ t.op = "reverse" /\ t.id = v /\ ~ t.checked /\ ~ t.seen /\ t.held = {} /\ t.need = <<lockVoucher(v)>> /\ t.year = y
        BY <1>1, <1>2, <2>1, <2>2, EmptyTypes DEF Idle, Transactions, Operations
  <2>4. Begins(s, t) /\ MayTakeBack(v)
        BY <2>1, <2>2 DEF BeginReverse
  <2>5. QED
        BY <1>1, <2>1, <2>3, <2>4, VoucherBegins DEF VoucherOps
<1>8. CASE \E y \in scene.years : BeginVoidSource(s, v, y)
  <2>1. PICK y \in scene.years : BeginVoidSource(s, v, y)
        BY <1>8
  <2>2. PICK t : t = [Idle EXCEPT !.op = "voidSource", !.id = v, !.year = y, !.need = <<lockVoucher(v)>>]
        OBVIOUS
  <2>3. t \in Transactions /\ t.op = "voidSource" /\ t.id = v /\ ~ t.checked /\ ~ t.seen /\ t.held = {} /\ t.need = <<lockVoucher(v)>> /\ t.year = y
        BY <1>1, <1>2, <2>1, <2>2, EmptyTypes DEF Idle, Transactions, Operations
  <2>4. Begins(s, t) /\ voucher[v].kind = "sourced" /\ ~ IsReversal(v)
        BY <2>1, <2>2 DEF BeginVoidSource
  <2>5. QED
        BY <1>1, <2>1, <2>3, <2>4, VoucherBegins DEF VoucherOps
<1>9. QED
      BY <1>3, <1>4, <1>5, <1>6, <1>7, <1>8

LEMMA YearOperationsBegin ==
    ASSUME IInv, NEW s \in Sessions, NEW y \in Years, NEW opening \in BOOLEAN,
           BeginClose(s, y, opening) \/ BeginReopen(s, y)
    PROVE  IInv'
<1>1. <<Sequence, lockYear(y)>> \in Seq(Locks) /\ y \in Nat
      BY LockTypes, ConstantFacts
<1>2. PICK t : /\ t = IF BeginClose(s, y, opening)
                     THEN [Idle EXCEPT !.op = "close", !.year = y, !.opening = opening, !.need = <<Sequence, lockYear(y)>>]
                     ELSE [Idle EXCEPT !.op = "reopen", !.year = y, !.need = <<Sequence, lockYear(y)>>]
      OBVIOUS
<1>3. /\ t \in Transactions /\ t.op \in YearOps /\ t.year = y /\ ~ t.checked /\ ~ t.seen /\ t.held = {}
      /\ t.need = <<Sequence, lockYear(y)>>
      BY <1>1, <1>2, EmptyTypes DEF Idle, Transactions, Operations, YearOps
<1>4. Begins(s, t) /\ (t.op = "close" => y < Today)
      BY <1>2, EmptyTypes DEF BeginClose, BeginReopen, Ended, Transactions
<1>5. t.need # << >> /\ Tail(t.need) = <<lockYear(y)>> /\ Head(t.need) = Sequence
      BY <1>3
<1>6. /\ UNCHANGED <<scene, late, data>>
      /\ tx' = [tx EXCEPT ![s] = tx'[s]] /\ tx'[s] \in Transactions
      /\ tx'[s].op = t.op /\ tx'[s].year = y /\ ~ tx'[s].checked /\ ~ tx'[s].seen
      /\ tx'[s].need = <<lockYear(y)>> /\ tx'[s].held = {Sequence}
      /\ \A h \in tx'[s].held : h \in tx[s].held \/ Blockers(s, h) = {}
      BY <1>3, <1>4, <1>5, Begun
<1>7. <<lockYear(y)>> # << >>
      OBVIOUS
<1>8. Holds(s)'
      BY <1>3, <1>6, <1>7 DEF Holds, VoucherOps, YearOps
<1>9. Facts(s)'
      BY <1>3, <1>4, <1>6 DEF Facts, VoucherOps, YearOps
<1>10. QED
      BY <1>6, <1>8, <1>9, TransactionStep

LEMMA BeginKeepsIInv ==
    ASSUME IInv, NEW s \in Sessions, Begin(s)
    PROVE  IInv'
<1>1. CASE \E user \in scene.users, y \in scene.years, rows \in scene.rows, status \in Statuses : BeginCreate(s, user, y, rows, status)
      BY <1>1, CreateBegins
<1>2. CASE \E y \in scene.years, rows \in scene.rows, status \in Statuses : BeginIssue(s, y, rows, status)
      BY <1>2, CreateBegins
<1>3. CASE \E v \in {u \in Ids : Live(u)} :
              \/ \E u \in scene.users, y \in scene.years, rows \in scene.rows : BeginEdit(s, u, v, y, rows) \/ BeginCorrect(s, u, v, y, rows)
              \/ BeginDelete(s, v)
              \/ \E u \in scene.users, want \in Statuses : BeginStatus(s, u, v, want)
              \/ \E u \in scene.users, y \in scene.years : BeginReverse(s, u, v, y)
              \/ \E y \in scene.years : BeginVoidSource(s, v, y)
      BY <1>3, VoucherOperationsBegin
<1>4. CASE \/ \E y \in Years, opening \in BOOLEAN : BeginClose(s, y, opening)
           \/ \E y \in Years : BeginReopen(s, y)
      BY <1>4, YearOperationsBegin
<1>5. QED
      BY <1>1, <1>2, <1>3, <1>4 DEF Begin

LEMMA LockKeepsIInv ==
    ASSUME IInv, NEW s \in Sessions, Lock(s)
    PROVE  IInv'
<1>1. PICK t : t = tx[s]
      OBVIOUS
<1>2. t \in Transactions /\ t.need # << >> /\ Blockers(s, Head(t.need)) = {} /\ Holds(s) /\ Facts(s)
      BY <1>1, SessionType DEF Lock, IInv, LocksInv, FactsInv
<1>3. PICK u : u = Holding(t)
      OBVIOUS
<1>4. u \in Transactions
      BY <1>2, <1>3, HoldingIsTyped
<1>5. /\ u.op = t.op /\ u.id = t.id /\ u.user = t.user /\ u.year = t.year
      /\ u.rows = t.rows /\ u.want = t.want /\ u.checked = t.checked /\ u.seen = t.seen /\ u.balance = t.balance
      /\ u.need = Tail(t.need) /\ u.held = t.held \cup {Head(t.need)}
      BY <1>2, <1>3 DEF Holding, Transactions
<1>6. tx' = [tx EXCEPT ![s] = u] /\ UNCHANGED <<scene, late, data>>
      BY <1>1, <1>3 DEF Lock
<1>7. tx'[s] = u /\ voucher' = voucher /\ closed' = closed /\ late' = late
      BY <1>4, <1>6, OtherTransactions DEF data
<1>8. Holds(s)'
  <2>1. CASE t.op \in VoucherOps
    <3>1. t.need = <<shareYear(WritesIn(s))>> /\ t.checked
          BY <1>1, <1>2, <2>1 DEF Holds
    <3>2. Tail(t.need) = << >> /\ Head(t.need) = shareYear(WritesIn(s))
          BY <3>1
    <3>3. WritesIn(s)' = WritesIn(s)
          BY <1>1, <1>5, <1>7 DEF WritesIn
    <3>4. u.need = << >> /\ shareYear(WritesIn(s)) \in u.held
          BY <1>5, <3>2
    <3>5. QED
          BY <1>1, <1>2, <1>5, <1>7, <2>1, <3>3, <3>4 DEF Holds, VoucherOps, YearOps
  <2>2. CASE t.op \in YearOps /\ ~ t.checked
    <3>1. t.need = <<lockYear(t.year)>>
          BY <1>1, <1>2, <2>2 DEF Holds
    <3>2. Tail(t.need) = << >> /\ Head(t.need) = lockYear(t.year)
          BY <3>1
    <3>3. u.need = << >> /\ lockYear(t.year) \in u.held
          BY <1>5, <3>2
    <3>4. QED
          BY <1>1, <1>2, <1>5, <1>7, <2>2, <3>3 DEF Holds, VoucherOps, YearOps
  <2>3. CASE t.op \in YearOps /\ t.checked
        BY <1>1, <1>2, <1>5, <1>7, <2>3 DEF Holds, VoucherOps, YearOps
  <2>4. t.op \notin {"none", "create", "issue"}
        BY <1>1, <1>2, IdleFields DEF Holds
  <2>5. QED
        BY <1>2, <2>1, <2>2, <2>3, <2>4 DEF Transactions, Operations, VoucherOps, YearOps
<1>9. Facts(s)'
  <2>1. Seen(s)' = Seen(s)
        BY <1>1, <1>5, <1>7, SameData DEF Seen
  <2>2. QED
        BY <1>1, <1>2, <1>5, <1>7, <2>1, SameData DEF Facts
<1>10. QED
      BY <1>1, <1>2, <1>4, <1>5, <1>6, <1>8, <1>9, TransactionStep

LEMMA RollBackKeepsIInv ==
    ASSUME IInv, NEW s \in Sessions, RollBack(s)
    PROVE  IInv'
<1>1. tx' = [tx EXCEPT ![s] = Idle] /\ UNCHANGED <<scene, late, data>> /\ Idle \in Transactions
      BY EmptyTypes DEF RollBack, Ends
<1>2. tx'[s] = Idle
      BY <1>1, OtherTransactions
<1>3. Holds(s)' /\ Facts(s)'
  <2>1. tx'[s] = Idle /\ tx'[s].op = "none"
        BY <1>2, IdleFields
  <2>2. Holds(s)'
        BY <2>1 DEF Holds, VoucherOps, YearOps
  <2>3. Facts(s)'
        BY <2>1 DEF Facts, VoucherOps
  <2>4. QED
        BY <2>2, <2>3
<1>4. \A h \in Idle.held : h \in tx[s].held
      BY IdleFields
<1>5. QED
      BY <1>1, <1>3, <1>4, TransactionStep

(* A check that passes asks for the year it is going to write in. *)
LEMMA Passed ==
    ASSUME IInv, NEW s \in Sessions, NEW needs \in Seq(Locks), Passes(s, needs)
    PROVE  /\ UNCHANGED <<scene, late, data>>
           /\ tx' = [tx EXCEPT ![s] = tx'[s]] /\ tx'[s] \in Transactions
           /\ tx'[s].op = tx[s].op /\ tx'[s].id = tx[s].id /\ tx'[s].user = tx[s].user /\ tx'[s].year = tx[s].year
           /\ tx'[s].rows = tx[s].rows /\ tx'[s].want = tx[s].want /\ tx'[s].checked /\ tx'[s].seen = tx[s].seen
           /\ tx'[s].balance = tx[s].balance
           /\ tx'[s].need = needs /\ tx'[s].held = tx[s].held
<1>1. PICK t : t = tx[s]
      OBVIOUS
<1>2. PICK u : u = [t EXCEPT !.checked = TRUE, !.need = needs]
      OBVIOUS
<1>3. t \in Transactions
      BY <1>1, SessionType DEF IInv
<1>4. /\ u \in Transactions
      /\ u.op = t.op /\ u.id = t.id /\ u.user = t.user /\ u.year = t.year
      /\ u.rows = t.rows /\ u.want = t.want /\ u.checked /\ u.seen = t.seen /\ u.balance = t.balance
      /\ u.need = needs /\ u.held = t.held
      BY <1>2, <1>3 DEF Transactions
<1>5. tx' = [tx EXCEPT ![s] = u] /\ UNCHANGED <<scene, late, data>>
      BY <1>1, <1>2 DEF Passes, IInv, TypeOK
<1>6. tx'[s] = u
      BY <1>4, <1>5, OtherTransactions
<1>7. QED
      BY <1>1, <1>4, <1>5, <1>6

LEMMA VoucherChecks ==
    ASSUME IInv, NEW s \in Sessions, tx[s].op \in VoucherOps, tx[s].need = << >>,
           Passes(s, <<shareYear(WritesIn(s))>>),
           tx[s].op \in {"edit", "delete"} => voucher[tx[s].id].status = "draft",
           tx[s].op = "status" =>
              /\ tx[s].want = "draft" /\ voucher[tx[s].id].status # "draft" => mayReturnToDraft(tx[s].id)
              /\ MayApprove(tx[s].id, tx[s].want, tx[s].user),
           tx[s].op \in {"reverse", "correct"} => mayReverse(tx[s].id),
           tx[s].op = "voidSource" => voucher[tx[s].id].status = "draft" \/ mayReverse(tx[s].id)
    PROVE  IInv'
<1>1. Holds(s) /\ Facts(s)
      BY DEF IInv, LocksInv, FactsInv
<1>2. tx[s].id \in Ids
      BY <1>1 DEF Holds
<1>3. WritesIn(s) \in Nat
  <2>1. voucher[tx[s].id].year \in Nat
        BY <1>2, VoucherType, ConstantFacts DEF IInv
  <2>2. tx[s].op \notin {"delete", "status"} => tx[s].year \in Nat
        BY <1>1, ConstantFacts DEF Holds
  <2>3. QED
        BY <2>1, <2>2 DEF WritesIn
<1>4. <<shareYear(WritesIn(s))>> \in Seq(Locks)
      BY <1>3, LockTypes
<1>5. PICK needs : needs = <<shareYear(WritesIn(s))>>
      OBVIOUS
<1>6. /\ UNCHANGED <<scene, late, data>>
      /\ tx' = [tx EXCEPT ![s] = tx'[s]] /\ tx'[s] \in Transactions
      /\ tx'[s].op = tx[s].op /\ tx'[s].id = tx[s].id /\ tx'[s].user = tx[s].user /\ tx'[s].year = tx[s].year
      /\ tx'[s].want = tx[s].want /\ tx'[s].checked
      /\ tx'[s].need = needs /\ tx'[s].held = tx[s].held
      BY <1>4, <1>5, Passed
<1>7. voucher' = voucher /\ closed' = closed
      BY <1>6 DEF data
<1>8. WritesIn(s)' = WritesIn(s)
      BY <1>6, <1>7 DEF WritesIn
<1>9. Holds(s)'
      BY <1>1, <1>5, <1>6, <1>8 DEF Holds, VoucherOps, YearOps
<1>10. Facts(s)'
      BY <1>1, <1>6, <1>7, SameData DEF Facts, VoucherOps
<1>11. QED
      BY <1>6, <1>9, <1>10, TransactionStep

LEMMA NewestFirstEnumerates ==
    ASSUME NEW vs \in SUBSET Ids
    PROVE  LET run == NewestFirst(vs) IN
           /\ run \in Seq(vs) /\ Len(run) = Cardinality(vs) /\ Len(run) \in Nat
           /\ \A v \in vs : \E i \in 1..Len(run) : run[i] = v
           /\ \A i, j \in 1..Len(run) : run[i] = run[j] => i = j
<1> DEFINE Newer(v) == {u \in vs : u > v}
<1>1. IsFiniteSet(vs) /\ Cardinality(vs) \in Nat /\ \A v \in vs : v \in Nat
      BY ConstantFacts, FS_Subset, FS_CardinalityType
<1>2. ASSUME NEW v \in vs, NEW w \in vs, v < w
      PROVE  Cardinality(Newer(w)) < Cardinality(Newer(v))
  <2>1. Newer(w) \in SUBSET Newer(v) /\ w \in Newer(v) /\ w \notin Newer(w) /\ IsFiniteSet(Newer(v))
        BY <1>1, <1>2, FS_Subset
  <2>2. QED
    <3> HIDE DEF Newer
    <3>1. Newer(w) # Newer(v)
          BY <2>1
    <3>2. QED
          BY <2>1, <3>1, FS_Subset, FS_CardinalityType
<1>3. \A v \in vs : Cardinality(Newer(v)) \in Nat
      BY <1>1, FS_Subset, FS_CardinalityType
<1>4. \A v, w \in vs : Cardinality(Newer(v)) = Cardinality(Newer(w)) => v = w
  <2> HIDE DEF Newer
  <2>1. QED
        BY <1>1, <1>2, <1>3
<1>5. \A i \in 1..Cardinality(vs) : \E v \in vs : Cardinality(Newer(v)) = i - 1
  <2>1. PICK key : key = [v \in vs |-> 0 - v]
        OBVIOUS
  <2>2. key \in [vs -> Int] /\ (\A x, y \in vs : key[x] = key[y] => x = y)
        BY <1>1, <2>1
  <2>3. \A n \in 1..Cardinality(vs) : \E x \in vs : Cardinality({y \in vs : key[y] < key[x]}) = n - 1
        BY <1>1, <2>2, NthOfSet
  <2>4. \A x \in vs : {y \in vs : key[y] < key[x]} = Newer(x)
        BY <1>1, <2>1
  <2>5. QED
        BY <2>3, <2>4
<1>6. \A v \in vs : Cardinality(Newer(v)) + 1 \in 1..Cardinality(vs)
  <2>1. ASSUME NEW v \in vs PROVE Cardinality(Newer(v)) < Cardinality(vs)
    <3>1. Newer(v) \in SUBSET vs /\ Newer(v) # vs
          BY <1>1
    <3>2. QED
          BY <1>1, <3>1, FS_Subset, FS_CardinalityType
  <2>2. QED
        BY <1>1, <1>3, <2>1
<1> HIDE DEF Newer
<1>7. PICK run : run = NewestFirst(vs)
      OBVIOUS
<1>8. run = [i \in 1..Cardinality(vs) |-> CHOOSE v \in vs : Cardinality(Newer(v)) = i - 1]
      BY <1>7 DEF NewestFirst, Newer
<1>9. \A i \in 1..Cardinality(vs) : run[i] \in vs /\ Cardinality(Newer(run[i])) = i - 1
      BY <1>5, <1>8
<1>10. run \in Seq(vs) /\ Len(run) = Cardinality(vs)
  <2>1. run \in [1..Cardinality(vs) -> vs]
        BY <1>8, <1>9
  <2>2. QED
        BY <1>1, <2>1
<1>11. \A v \in vs : \E i \in 1..Len(run) : run[i] = v
  <2>1. SUFFICES ASSUME NEW v \in vs PROVE \E i \in 1..Len(run) : run[i] = v
        OBVIOUS
  <2>2. PICK i : i = Cardinality(Newer(v)) + 1
        OBVIOUS
  <2>3. i \in 1..Cardinality(vs) /\ i - 1 = Cardinality(Newer(v))
        BY <1>3, <1>6, <2>2
  <2>4. run[i] = v
        BY <1>4, <1>9, <2>3
  <2>5. QED
        BY <1>10, <2>3, <2>4
<1>12. \A i, j \in 1..Len(run) : run[i] = run[j] => i = j
  <2>1. SUFFICES ASSUME NEW i \in 1..Len(run), NEW j \in 1..Len(run), run[i] = run[j] PROVE i = j
        OBVIOUS
  <2>2. i - 1 = Cardinality(Newer(run[i])) /\ j - 1 = Cardinality(Newer(run[i]))
        BY <1>9, <1>10, <2>1
  <2>3. QED
        BY <1>1, <1>10, <2>2
<1>13. QED
      BY <1>1, <1>7, <1>10, <1>11, <1>12

LEMMA RunIsLocked ==
    ASSUME TypeOK, NEW y
    PROVE  EachWithItsYear(NewestFirst(activeClosingRunVouchers(y))) \in Seq(Locks)
<1>1. PICK run : run = NewestFirst(activeClosingRunVouchers(y))
      OBVIOUS
<1>2. run \in Seq(Ids) /\ Len(run) \in Nat
  <2>1. activeClosingRunVouchers(y) \in SUBSET Ids
        BY DEF activeClosingRunVouchers
  <2>2. run \in Seq(activeClosingRunVouchers(y)) /\ Len(run) \in Nat
        BY <1>1, <2>1, NewestFirstEnumerates
  <2>3. QED
        BY <2>1, <2>2
<1>3. ASSUME NEW i \in 1..2 * Len(run)
      PROVE  LET v == run[(i + 1) \div 2] IN
             (IF i % 2 = 1 THEN lockVoucher(v) ELSE shareYear(voucher[v].year)) \in Locks
  <2>1. (i + 1) \div 2 \in 1..Len(run)
        BY <1>2, <1>3
  <2>2. run[(i + 1) \div 2] \in Ids
        BY <1>2, <2>1, ElementOfSeq
  <2>3. QED
        BY <2>2, LockTypes, VoucherType, ConstantFacts
<1>4. EachWithItsYear(run) \in [1..2 * Len(run) -> Locks]
      BY <1>3 DEF EachWithItsYear
<1>5. 2 * Len(run) \in Nat
      BY <1>2
<1>6. EachWithItsYear(run) \in Seq(Locks)
      BY <1>4, <1>5
<1>7. QED
      BY <1>1, <1>6

LEMMA YearChecks ==
    ASSUME IInv, NEW s \in Sessions, CheckClose(s) \/ CheckReopen(s)
    PROVE  IInv'
<1>1. Holds(s) /\ Facts(s) /\ tx[s].op \in YearOps /\ ~ tx[s].checked /\ tx[s].need = << >>
      BY DEF IInv, LocksInv, FactsInv, CheckClose, CheckReopen, Checking, YearOps
<1>2. PICK needs : needs = IF tx[s].op = "close" THEN << >> ELSE EachWithItsYear(NewestFirst(activeClosingRunVouchers(tx[s].year)))
      OBVIOUS
<1>3. needs \in Seq(Locks)
  <2>1. << >> \in Seq(Locks)
        OBVIOUS
  <2>2. EachWithItsYear(NewestFirst(activeClosingRunVouchers(tx[s].year))) \in Seq(Locks)
        BY RunIsLocked DEF IInv
  <2>3. QED
        BY <1>2, <2>1, <2>2
<1>4. Passes(s, needs)
      BY <1>2 DEF CheckClose, CheckReopen, Checking
<1>5. /\ UNCHANGED <<scene, late, data>>
      /\ tx' = [tx EXCEPT ![s] = tx'[s]] /\ tx'[s] \in Transactions
      /\ tx'[s].op = tx[s].op /\ tx'[s].year = tx[s].year
      /\ tx'[s].checked /\ tx'[s].seen = tx[s].seen /\ tx'[s].balance = tx[s].balance
      /\ tx'[s].held = tx[s].held
      BY <1>3, <1>4, Passed
<1>6. voucher' = voucher /\ closed' = closed
      BY <1>5 DEF data
<1>7. Holds(s)'
      BY <1>1, <1>5 DEF Holds, VoucherOps, YearOps
<1>8. ~ tx[s].seen \/ tx[s].op = "reopen"
      BY <1>1 DEF Facts, Seen, YearOps
<1>9. tx[s].op = "close" => tx[s].year \notin closed
      BY DEF CheckClose, CheckReopen, Checking, assertOpen
<1>10. tx[s].op = "reopen" => tx[s].year \in closed /\ \A y \in closed : y <= tx[s].year
  <2>1. tx[s].op = "reopen" => tx[s].year \in closed /\ \A later \in Years : later > tx[s].year => later \notin closed
        BY DEF CheckClose, CheckReopen, Checking
  <2>2. closed \subseteq Years /\ tx[s].year \in Years
        BY <1>1 DEF IInv, TypeOK, Holds
  <2>3. QED
        BY <2>1, <2>2, ConstantFacts
<1>11. Facts(s)'
      BY <1>1, <1>5, <1>6, <1>8, <1>9, <1>10 DEF Facts, VoucherOps, YearOps
<1>12. QED
      BY <1>5, <1>7, <1>11, TransactionStep

(* The balances up to a year before which every year with vouchers is      *)
(* closed.                                                                 *)
LEMMA BalanceOfClosed ==
    ASSUME TypeOK, NEW y \in Years, findEarlierOpenYears(y) = {}
    PROVE  Balance(y) = BooksIn(voucher, (closed \cap 1..y) \cup {y})
<1>1. ASSUME NEW v \in Ids, InBooks(v)
      PROVE  voucher[v].year <= y <=> voucher[v].year \in (closed \cap 1..y) \cup {y}
  <2>1. voucher[v].year \in Years /\ voucher[v].year \in Nat /\ voucher[v].year # 0 /\ y \in Nat
        BY VoucherType, ConstantFacts
  <2>2. Live(v)
        BY <1>1 DEF InBooks, Live, Statuses
  <2>3. voucher[v].year < y => voucher[v].year \in closed
        BY <2>1, <2>2 DEF findEarlierOpenYears
  <2>4. QED
        BY <2>1, <2>3
<1>2. {v \in Ids : InBooks(v) /\ voucher[v].year <= y} =
         {v \in Ids : voucher[v].status \in {"approved", "permanent"} /\ voucher[v].year \in (closed \cap 1..y) \cup {y}}
      BY <1>1 DEF InBooks
<1>3. QED
      BY <1>2 DEF Balance, Posted, BooksIn

LEMMA PreviewKeepsIInv ==
    ASSUME IInv, NEW s \in Sessions, Preview(s)
    PROVE  IInv'
<1>1. PICK t : t = tx[s]
      OBVIOUS
<1>2. PICK y : y = t.year
      OBVIOUS
<1>3. /\ t \in Transactions /\ Holds(s) /\ Facts(s) /\ t.op = "close" /\ t.checked /\ t.need = << >> /\ ~ t.seen
      /\ y \in Years /\ y \in Nat /\ y < Today /\ findDraftVouchersOfYear(y) = {}
  <2>1. t \in Transactions /\ Holds(s) /\ Facts(s)
        BY <1>1, SessionType DEF IInv, LocksInv, FactsInv
  <2>2. t.op = "close" /\ t.checked /\ t.need = << >> /\ ~ t.seen /\ findDraftVouchersOfYear(y) = {}
        BY <1>1, <1>2 DEF Preview, Ready
  <2>3. y \in Years /\ y < Today
        BY <1>1, <1>2, <2>1, <2>2 DEF Holds, Facts, YearOps
  <2>4. QED
        BY <2>1, <2>2, <2>3, ConstantFacts
<1>4. PICK needs : needs = IF t.opening /\ Balance(y)["asset"] # 0 THEN <<shareYear(y + 1)>> ELSE << >>
      OBVIOUS
<1>5. needs \in Seq(Locks)
  <2>1. <<shareYear(y + 1)>> \in Seq(Locks)
        BY <1>3, LockTypes
  <2>2. QED
        BY <1>4, <2>1
<1>6. PICK balance : balance = Balance(y)
      OBVIOUS
<1>7. PICK u : u = [t EXCEPT !.seen = TRUE, !.balance = balance, !.need = needs]
      OBVIOUS
<1>8. balance \in [Accounts -> Int]
      BY <1>6, BalanceType DEF IInv
<1>9. /\ u \in Transactions /\ u.op = "close" /\ u.year = y /\ u.checked /\ u.balance = balance /\ u.held = t.held
      BY <1>2, <1>3, <1>5, <1>7, <1>8 DEF Transactions
<1>10. /\ tx' = [tx EXCEPT ![s] = u] /\ UNCHANGED <<scene, data>>
       /\ late' = IF findEarlierOpenYears(y) = {} THEN late \ {y} ELSE late \cup {y}
      BY <1>1, <1>2, <1>4, <1>6, <1>7 DEF Preview, IInv, TypeOK
<1>11. tx'[s] = u /\ voucher' = voucher /\ closed' = closed
      BY <1>9, <1>10, OtherTransactions DEF data
<1>12. Holds(s)'
      BY <1>1, <1>2, <1>3, <1>9, <1>11 DEF Holds, VoucherOps, YearOps
<1>13. Facts(s)'
  <2>1. Seen(s)'
    <3>1. y \notin late' => findEarlierOpenYears(y) = {}
          BY <1>10
    <3>2. findEarlierOpenYears(y) = {} => balance = BooksIn(voucher, (closed \cap 1..y) \cup {y})
          BY <1>3, <1>6, BalanceOfClosed DEF IInv
    <3>3. findDraftVouchersOfYear(y)' = {}
          BY <1>3, <1>11, SameData
    <3>4. QED
          BY <1>9, <1>11, <3>1, <3>2, <3>3 DEF Seen
  <2>2. y \notin closed
        BY <1>1, <1>2, <1>3 DEF Facts
  <2>3. QED
        BY <1>3, <1>9, <1>11, <2>1, <2>2 DEF Facts, VoucherOps
<1>14. late' \in SUBSET Years /\ Sequence \in tx[s].held
      BY <1>1, <1>3, <1>10 DEF IInv, TypeOK, Holds, YearOps
<1>15. QED
      BY <1>1, <1>9, <1>10, <1>12, <1>13, <1>14, ReadingStep

LEMMA CheckKeepsIInv ==
    ASSUME IInv, NEW s \in Sessions, Check(s)
    PROVE  IInv'
<1>1. CASE CheckEdit(s)
      BY <1>1, VoucherChecks DEF CheckEdit, Checking, VoucherOps, WritesIn
<1>2. CASE CheckDelete(s)
      BY <1>2, VoucherChecks DEF CheckDelete, Checking, VoucherOps, WritesIn
<1>3. CASE CheckStatus(s)
      BY <1>3, VoucherChecks DEF CheckStatus, Checking, VoucherOps, WritesIn
<1>4. CASE CheckReverse(s)
      BY <1>4, VoucherChecks DEF CheckReverse, Checking, VoucherOps, WritesIn
<1>5. CASE CheckCorrect(s)
      BY <1>5, VoucherChecks DEF CheckCorrect, Checking, VoucherOps, WritesIn
<1>6. CASE CheckVoidSource(s)
      BY <1>6, VoucherChecks DEF CheckVoidSource, Checking, VoucherOps, WritesIn
<1>7. QED
      BY <1>1, <1>2, <1>3, <1>4, <1>5, <1>6, YearChecks, PreviewKeepsIInv DEF Check

LEMMA InitHolds == Init => IInv
<1>1. SUFFICES ASSUME Init PROVE IInv
      OBVIOUS
<1>2. PICK y \in scene.years, rows \in scene.rows :
          voucher = [[v \in Ids |-> NoVoucher] EXCEPT
              ![1] = [@ EXCEPT !.status = scene.first, !.kind = scene.kind, !.year = y, !.rows = rows]]
      BY <1>1 DEF Init
<1>3. scene \in Scenes /\ closed = {} /\ late = {} /\ tx = [s \in Sessions |-> Idle]
      BY <1>1 DEF Init
<1>4. PICK w : w = [NoVoucher EXCEPT !.status = scene.first, !.kind = scene.kind, !.year = y, !.rows = rows]
      OBVIOUS
<1>5. voucher \in [Ids -> {w, NoVoucher}]
      BY <1>2, <1>4, ConstantFacts
<1>6. w \in Vouchers /\ w.run = 0 /\ w.kind # "closing" /\ w.reverses = 0 /\ w.reviewer = Nobody
      BY <1>3, <1>4, SceneFacts, EmptyTypes DEF NoVoucher, Vouchers, Statuses
<1>7. NoVoucher \in Vouchers /\ NoVoucher.run = 0 /\ NoVoucher.kind # "closing" /\ NoVoucher.reverses = 0 /\ NoVoucher.reviewer = Nobody
      BY EmptyTypes DEF NoVoucher
<1>8. \A v \in Ids : /\ voucher[v] \in Vouchers /\ voucher[v].run = 0 /\ voucher[v].kind # "closing"
                     /\ voucher[v].reverses = 0 /\ voucher[v].reviewer = Nobody
      BY <1>5, <1>6, <1>7
<1>9. TypeOK
      BY <1>3, <1>5, <1>6, <1>7, EmptyTypes DEF TypeOK
<1>10. \A s \in Sessions : tx[s] = Idle /\ tx[s].op = "none" /\ tx[s].held = {}
      BY <1>3, IdleFields
<1>11. LocksInv
  <2>1. ApartInv
        BY <1>10 DEF ApartInv
  <2>2. \A s \in Sessions : Holds(s)
        BY <1>10 DEF Holds, VoucherOps, YearOps
  <2>3. QED
        BY <2>1, <2>2 DEF LocksInv
<1>12. FactsInv
      BY <1>10 DEF FactsInv, Facts, VoucherOps
<1>13. EntryInv
      BY <1>8 DEF EntryInv, Sound, ReviewedByAnother
<1>14. ReversalInv
      BY <1>8 DEF ReversalInv, IsReversal
<1>15. YearInv
      BY <1>3, <1>8, ConstantFacts DEF YearInv, activeClosingRunVouchers
<1>16. QED
      BY <1>9, <1>11, <1>12, <1>13, <1>14, <1>15 DEF IInv

-----------------------------------------------------------------------------
(* What a transaction that is no closing and no reopening does to each     *)
(* voucher: it enters one, takes its own back by another, or changes its   *)
(* own.                                                                    *)

Enters(s, v) ==
    /\ voucher[v].status = "none"
    /\ voucher'[v].status \in {"draft", "approved"} /\ voucher'[v].kind # "closing"
    /\ voucher'[v].run = 0 /\ voucher'[v].reverses = 0 /\ voucher'[v].year = WritesIn(s)
    /\ ReviewedByAnother(voucher'[v])

TakesBack(s, v) ==
    /\ voucher[v].status = "none"
    /\ tx[s].id \in Ids /\ mayReverse(tx[s].id) /\ ~ IsReversal(tx[s].id) /\ voucher[tx[s].id].kind # "closing"
    /\ lockVoucher(tx[s].id) \in tx[s].held
    /\ voucher'[tx[s].id] = voucher[tx[s].id]
    /\ voucher'[v].status = "approved" /\ voucher'[v].year = WritesIn(s)
    /\ voucher'[v].kind = voucher[tx[s].id].kind /\ voucher'[v].run = voucher[tx[s].id].run
    /\ voucher'[v].reverses = tx[s].id
    /\ voucher'[v].rows = Negative(voucher[tx[s].id].rows)

Changes(s, v) ==
    /\ v = tx[s].id /\ Live(v) /\ lockVoucher(v) \in tx[s].held
    /\ voucher'[v].kind = voucher[v].kind /\ voucher'[v].run = voucher[v].run
    /\ voucher'[v].reverses = voucher[v].reverses
    /\ \/ voucher[v].status = "draft" /\ voucher'[v].status = "deleted"
       \/ voucher[v].status = "draft" /\ voucher'[v].status = "draft" /\ voucher'[v].year = WritesIn(s)
       \/ /\ voucher'[v].status \in Statuses
          /\ voucher'[v].year = voucher[v].year /\ voucher[v].year = WritesIn(s)
          /\ voucher'[v].rows = voucher[v].rows
          /\ voucher'[v].status = "draft" /\ voucher[v].status # "draft" => mayReturnToDraft(v)
          /\ ReviewedByAnother(voucher'[v])

Ordinary(s) ==
    /\ UNCHANGED <<scene, late, closed>>
    /\ tx' = [tx EXCEPT ![s] = Idle]
    /\ tx[s].op \notin YearOps
    /\ WritesIn(s) \in Years /\ WritesIn(s) \notin closed /\ shareYear(WritesIn(s)) \in tx[s].held
    /\ voucher' \in [Ids -> Vouchers]
    /\ \A v \in Ids : voucher'[v] = voucher[v] \/ Enters(s, v) \/ TakesBack(s, v) \/ Changes(s, v)
    /\ \A q, r \in Ids : TakesBack(s, q) /\ TakesBack(s, r) => q = r

LEMMA NewIds ==
    ASSUME IInv, NEW n
    PROVE  \A v \in NewId(n) : v \in Ids /\ voucher[v].status = "none"
BY SceneFacts DEF NewId, Unused, IInv, TypeOK

LEMMA NewIdsDiffer ==
    ASSUME NEW r \in NewId(1), NEW c \in NewId(2)
    PROVE  r # c
BY DEF NewId

LEMMA WriterHolds ==
    ASSUME IInv, NEW s \in Sessions, tx[s].op \in VoucherOps \cup {"create", "issue"}, tx[s].need = << >>, tx[s].checked
    PROVE  /\ Holds(s) /\ Facts(s)
           /\ WritesIn(s) \in Years /\ shareYear(WritesIn(s)) \in tx[s].held
           /\ tx[s].op \notin YearOps
<1>1. Holds(s) /\ Facts(s)
      BY DEF IInv, LocksInv, FactsInv
<1>2. \A a : <<a>> # << >>
      OBVIOUS
<1>3. shareYear(WritesIn(s)) \in tx[s].held
  <2>1. CASE tx[s].op \in VoucherOps
        BY <1>1, <1>2, <2>1 DEF Holds
  <2>2. CASE tx[s].op \in {"create", "issue"}
        BY <1>1, <2>2 DEF Holds, WritesIn
  <2>3. QED
        BY <2>1, <2>2
<1>4. WritesIn(s) \in Years
  <2>1. tx[s].op \in VoucherOps => voucher[tx[s].id].year \in Years
        BY <1>1, VoucherType DEF IInv, Holds
  <2>2. tx[s].op \notin {"delete", "status"} => tx[s].year \in Years
        BY <1>1 DEF Holds
  <2>3. QED
        BY <2>1, <2>2 DEF WritesIn, VoucherOps
<1>5. QED
      BY <1>1, <1>3, <1>4 DEF VoucherOps, YearOps

LEMMA EntryWrites ==
    ASSUME IInv, NEW s \in Sessions, Create(s) \/ Issue(s)
    PROVE  Ordinary(s)
<1>1. /\ tx[s].op \in {"create", "issue"} /\ tx[s].need = << >> /\ tx[s].checked
      /\ assertOpen(tx[s].year) /\ tx' = [tx EXCEPT ![s] = Idle] /\ UNCHANGED <<scene, late, closed>>
      BY DEF Create, Issue, Ready, Ends
<1>2. /\ Holds(s) /\ Facts(s)
      /\ WritesIn(s) \in Years /\ shareYear(WritesIn(s)) \in tx[s].held /\ tx[s].op \notin YearOps
      BY <1>1, WriterHolds
<1>3. WritesIn(s) = tx[s].year
      BY <1>1 DEF WritesIn
<1>4. PICK w : w = IF Create(s)
                   THEN [NoVoucher EXCEPT !.status = tx[s].want, !.year = tx[s].year, !.rows = tx[s].rows, !.maker = tx[s].user,
                                          !.reviewer = IF tx[s].want = "draft" THEN Nobody ELSE tx[s].user]
                   ELSE [NoVoucher EXCEPT !.status = tx[s].want, !.kind = "sourced", !.year = tx[s].year, !.rows = tx[s].rows]
      OBVIOUS
<1>5. PICK v \in NewId(1) : voucher' = [voucher EXCEPT ![v] = w]
      BY <1>4 DEF Create, Issue
<1>6. tx[s].want \in {"draft", "approved"} /\ (tx[s].op = "create" /\ tx[s].want = "approved" => tx[s].user \in Admins)
      BY <1>1, <1>2 DEF Facts
<1>7. tx[s].year \in Years /\ tx[s].rows \in [Accounts -> Int] /\ tx[s].user \in Users \cup {Nobody}
      BY <1>2, <1>3, SessionType DEF IInv
<1>8. /\ w \in Vouchers /\ w.status = tx[s].want /\ w.year = tx[s].year /\ w.run = 0 /\ w.reverses = 0 /\ w.kind # "closing"
      /\ w.reviewer \in {Nobody} \cup (IF tx[s].op = "create" /\ tx[s].want = "approved" THEN {tx[s].user} ELSE {})
  <2>1. CASE Create(s)
    <3>1. tx[s].op = "create"
          BY <2>1 DEF Create, Ready
    <3>2. w = [NoVoucher EXCEPT !.status = tx[s].want, !.year = tx[s].year, !.rows = tx[s].rows, !.maker = tx[s].user,
                                !.reviewer = IF tx[s].want = "draft" THEN Nobody ELSE tx[s].user]
          BY <1>4, <2>1
    <3>3. QED
          BY <1>6, <1>7, <3>1, <3>2, EmptyTypes DEF NoVoucher, Vouchers, Statuses
  <2>2. CASE ~ Create(s)
    <3>1. w = [NoVoucher EXCEPT !.status = tx[s].want, !.kind = "sourced", !.year = tx[s].year, !.rows = tx[s].rows]
          BY <1>4, <2>2
    <3>2. QED
          BY <1>6, <1>7, <3>1, EmptyTypes DEF NoVoucher, Vouchers, Statuses
  <2>3. QED
        BY <2>1, <2>2
<1>9. v \in Ids /\ voucher[v].status = "none"
      BY NewIds
<1>10. voucher'[v] = w /\ \A u \in Ids : u # v => voucher'[u] = voucher[u]
      BY <1>5, <1>9 DEF IInv, TypeOK
<1>11. voucher' \in [Ids -> Vouchers]
      BY <1>5, <1>8 DEF IInv, TypeOK
<1>12. Enters(s, v)
      BY <1>3, <1>6, <1>8, <1>9, <1>10 DEF Enters, ReviewedByAnother
<1>13. \A u \in Ids : ~ TakesBack(s, u)
      BY <1>8, <1>9, <1>10, ConstantFacts DEF TakesBack, IInv, TypeOK
<1>14. QED
      BY <1>1, <1>2, <1>3, <1>10, <1>11, <1>12, <1>13 DEF Ordinary, assertOpen

LEMMA OwnVoucher ==
    ASSUME IInv, NEW s \in Sessions, tx[s].op \in VoucherOps
    PROVE  /\ Holds(s) /\ Facts(s)
           /\ tx[s].id \in Ids /\ tx[s].id # 0 /\ lockVoucher(tx[s].id) \in tx[s].held
           /\ Live(tx[s].id) /\ voucher[tx[s].id] \in Vouchers /\ Sound(voucher[tx[s].id])
BY ConstantFacts, VoucherType DEF IInv, LocksInv, FactsInv, Holds, Facts, EntryInv

(* A write of the transaction's own voucher, and of nothing else. *)
LEMMA OwnWrite ==
    ASSUME IInv, NEW s \in Sessions, tx[s].op \in VoucherOps, tx[s].need = << >>, tx[s].checked, WritesIn(s) \notin closed,
           UNCHANGED <<scene, late, closed>>, tx' = [tx EXCEPT ![s] = Idle],
           NEW w \in Vouchers, voucher' = [voucher EXCEPT ![tx[s].id] = w], Changes(s, tx[s].id)
    PROVE  Ordinary(s)
<1>1. tx[s].id \in Ids /\ Live(tx[s].id)
      BY OwnVoucher
<1>2. \A u \in Ids : u # tx[s].id => voucher'[u] = voucher[u]
      BY DEF IInv, TypeOK
<1>3. voucher' \in [Ids -> Vouchers]
      BY DEF IInv, TypeOK
<1>4. \A u \in Ids : ~ TakesBack(s, u)
      BY <1>1, <1>2 DEF TakesBack, Live, Statuses, IsReversal
<1>5. QED
      BY <1>1, <1>2, <1>3, <1>4, WriterHolds DEF Ordinary

LEMMA OwnWrites ==
    ASSUME IInv, NEW s \in Sessions, Edit(s) \/ Delete(s) \/ Status(s) \/ DeleteSource(s)
    PROVE  Ordinary(s)
<1>1. PICK v : v = tx[s].id
      OBVIOUS
<1>2. tx[s].op \in VoucherOps /\ tx[s].need = << >> /\ tx[s].checked /\ tx' = [tx EXCEPT ![s] = Idle] /\ UNCHANGED <<scene, late, closed>>
      BY DEF Edit, Delete, Status, DeleteSource, Ready, Ends, VoucherOps
<1>3. PICK o : o = voucher[v]
      OBVIOUS
<1>4. /\ Facts(s) /\ v \in Ids /\ lockVoucher(v) \in tx[s].held
      /\ Live(v) /\ o \in Vouchers /\ o.status \in Statuses /\ Sound(o)
      BY <1>1, <1>2, <1>3, OwnVoucher DEF Live
<1>5. WritesIn(s) \in Years
      BY <1>2, WriterHolds
<1>6. tx[s].user \in Users \cup {Nobody} /\ tx[s].rows \in [Accounts -> Int]
      BY SessionType DEF IInv
<1>7. CASE Edit(s)
  <2>1. PICK w : w = [o EXCEPT !.year = tx[s].year, !.rows = tx[s].rows,
                               !.editor = IF Manual(v) THEN tx[s].user ELSE Nobody]
        OBVIOUS
  <2>2. tx[s].op = "edit" /\ o.status = "draft" /\ WritesIn(s) = tx[s].year
        BY <1>1, <1>2, <1>3, <1>4, <1>7 DEF Edit, Ready, Facts, WritesIn
  <2>3. w \in Vouchers /\ w.status = o.status /\ w.kind = o.kind /\ w.run = o.run /\ w.reverses = o.reverses /\ w.year = tx[s].year
        BY <1>4, <1>5, <1>6, <2>1, <2>2 DEF Vouchers
  <2>4. voucher' = [voucher EXCEPT ![v] = w]
        BY <1>1, <1>3, <1>4, <1>7, <2>1 DEF Edit, IInv, TypeOK, Vouchers
  <2>5. voucher'[v] = w
        BY <1>4, <2>4 DEF IInv, TypeOK
  <2>6. Changes(s, v)
        BY <1>1, <1>3, <1>4, <2>2, <2>3, <2>5 DEF Changes
  <2>7. WritesIn(s) \notin closed
        BY <1>7, <2>2 DEF Edit, assertOpen
  <2>8. QED
        BY <1>1, <1>2, <2>3, <2>4, <2>6, <2>7, OwnWrite
<1>8. CASE Delete(s) \/ DeleteSource(s)
  <2>1. PICK w : w = [o EXCEPT !.status = "deleted"]
        OBVIOUS
  <2>2. o.status = "draft" /\ WritesIn(s) = o.year
        BY <1>1, <1>2, <1>3, <1>4, <1>8 DEF Delete, DeleteSource, Ready, Facts, WritesIn
  <2>3. w \in Vouchers /\ w.status = "deleted" /\ w.kind = o.kind /\ w.run = o.run /\ w.reverses = o.reverses
        BY <1>4, <2>1 DEF Vouchers
  <2>4. voucher' = [voucher EXCEPT ![v] = w]
        BY <1>1, <1>3, <1>4, <1>8, <2>1 DEF Delete, DeleteSource, IInv, TypeOK, Vouchers
  <2>5. voucher'[v] = w
        BY <1>4, <2>4 DEF IInv, TypeOK
  <2>6. Changes(s, v)
        BY <1>1, <1>3, <1>4, <2>2, <2>3, <2>5 DEF Changes
  <2>7. WritesIn(s) \notin closed
        BY <1>1, <1>3, <1>8, <2>2 DEF Delete, DeleteSource, assertOpen
  <2>8. QED
        BY <1>1, <1>2, <2>3, <2>4, <2>6, <2>7, OwnWrite
<1>9. CASE Status(s)
  <2>1. PICK w : w = [o EXCEPT !.status = tx[s].want,
                               !.reviewer = IF tx[s].want = "draft" THEN Nobody
                                            ELSE IF o.status = "draft" THEN tx[s].user ELSE @]
        OBVIOUS
  <2>2. /\ tx[s].op = "status" /\ WritesIn(s) = o.year /\ tx[s].want \in Statuses
        /\ tx[s].want = "draft" /\ o.status # "draft" => mayReturnToDraft(v)
        /\ MayApprove(v, tx[s].want, tx[s].user)
        BY <1>1, <1>2, <1>3, <1>4, <1>9 DEF Status, Ready, Facts, WritesIn
  <2>3. w \in Vouchers /\ w.status = tx[s].want /\ w.kind = o.kind /\ w.run = o.run /\ w.reverses = o.reverses /\ w.year = o.year
        /\ w.rows = o.rows /\ w.maker = o.maker /\ w.editor = o.editor
        /\ w.reviewer = IF tx[s].want = "draft" THEN Nobody ELSE IF o.status = "draft" THEN tx[s].user ELSE o.reviewer
        BY <1>4, <1>6, <2>1, <2>2 DEF Vouchers
  <2>4. voucher' = [voucher EXCEPT ![v] = w]
        BY <1>1, <1>3, <1>4, <1>9, <2>1 DEF Status, IInv, TypeOK, Vouchers
  <2>5. voucher'[v] = w
        BY <1>4, <2>4 DEF IInv, TypeOK
  <2>6. ReviewedByAnother(w)
        BY <1>3, <1>4, <2>2, <2>3 DEF ReviewedByAnother, Sound, MayApprove, Manual, Statuses
  <2>7. Changes(s, v)
        BY <1>1, <1>3, <1>4, <2>2, <2>3, <2>5, <2>6 DEF Changes
  <2>8. WritesIn(s) \notin closed
        BY <1>1, <1>3, <1>9, <2>2 DEF Status, assertOpen
  <2>9. QED
        BY <1>1, <1>2, <2>3, <2>4, <2>7, <2>8, OwnWrite
<1>10. QED
      BY <1>7, <1>8, <1>9

LEMMA Taken ==
    ASSUME IInv, NEW s \in Sessions, tx[s].op \in {"reverse", "correct", "voidSource"}, tx[s].need = << >>, tx[s].checked,
           tx[s].op = "voidSource" => voucher[tx[s].id].status # "draft",
           NEW r \in Ids, voucher[r].status = "none", NEW user \in Users \cup {Nobody},
           voucher'[r] = ReversalOf(tx[s].id, tx[s].year, user), voucher'[tx[s].id] = voucher[tx[s].id]
    PROVE  TakesBack(s, r) /\ voucher'[r] \in Vouchers /\ tx[s].year = WritesIn(s)
<1>1. /\ Holds(s) /\ Facts(s) /\ tx[s].id \in Ids /\ tx[s].id # 0 /\ lockVoucher(tx[s].id) \in tx[s].held
      BY OwnVoucher DEF VoucherOps
<1>2. tx[s].year = WritesIn(s)
      BY DEF WritesIn
<1>3. WritesIn(s) \in Years
      BY WriterHolds DEF VoucherOps
<1>4. mayReverse(tx[s].id) /\ ~ IsReversal(tx[s].id) /\ voucher[tx[s].id].kind # "closing"
      BY <1>1 DEF Facts, MayTakeBack, Manual
<1>5. QED
      BY <1>1, <1>2, <1>3, <1>4, ReversalType DEF TakesBack, IInv

LEMMA ReversalWrites ==
    ASSUME IInv, NEW s \in Sessions, TakeBack(s) \/ ReverseSource(s)
    PROVE  Ordinary(s)
<1>1. /\ tx[s].op \in {"reverse", "correct", "voidSource"} /\ tx[s].need = << >> /\ tx[s].checked
      /\ tx[s].op = "voidSource" => voucher[tx[s].id].status # "draft"
      /\ assertOpen(tx[s].year) /\ tx' = [tx EXCEPT ![s] = Idle] /\ UNCHANGED <<scene, late, closed>>
      BY DEF TakeBack, ReverseSource, Ready, Ends
<1>2. PICK user \in Users \cup {Nobody}, r \in NewId(1) :
          voucher' = [voucher EXCEPT ![r] = ReversalOf(tx[s].id, tx[s].year, user)]
      BY SessionType DEF TakeBack, ReverseSource, IInv
<1>3. r \in Ids /\ voucher[r].status = "none"
      BY NewIds
<1>4. voucher'[r] = ReversalOf(tx[s].id, tx[s].year, user) /\ \A u \in Ids : u # r => voucher'[u] = voucher[u]
      BY <1>2, <1>3 DEF IInv, TypeOK
<1>9. voucher'[tx[s].id] = voucher[tx[s].id]
      BY <1>1, <1>3, <1>4, OwnVoucher DEF VoucherOps, Live, Statuses
<1>5. TakesBack(s, r) /\ voucher'[r] \in Vouchers /\ tx[s].year = WritesIn(s)
      BY <1>1, <1>3, <1>4, <1>9, Taken
<1>6. voucher' \in [Ids -> Vouchers]
      BY <1>2, <1>4, <1>5 DEF IInv, TypeOK
<1>7. \A u \in Ids : TakesBack(s, u) => u = r
      BY <1>4 DEF TakesBack
<1>8. QED
      BY <1>1, <1>4, <1>5, <1>6, <1>7, WriterHolds DEF Ordinary, assertOpen, VoucherOps

LEMMA CorrectionWrites ==
    ASSUME IInv, NEW s \in Sessions, Correct(s)
    PROVE  Ordinary(s)
<1>1. /\ tx[s].op = "correct" /\ tx[s].need = << >> /\ tx[s].checked
      /\ assertOpen(tx[s].year) /\ tx' = [tx EXCEPT ![s] = Idle] /\ UNCHANGED <<scene, late, closed>>
      BY DEF Correct, Ready, Ends
<1>2. PICK w : w = [NoVoucher EXCEPT !.status = "draft", !.year = tx[s].year, !.rows = tx[s].rows, !.maker = tx[s].user]
      OBVIOUS
<1>3. PICK r \in NewId(1), c \in NewId(2) :
          voucher' = [voucher EXCEPT ![r] = ReversalOf(tx[s].id, tx[s].year, tx[s].user), ![c] = w]
      BY <1>2 DEF Correct
<1>4. r \in Ids /\ voucher[r].status = "none" /\ c \in Ids /\ voucher[c].status = "none" /\ r # c
      BY NewIds, NewIdsDiffer
<1>5. /\ voucher'[r] = ReversalOf(tx[s].id, tx[s].year, tx[s].user) /\ voucher'[c] = w
      /\ \A u \in Ids : u # r /\ u # c => voucher'[u] = voucher[u]
      BY <1>3, <1>4 DEF IInv, TypeOK
<1>6. tx[s].user \in Users \cup {Nobody} /\ tx[s].rows \in [Accounts -> Int]
      BY SessionType DEF IInv
<1>14. voucher'[tx[s].id] = voucher[tx[s].id]
      BY <1>1, <1>4, <1>5, OwnVoucher DEF VoucherOps, Live, Statuses
<1>7. TakesBack(s, r) /\ voucher'[r] \in Vouchers /\ tx[s].year = WritesIn(s)
      BY <1>1, <1>4, <1>5, <1>6, <1>14, Taken
<1>8. WritesIn(s) \in Years /\ shareYear(WritesIn(s)) \in tx[s].held
      BY <1>1, WriterHolds DEF VoucherOps
<1>9. w \in Vouchers /\ w.status = "draft" /\ w.year = WritesIn(s) /\ w.run = 0 /\ w.reverses = 0 /\ w.kind # "closing"
      BY <1>2, <1>6, <1>7, <1>8, EmptyTypes DEF NoVoucher, Vouchers, Statuses
<1>10. Enters(s, c)
      BY <1>4, <1>5, <1>9 DEF Enters, ReviewedByAnother
<1>11. voucher' \in [Ids -> Vouchers]
      BY <1>3, <1>4, <1>5, <1>7, <1>9 DEF IInv, TypeOK
<1>12. \A u \in Ids : TakesBack(s, u) => u = r
      BY <1>4, <1>5, <1>9, ConstantFacts DEF TakesBack
<1>13. QED
      BY <1>1, <1>5, <1>7, <1>8, <1>10, <1>11, <1>12 DEF Ordinary, assertOpen, YearOps

-----------------------------------------------------------------------------
(* Ordinary writes keep the invariant. *)

(* The books of some years only move when a voucher of those years does.   *)
LEMMA BooksSame ==
    ASSUME NEW J, NEW K, NEW Y,
           \A v \in Ids : \/ K[v] = J[v]
                          \/ /\ ~ (J[v].status \in {"approved", "permanent"} /\ J[v].year \in Y)
                             /\ ~ (K[v].status \in {"approved", "permanent"} /\ K[v].year \in Y)
    PROVE  BooksIn(K, Y) = BooksIn(J, Y)
<1>1. PICK vs : vs = {v \in Ids : J[v].status \in {"approved", "permanent"} /\ J[v].year \in Y}
      OBVIOUS
<1>2. {v \in Ids : K[v].status \in {"approved", "permanent"} /\ K[v].year \in Y} = vs
      BY <1>1
<1>3. \A v \in vs : K[v] = J[v]
      BY <1>1
<1>4. ASSUME NEW a \in Accounts
      PROVE  SumFunctionOnSet([v \in Ids |-> K[v].rows[a]], vs) = SumFunctionOnSet([v \in Ids |-> J[v].rows[a]], vs)
  <2>1. PICK F, G : F = [v \in Ids |-> K[v].rows[a]] /\ G = [v \in Ids |-> J[v].rows[a]]
        OBVIOUS
  <2>2. IsFiniteSet(vs)
        BY <1>1, ConstantFacts, FS_Subset
  <2>3. \A v \in vs : F[v] = G[v]
        BY <1>1, <1>3, <2>1
  <2>4. SumFunctionOnSet(F, vs) = SumFunctionOnSet(G, vs)
        BY <2>2, <2>3, SumSame
  <2>5. QED
        BY <2>1, <2>4
<1>5. QED
      BY <1>1, <1>2, <1>4 DEF BooksIn

LEMMA OrdinaryYears ==
    ASSUME IInv, NEW s \in Sessions, Ordinary(s), NEW v \in Ids, voucher'[v] # voucher[v]
    PROVE  /\ InBooks(v) => voucher[v].year = WritesIn(s)
           /\ Live(v) => voucher[v].status = "draft" \/ voucher[v].year = WritesIn(s)
           /\ Live(v)' => voucher'[v].year = WritesIn(s)
           /\ InBooks(v)' => voucher'[v].year = WritesIn(s)
BY DEF Ordinary, Enters, TakesBack, Changes, InBooks, Live, Statuses

LEMMA OrdinaryKeepsEntries ==
    ASSUME IInv, NEW s \in Sessions, Ordinary(s)
    PROVE  EntryInv'
<1>1. SUFFICES ASSUME NEW v \in Ids, Live(v)' PROVE Sound(voucher'[v])
      BY DEF EntryInv
<1>2. CASE voucher'[v] = voucher[v]
      BY <1>1, <1>2 DEF IInv, EntryInv, Live
<1>3. CASE Enters(s, v)
      BY <1>3 DEF Enters, Sound
<1>4. CASE TakesBack(s, v)
  <2>1. Sound(voucher[tx[s].id]) /\ tx[s].id # 0
        BY <1>4, ConstantFacts DEF TakesBack, mayReverse, InBooks, IInv, EntryInv, Live, Statuses
  <2>2. QED
        BY <1>4, <2>1 DEF TakesBack, Sound, ReviewedByAnother
<1>5. CASE Changes(s, v)
  <2>1. Sound(voucher[v])
        BY <1>5 DEF Changes, IInv, EntryInv
  <2>2. CASE voucher[v].status = "draft" /\ voucher'[v].status = "draft"
        BY <1>5, <2>1, <2>2 DEF Changes, Sound, ReviewedByAnother
  <2>3. CASE /\ voucher'[v].status \in Statuses
             /\ voucher'[v].year = voucher[v].year
             /\ voucher'[v].status = "draft" /\ voucher[v].status # "draft" => mayReturnToDraft(v)
             /\ ReviewedByAnother(voucher'[v])
        BY <1>5, <2>1, <2>3 DEF Changes, Sound, mayReturnToDraft, Manual, IsReversal
  <2>4. voucher'[v].status # "deleted"
        BY <1>1 DEF Live, Statuses
  <2>5. QED
        BY <1>5, <2>2, <2>3, <2>4 DEF Changes
<1>6. QED
      BY <1>2, <1>3, <1>4, <1>5 DEF Ordinary

(* A voucher's part of a reversal survives an ordinary write. *)
LEMMA OrdinaryKeepsPairs ==
    ASSUME IInv, NEW s \in Sessions, Ordinary(s)
    PROVE  /\ \A r \in Ids : Live(r) /\ IsReversal(r) =>
                 /\ Live(r)' /\ voucher'[r].reverses = voucher[r].reverses /\ voucher'[r].run = voucher[r].run
                 /\ voucher'[r].rows = voucher[r].rows
           /\ \A v \in Ids : InBooks(v) /\ findActiveReversal(v) # {} =>
                 /\ InBooks(v)' /\ voucher'[v].reverses = voucher[v].reverses
                 /\ voucher'[v].run = voucher[v].run /\ voucher'[v].rows = voucher[v].rows
           /\ \A r \in Ids : Live(r)' /\ IsReversal(r)' =>
                 \/ /\ Live(r) /\ IsReversal(r) /\ voucher'[r].reverses = voucher[r].reverses
                 \/ TakesBack(s, r)
<1>1. ASSUME NEW r \in Ids, Live(r), IsReversal(r)
      PROVE  /\ Live(r)' /\ voucher'[r].reverses = voucher[r].reverses /\ voucher'[r].run = voucher[r].run
             /\ voucher'[r].rows = voucher[r].rows
  <2>1. voucher[r].status # "draft" /\ voucher[r].status # "none" /\ voucher[r].status \in Statuses
        BY <1>1 DEF IInv, EntryInv, Sound, IsReversal, Live, Statuses
  <2>2. QED
        BY <2>1 DEF Ordinary, Enters, TakesBack, Changes, Live
<1>2. ASSUME NEW v \in Ids, InBooks(v), findActiveReversal(v) # {}
      PROVE  /\ InBooks(v)' /\ voucher'[v].reverses = voucher[v].reverses
             /\ voucher'[v].run = voucher[v].run /\ voucher'[v].rows = voucher[v].rows
      BY <1>2 DEF Ordinary, Enters, TakesBack, Changes, InBooks, mayReturnToDraft, Statuses
<1>3. ASSUME NEW r \in Ids, Live(r)', IsReversal(r)'
      PROVE  \/ /\ Live(r) /\ IsReversal(r) /\ voucher'[r].reverses = voucher[r].reverses
             \/ TakesBack(s, r)
      BY <1>3 DEF Ordinary, Enters, Changes, Live, IsReversal
<1>4. QED
      BY <1>1, <1>2, <1>3

LEMMA OrdinaryKeepsReversals ==
    ASSUME IInv, NEW s \in Sessions, Ordinary(s)
    PROVE  ReversalInv'
<1>1. ASSUME NEW r \in Ids, Live(r)', IsReversal(r)', NEW v, v = voucher'[r].reverses
      PROVE  /\ voucher'[v].status \in {"approved", "permanent"} /\ voucher'[v].reverses = 0
             /\ voucher'[r].run = voucher'[v].run
             /\ voucher'[r].rows = Negative(voucher'[v].rows)
  <2>2. CASE Live(r) /\ IsReversal(r) /\ voucher'[r].reverses = voucher[r].reverses
    <3>1. v \in Ids
          BY <1>1, <2>2, VoucherType DEF IInv, IsReversal
    <3>2. InBooks(v) /\ ~ IsReversal(v) /\ voucher[r].run = voucher[v].run /\ voucher[r].rows = Negative(voucher[v].rows)
          BY <1>1, <2>2 DEF IInv, ReversalInv
    <3>3. r \in findActiveReversal(v)
          BY <1>1, <2>2 DEF findActiveReversal
    <3>4. InBooks(v)' /\ voucher'[v].reverses = voucher[v].reverses /\ voucher'[v].run = voucher[v].run /\ voucher'[v].rows = voucher[v].rows
          BY <3>1, <3>2, <3>3, OrdinaryKeepsPairs
    <3>5. voucher'[r].run = voucher[r].run /\ voucher'[r].rows = voucher[r].rows
          BY <2>2, OrdinaryKeepsPairs
    <3>6. QED
          BY <3>2, <3>4, <3>5 DEF IsReversal, InBooks
  <2>3. CASE TakesBack(s, r)
        BY <1>1, <2>3 DEF TakesBack, mayReverse, InBooks, IsReversal
  <2>4. QED
        BY <1>1, <2>2, <2>3, OrdinaryKeepsPairs
<1>2. ASSUME NEW q \in Ids, NEW r \in Ids, Live(q)', Live(r)', IsReversal(q)', voucher'[q].reverses = voucher'[r].reverses
      PROVE  q = r
  <2>1. IsReversal(r)'
        BY <1>2 DEF IsReversal
  <2>2. \A a, b \in Ids : TakesBack(s, a) /\ Live(b) => voucher[b].reverses # voucher'[a].reverses
        BY DEF TakesBack, mayReverse, findActiveReversal
  <2>3. CASE TakesBack(s, q)
        BY <1>2, <2>1, <2>2, <2>3, OrdinaryKeepsPairs DEF Ordinary
  <2>4. CASE TakesBack(s, r)
        BY <1>2, <2>1, <2>2, <2>4, OrdinaryKeepsPairs DEF Ordinary
  <2>5. CASE ~ TakesBack(s, q) /\ ~ TakesBack(s, r)
        BY <1>2, <2>1, <2>5, OrdinaryKeepsPairs DEF IInv, ReversalInv
  <2>6. QED
        BY <2>3, <2>4, <2>5
<1>3. QED
      BY <1>1, <1>2 DEF ReversalInv, InBooks, IsReversal

LEMMA OrdinaryKeepsYears ==
    ASSUME IInv, NEW s \in Sessions, Ordinary(s)
    PROVE  YearInv'
<1>1. closed' = closed
      BY DEF Ordinary
<1>2. ASSUME NEW y \in Years, y \in closed, NEW v \in Ids, voucher'[v].status = "draft", voucher'[v].year = y
      PROVE  FALSE
  <2>1. CASE voucher'[v] = voucher[v]
        BY <1>2, <2>1 DEF IInv, YearInv, findDraftVouchersOfYear
  <2>2. CASE voucher'[v] # voucher[v]
        BY <1>2, <2>2, OrdinaryYears DEF Ordinary, Live, Statuses
  <2>3. QED
        BY <2>1, <2>2
<1>3. ASSUME NEW y \in Years, y \notin closed, NEW v \in Ids, Live(v)', voucher'[v].run = y, ~ IsReversal(v)',
             findActiveReversal(v)' = {}
      PROVE  FALSE
  <2>1. y # 0
        BY ConstantFacts
  <2>2. Live(v) /\ voucher[v].run = y /\ ~ IsReversal(v)
        BY <1>3, <2>1, ConstantFacts DEF Ordinary, Enters, TakesBack, Changes, Live, IsReversal
  <2>3. findActiveReversal(v) # {}
        BY <1>3, <2>2 DEF IInv, YearInv, activeClosingRunVouchers
  <2>4. PICK r \in Ids : Live(r) /\ voucher[r].reverses = v
        BY <2>3 DEF findActiveReversal
  <2>5. IsReversal(r)
        BY <2>4, ConstantFacts DEF IsReversal
  <2>6. Live(r)' /\ voucher'[r].reverses = v
        BY <2>4, <2>5, OrdinaryKeepsPairs
  <2>7. QED
        BY <1>3, <2>6 DEF findActiveReversal
<1>4. QED
      BY <1>1, <1>2, <1>3 DEF YearInv, findDraftVouchersOfYear, activeClosingRunVouchers

LEMMA OthersHold ==
    ASSUME IInv, NEW s \in Sessions, tx' = [tx EXCEPT ![s] = Idle],
           \A p \in Sessions : p # s /\ tx[p].op \in VoucherOps => voucher'[tx[p].id] = voucher[tx[p].id]
    PROVE  LocksInv' /\ tx' \in [Sessions -> Transactions] /\ Facts(s)' /\ \A p \in Sessions : p # s => tx'[p] = tx[p]
<1>1. tx'[s] = Idle /\ tx'[s].op = "none" /\ tx'[s].held = {} /\ \A p \in Sessions : p # s => tx'[p] = tx[p]
      BY OtherTransactions, EmptyTypes, IdleFields
<1>2. ApartInv'
      BY <1>1 DEF IInv, LocksInv, ApartInv
<1>3. ASSUME NEW p \in Sessions, p # s PROVE Holds(p)'
  <2>1. tx'[p] = tx[p] /\ Holds(p)
        BY <1>1, <1>3 DEF IInv, LocksInv
  <2>2. tx[p].op \in VoucherOps => WritesIn(p)' = WritesIn(p)
        BY <1>3, <2>1 DEF WritesIn
  <2>3. QED
        BY <2>1, <2>2 DEF Holds
<1>4. Holds(s)'
      BY <1>1 DEF Holds, VoucherOps, YearOps
<1>5. Facts(s)'
      BY <1>1 DEF Facts, VoucherOps
<1>6. tx' \in [Sessions -> Transactions]
      BY EmptyTypes DEF IInv, TypeOK
<1>7. QED
      BY <1>1, <1>2, <1>3, <1>4, <1>5, <1>6 DEF LocksInv

(* Nobody else touches the voucher a session has locked. *)
LEMMA OrdinaryLeavesOthers ==
    ASSUME IInv, NEW s \in Sessions, Ordinary(s), NEW p \in Sessions, p # s, NEW v, v = tx[p].id
    PROVE  /\ tx[p].op \in VoucherOps => /\ voucher'[v] = voucher[v]
                                         /\ findActiveReversal(v) = {} => findActiveReversal(v)' = {}
           /\ tx[p].op = "close" /\ tx[p].seen => Seen(p)'
<1>1. \A h \in tx[s].held, l \in tx[p].held : ~ Conflict(h, l)
      BY DEF IInv, LocksInv, ApartInv
<1>2. Holds(p) /\ Facts(p)
      BY DEF IInv, LocksInv, FactsInv
<1>3. ASSUME tx[p].op \in VoucherOps
      PROVE  /\ voucher'[v] = voucher[v]
             /\ findActiveReversal(v) = {} => findActiveReversal(v)' = {}
  <2>2. v \in Ids /\ v # 0 /\ Live(v) /\ lockVoucher(v) \in tx[p].held
        BY <1>3, OwnVoucher
  <2>3. lockVoucher(v) \notin tx[s].held
        BY <1>1, <2>2 DEF Conflict, lockVoucher
  <2>4. voucher'[v] = voucher[v]
        BY <2>2, <2>3 DEF Ordinary, Enters, TakesBack, Changes, Live, Statuses
  <2>5. ASSUME findActiveReversal(v) = {}, NEW r \in Ids, Live(r)', voucher'[r].reverses = v PROVE FALSE
    <3>1. IsReversal(r)'
          BY <2>2, <2>5 DEF IsReversal
    <3>2. CASE Live(r) /\ voucher'[r].reverses = voucher[r].reverses
          BY <2>5, <3>2 DEF findActiveReversal
    <3>3. CASE TakesBack(s, r)
          BY <2>3, <2>5, <3>3 DEF TakesBack
    <3>4. QED
          BY <2>5, <3>1, <3>2, <3>3, OrdinaryKeepsPairs
  <2>6. QED
        BY <2>4, <2>5 DEF findActiveReversal
<1>4. ASSUME tx[p].op = "close", tx[p].seen PROVE Seen(p)'
  <2>1. PICK y : y = tx[p].year
        OBVIOUS
  <2>2. y \in Years /\ Seen(p) /\ tx[p].checked /\ lockYear(y) \in tx[p].held
        BY <1>2, <1>4, <2>1 DEF Holds, Facts, Seen, YearOps
  <2>3. WritesIn(s) # y /\ WritesIn(s) \notin closed /\ WritesIn(s) \in Years /\ closed' = closed
        BY <1>1, <2>2 DEF Ordinary, Conflict, lockYear, shareYear
  <2>4. tx'[p] = tx[p]
        BY OtherTransactions, EmptyTypes DEF Ordinary
  <2>5. findDraftVouchersOfYear(y)' = {}
    <3>1. SUFFICES ASSUME NEW u \in Ids, voucher'[u].status = "draft", voucher'[u].year = y PROVE FALSE
          BY DEF findDraftVouchersOfYear
    <3>2. voucher'[u] = voucher[u]
          BY <2>3, <3>1, OrdinaryYears DEF Live, Statuses
    <3>3. QED
          BY <2>1, <2>2, <3>1, <3>2 DEF Seen, findDraftVouchersOfYear
  <2>6. PICK Y : Y = (closed \cap 1..y) \cup {y}
        OBVIOUS
  <2>7. BooksIn(voucher', Y) = BooksIn(voucher, Y)
    <3>1. WritesIn(s) \notin Y
          BY <2>3, <2>6
    <3>2. \A u \in Ids : \/ voucher'[u] = voucher[u]
                         \/ ~ (InBooks(u) /\ voucher[u].year \in Y) /\ ~ (InBooks(u)' /\ voucher'[u].year \in Y)
          BY <3>1, OrdinaryYears
    <3>3. QED
          BY <3>2, BooksSame DEF InBooks
  <2>8. late' = late
        BY DEF Ordinary
  <2>9. QED
        BY <2>1, <2>2, <2>3, <2>4, <2>5, <2>6, <2>7, <2>8 DEF Seen
<1>5. QED
      BY <1>3, <1>4

LEMMA OrdinaryKeepsFacts ==
    ASSUME IInv, NEW s \in Sessions, Ordinary(s), NEW p \in Sessions, p # s
    PROVE  Facts(p)'
<1>1. Facts(p) /\ tx'[p] = tx[p] /\ closed' = closed
      BY OtherTransactions, EmptyTypes DEF IInv, FactsInv, Ordinary
<1>2. PICK v : v = tx[p].id
      OBVIOUS
<1>3. /\ tx[p].op \in VoucherOps => /\ voucher'[v] = voucher[v]
                                    /\ findActiveReversal(v) = {} => findActiveReversal(v)' = {}
      /\ tx[p].op = "close" /\ tx[p].seen => Seen(p)'
      BY <1>2, OrdinaryLeavesOthers
<1>4. CASE tx[p].op \in VoucherOps
  <2>1. /\ Live(v) => Live(v)'
        /\ mayReturnToDraft(v) => mayReturnToDraft(v)'
        /\ mayReverse(v) => mayReverse(v)'
        /\ MayTakeBack(v) => MayTakeBack(v)'
        /\ IsReversal(v)' = IsReversal(v)
        BY <1>3, <1>4 DEF Live, mayReturnToDraft, mayReverse, MayTakeBack, Manual, IsReversal, InBooks
  <2>2. MayApprove(v, tx[p].want, tx[p].user) => MayApprove(v, tx[p].want, tx[p].user)'
        BY <1>1, <1>3, <1>4 DEF MayApprove, Manual
  <2>3. QED
        BY <1>1, <1>2, <1>3, <1>4, <2>1, <2>2 DEF Facts, VoucherOps
<1>5. CASE tx[p].op \notin VoucherOps
      BY <1>1, <1>3, <1>5 DEF Facts, VoucherOps
<1>6. QED
      BY <1>4, <1>5

LEMMA OrdinaryKeepsIInv ==
    ASSUME IInv, NEW s \in Sessions, Ordinary(s)
    PROVE  IInv'
<1>1. LocksInv' /\ tx' \in [Sessions -> Transactions] /\ Facts(s)'
      BY OthersHold, OrdinaryLeavesOthers DEF Ordinary
<1>2. TypeOK'
      BY <1>1 DEF Ordinary, IInv, TypeOK
<1>3. FactsInv'
      BY <1>1, OrdinaryKeepsFacts DEF FactsInv
<1>4. QED
      BY <1>1, <1>2, <1>3, OrdinaryKeepsEntries, OrdinaryKeepsReversals, OrdinaryKeepsYears DEF IInv

-----------------------------------------------------------------------------
(* A closing and a reopening keep the invariant. *)

LEMMA YearWriterLeavesOthers ==
    ASSUME IInv, NEW s \in Sessions, Sequence \in tx[s].held, tx' = [tx EXCEPT ![s] = Idle],
           \A v \in Ids : \/ voucher'[v] = voucher[v]
                          \/ /\ voucher[v].status = "none"
                             /\ \/ voucher'[v].reverses = 0
                                \/ /\ voucher'[v].reverses \in Ids
                                   /\ voucher[voucher'[v].reverses].kind = "closing"
    PROVE  LocksInv' /\ FactsInv' /\ tx' \in [Sessions -> Transactions]
<1>1. ASSUME NEW p \in Sessions, p # s, tx[p].op \in VoucherOps, NEW v, v = tx[p].id
      PROVE  /\ voucher'[v] = voucher[v]
             /\ voucher[v].kind # "closing" /\ findActiveReversal(v) = {} => findActiveReversal(v)' = {}
  <2>1. v \in Ids /\ v # 0 /\ Live(v)
        BY <1>1, OwnVoucher
  <2>2. voucher'[v] = voucher[v]
        BY <2>1 DEF Live, Statuses
  <2>3. ASSUME voucher[v].kind # "closing", findActiveReversal(v) = {}, NEW r \in Ids, Live(r)', voucher'[r].reverses = v PROVE FALSE
        BY <2>1, <2>3 DEF findActiveReversal, Live
  <2>4. QED
        BY <2>2, <2>3 DEF findActiveReversal
<1>2. LocksInv' /\ tx' \in [Sessions -> Transactions] /\ Facts(s)' /\ \A p \in Sessions : p # s => tx'[p] = tx[p]
      BY <1>1, OthersHold
<1>3. ASSUME NEW p \in Sessions, p # s PROVE Facts(p)'
  <2>1. Facts(p) /\ Holds(p) /\ tx'[p] = tx[p]
        BY <1>2, <1>3 DEF IInv, FactsInv, LocksInv
  <2>2. tx[p].op \notin YearOps
        BY <1>3, OneYearWriter
  <2>3. PICK v : v = tx[p].id
        OBVIOUS
  <2>4. CASE tx[p].op \in VoucherOps
    <3>1. /\ voucher'[v] = voucher[v]
          /\ voucher[v].kind # "closing" /\ findActiveReversal(v) = {} => findActiveReversal(v)' = {}
          BY <1>1, <1>3, <2>3, <2>4
    <3>2. /\ Live(v) => Live(v)'
          /\ mayReturnToDraft(v) => mayReturnToDraft(v)'
          /\ voucher[v].kind # "closing" /\ mayReverse(v) => mayReverse(v)'
          /\ MayTakeBack(v) => MayTakeBack(v)'
          /\ IsReversal(v)' = IsReversal(v)
          BY <3>1 DEF Live, mayReturnToDraft, mayReverse, MayTakeBack, Manual, IsReversal, InBooks
    <3>3. MayApprove(v, tx[p].want, tx[p].user) => MayApprove(v, tx[p].want, tx[p].user)'
          BY <2>1, <3>1 DEF MayApprove, Manual
    <3>4. MayTakeBack(v) => voucher[v].kind # "closing"
          BY DEF MayTakeBack, Manual
    <3>5. QED
          BY <2>1, <2>3, <2>4, <3>1, <3>2, <3>3, <3>4 DEF Facts, VoucherOps
  <2>5. CASE tx[p].op \notin VoucherOps
        BY <2>1, <2>2, <2>5 DEF Facts, VoucherOps, YearOps
  <2>6. QED
        BY <2>4, <2>5
<1>4. QED
      BY <1>2, <1>3 DEF FactsInv

(* What a closing writes. *)
ClosesWith(s, v) ==
    /\ voucher[v].status = "none"
    /\ voucher'[v].status = "approved" /\ voucher'[v].kind = "closing"
    /\ voucher'[v].run = tx[s].year /\ voucher'[v].reverses = 0
    /\ voucher'[v].year \in {tx[s].year, tx[s].year + 1} \ closed

Closes(s) ==
    /\ UNCHANGED <<scene, late>>
    /\ tx' = [tx EXCEPT ![s] = Idle]
    /\ tx[s].op = "close" /\ Sequence \in tx[s].held /\ tx[s].year \in Years
    /\ tx[s].year \notin closed /\ Seen(s)
    /\ closed' = closed \cup {tx[s].year}
    /\ voucher' \in [Ids -> Vouchers]
    /\ \A v \in Ids : voucher'[v] = voucher[v] \/ ClosesWith(s, v)

LEMMA ClosingVoucherFields ==
    ASSUME NEW y \in Years, y < Today, NEW balance \in [Accounts -> Int]
    PROVE  /\ LET c == ClosingVoucher(y, balance) IN
              /\ c \in Vouchers /\ c.status = "approved" /\ c.kind = "closing" /\ c.run = y /\ c.reverses = 0 /\ c.year = y
              /\ c.rows = Negative(balance)
           /\ LET o == OpeningVoucher(y, balance) IN
              /\ o \in Vouchers /\ o.status = "approved" /\ o.kind = "closing" /\ o.run = y /\ o.reverses = 0 /\ o.year = y + 1
<1>1. y \in 0..Today - 1 /\ y + 1 \in Years /\ Negative(balance) \in [Accounts -> Int]
      BY ConstantFacts, NegativeType
<1>2. PICK rows : rows = [NoRows EXCEPT !["asset"] = balance["asset"], !["equity"] = 0 - balance["asset"]]
      OBVIOUS
<1>3. rows \in [Accounts -> Int]
      BY <1>2, EmptyTypes DEF Accounts
<1>4. /\ LET c == ClosingVoucher(y, balance) IN
         /\ c \in Vouchers /\ c.status = "approved" /\ c.kind = "closing" /\ c.run = y /\ c.reverses = 0 /\ c.year = y
         /\ c.rows = Negative(balance)
      BY <1>1 DEF ClosingVoucher, NoVoucher, Vouchers, Statuses
<1>5. OpeningVoucher(y, balance) =
         [NoVoucher EXCEPT !.status = "approved", !.kind = "closing", !.year = y + 1, !.run = y, !.rows = rows]
      BY <1>2 DEF OpeningVoucher
<1>6. LET o == OpeningVoucher(y, balance) IN
         /\ o \in Vouchers /\ o.status = "approved" /\ o.kind = "closing" /\ o.run = y /\ o.reverses = 0 /\ o.year = y + 1
      BY <1>1, <1>3, <1>5 DEF NoVoucher, Vouchers, Statuses
<1>7. QED
      BY <1>4, <1>6

LEMMA CloseFacts ==
    ASSUME IInv, NEW s \in Sessions, Close(s)
    PROVE  /\ tx[s].op = "close" /\ Sequence \in tx[s].held
           /\ tx[s].year \in Years /\ tx[s].year < Today /\ tx[s].year \notin closed /\ Seen(s)
           /\ tx[s].balance \in [Accounts -> Int]
<1>1. Holds(s) /\ Facts(s) /\ tx[s].op = "close" /\ tx[s].seen
      BY DEF IInv, LocksInv, FactsInv, Close, Ready
<1>2. tx[s].balance \in [Accounts -> Int]
      BY SessionType DEF IInv
<1>3. QED
      BY <1>1, <1>2 DEF Holds, Facts, Seen, YearOps

LEMMA CloseCloses ==
    ASSUME IInv, NEW s \in Sessions, Close(s)
    PROVE  Closes(s)
<1>1. PICK y, balance : y = tx[s].year /\ balance = tx[s].balance
      OBVIOUS
<1>2. /\ tx[s].op = "close" /\ Sequence \in tx[s].held
      /\ y \in Years /\ y < Today /\ y \notin closed /\ Seen(s) /\ balance \in [Accounts -> Int]
      BY <1>1, CloseFacts
<1>3. PICK c, o : c = ClosingVoucher(y, balance) /\ o = OpeningVoucher(y, balance)
      OBVIOUS
<1>4. /\ c \in Vouchers /\ c.status = "approved" /\ c.kind = "closing" /\ c.run = y /\ c.reverses = 0 /\ c.year = y
      /\ o \in Vouchers /\ o.status = "approved" /\ o.kind = "closing" /\ o.run = y /\ o.reverses = 0 /\ o.year = y + 1
      BY <1>2, <1>3, ClosingVoucherFields
<1>5. UNCHANGED <<scene, late>> /\ tx' = [tx EXCEPT ![s] = Idle] /\ closed' = closed \cup {y}
      BY <1>1 DEF Close, Ends
<1>6. voucher' \in [Ids -> Vouchers] /\ \A v \in Ids : voucher'[v] = voucher[v] \/ ClosesWith(s, v)
  <2>1. CASE UNCHANGED voucher
        BY <2>1 DEF IInv, TypeOK
  <2>2. CASE \E v \in NewId(1) : voucher' = [voucher EXCEPT ![v] = c]
    <3>1. PICK v \in NewId(1) : voucher' = [voucher EXCEPT ![v] = c]
          BY <2>2
    <3>2. v \in Ids /\ voucher[v].status = "none"
          BY NewIds
    <3>3. voucher'[v] = c /\ \A u \in Ids : u # v => voucher'[u] = voucher[u]
          BY <3>1, <3>2 DEF IInv, TypeOK
    <3>4. ClosesWith(s, v)
          BY <1>1, <1>2, <1>4, <3>2, <3>3 DEF ClosesWith
    <3>5. QED
          BY <1>4, <3>1, <3>3, <3>4 DEF IInv, TypeOK
  <2>3. CASE assertOpen(y + 1) /\ \E v \in NewId(1), w \in NewId(2) : voucher' = [voucher EXCEPT ![v] = c, ![w] = o]
    <3>1. PICK v \in NewId(1), w \in NewId(2) : voucher' = [voucher EXCEPT ![v] = c, ![w] = o]
          BY <2>3
    <3>2. v \in Ids /\ voucher[v].status = "none" /\ w \in Ids /\ voucher[w].status = "none" /\ v # w
          BY NewIds, NewIdsDiffer
    <3>3. voucher'[v] = c /\ voucher'[w] = o /\ \A u \in Ids : u # v /\ u # w => voucher'[u] = voucher[u]
          BY <3>1, <3>2 DEF IInv, TypeOK
    <3>4. ClosesWith(s, v)
          BY <1>1, <1>2, <1>4, <3>2, <3>3 DEF ClosesWith
    <3>5. ClosesWith(s, w)
          BY <1>1, <1>2, <1>4, <2>3, <3>2, <3>3 DEF ClosesWith, assertOpen
    <3>6. QED
          BY <1>4, <3>1, <3>3, <3>4, <3>5 DEF IInv, TypeOK
  <2>4. QED
        BY <1>1, <1>3, <2>1, <2>2, <2>3 DEF Close
<1>7. QED
      BY <1>1, <1>2, <1>5, <1>6 DEF Closes

LEMMA CloseKeepsIInv ==
    ASSUME IInv, NEW s \in Sessions, Closes(s)
    PROVE  IInv'
<1>1. \A v \in Ids : \/ voucher'[v] = voucher[v]
                     \/ ClosesWith(s, v)
      BY DEF Closes
<1>2. LocksInv' /\ FactsInv' /\ tx' \in [Sessions -> Transactions]
      BY YearWriterLeavesOthers DEF Closes, ClosesWith
<1>3. TypeOK'
      BY <1>2, ConstantFacts DEF Closes, IInv, TypeOK
<1>4. EntryInv'
  <2>1. ASSUME NEW v \in Ids, ClosesWith(s, v) PROVE Sound(voucher'[v])
        BY <2>1, ConstantFacts DEF ClosesWith, Closes, Sound, ReviewedByAnother
  <2>2. QED
        BY <1>1, <2>1 DEF IInv, EntryInv, Live
<1>5. \A v \in Ids : Live(v) => voucher'[v] = voucher[v]
      BY <1>1 DEF ClosesWith, Live, Statuses
<1>6. \A r \in Ids : Live(r)' /\ IsReversal(r)' => Live(r) /\ IsReversal(r) /\ voucher'[r] = voucher[r]
      BY <1>1 DEF ClosesWith, Live, IsReversal
<1>7. ReversalInv'
  <2>1. ASSUME NEW r \in Ids, Live(r)', IsReversal(r)', NEW v, v = voucher'[r].reverses
        PROVE  /\ voucher'[v].status \in {"approved", "permanent"} /\ voucher'[v].reverses = 0
               /\ voucher'[r].run = voucher'[v].run
               /\ voucher'[r].rows = Negative(voucher'[v].rows)
    <3>1. Live(r) /\ IsReversal(r) /\ voucher'[r] = voucher[r]
          BY <1>6, <2>1
    <3>2. v \in Ids
          BY <2>1, <3>1, VoucherType DEF IInv, IsReversal
    <3>3. InBooks(v) /\ ~ IsReversal(v) /\ voucher[r].run = voucher[v].run /\ voucher[r].rows = Negative(voucher[v].rows)
          BY <2>1, <3>1 DEF IInv, ReversalInv
    <3>4. voucher'[v] = voucher[v]
          BY <1>5, <3>2, <3>3 DEF InBooks, Live, Statuses
    <3>5. QED
          BY <3>1, <3>3, <3>4 DEF InBooks, IsReversal
  <2>2. ASSUME NEW q \in Ids, NEW r \in Ids, Live(q)', Live(r)', IsReversal(q)', voucher'[q].reverses = voucher'[r].reverses
        PROVE  q = r
    <3>1. IsReversal(r)'
          BY <2>2 DEF IsReversal
    <3>2. QED
          BY <1>6, <2>2, <3>1 DEF IInv, ReversalInv
  <2>3. QED
        BY <2>1, <2>2 DEF ReversalInv, InBooks, IsReversal
<1>8. YearInv'
  <2>1. ASSUME NEW y \in Years, y \in closed', NEW v \in Ids, voucher'[v].status = "draft", voucher'[v].year = y
        PROVE  FALSE
    <3>1. voucher'[v] = voucher[v]
          BY <1>1, <2>1 DEF ClosesWith
    <3>2. QED
          BY <2>1, <3>1 DEF Closes, Seen, IInv, YearInv, findDraftVouchersOfYear
  <2>2. ASSUME NEW y \in Years, y \notin closed', NEW v \in Ids, Live(v)', voucher'[v].run = y, ~ IsReversal(v)',
               findActiveReversal(v)' = {}
        PROVE  FALSE
    <3>1. y \notin closed /\ y # tx[s].year
          BY <2>2 DEF Closes
    <3>2. voucher'[v] = voucher[v]
          BY <1>1, <2>2, <3>1 DEF ClosesWith
    <3>3. Live(v) /\ voucher[v].run = y /\ ~ IsReversal(v)
          BY <2>2, <3>2 DEF Live, IsReversal
    <3>4. findActiveReversal(v) = {}
          BY <1>5, <2>2 DEF findActiveReversal, Live
    <3>5. QED
          BY <3>1, <3>3, <3>4 DEF IInv, YearInv, activeClosingRunVouchers
  <2>3. QED
        BY <2>1, <2>2 DEF YearInv, findDraftVouchersOfYear, activeClosingRunVouchers
<1>9. QED
      BY <1>2, <1>3, <1>4, <1>7, <1>8 DEF IInv

(* What a reopening writes: of each voucher of the run one reversal, at    *)
(* the voucher's own date.                                                 *)
Undoes(v, o) ==
    /\ voucher[v].status = "none"
    /\ voucher'[v].status = "approved" /\ voucher'[v].kind = voucher[o].kind /\ voucher'[v].run = voucher[o].run
    /\ voucher'[v].reverses = o /\ voucher'[v].year = voucher[o].year
    /\ voucher'[v].rows = Negative(voucher[o].rows)

Reopens(s) ==
    LET run == activeClosingRunVouchers(tx[s].year) IN
    /\ UNCHANGED <<scene, late>>
    /\ tx' = [tx EXCEPT ![s] = Idle]
    /\ Sequence \in tx[s].held /\ tx[s].year \in Years
    /\ tx[s].year \in closed /\ \A y \in closed : y <= tx[s].year
    /\ closed' = closed \ {tx[s].year}
    /\ voucher' \in [Ids -> Vouchers]
    /\ \A v \in Ids : voucher'[v] = voucher[v] \/ \E o \in run : Undoes(v, o)
    /\ \A o \in run : \E v \in Ids : Undoes(v, o)
    /\ \A o \in run, q, r \in Ids : Undoes(q, o) /\ Undoes(r, o) => q = r

LEMMA NewIdsEnumerate ==
    ASSUME IInv
    PROVE  /\ \A n \in Nat : \A q, r \in NewId(n) : q = r
           /\ \A m, n \in Nat : \A v \in NewId(m) \cap NewId(n) : m = n
           /\ \A n \in 1..Cardinality(Unused) : NewId(n) # {}
           /\ Cardinality(Unused) \in Nat
<1> DEFINE Older(v) == {u \in Unused : u < v}
<1>1. Unused \in SUBSET Ids
      BY SceneFacts DEF Unused, IInv, TypeOK
<1>2. IsFiniteSet(Unused) /\ Cardinality(Unused) \in Nat /\ \A v \in Unused : v \in Nat
      BY <1>1, ConstantFacts, FS_Subset, FS_CardinalityType
<1>3. ASSUME NEW v \in Unused, NEW w \in Unused, v < w
      PROVE  Cardinality(Older(v)) < Cardinality(Older(w))
  <2>1. Older(v) \in SUBSET Older(w) /\ v \in Older(w) /\ v \notin Older(v) /\ IsFiniteSet(Older(w))
        BY <1>2, <1>3, FS_Subset
  <2> HIDE DEF Older
  <2>2. Older(v) # Older(w)
        BY <2>1
  <2>3. QED
        BY <2>1, <2>2, FS_Subset, FS_CardinalityType
<1>4. \A v \in Unused : Cardinality(Older(v)) \in Nat
      BY <1>2, FS_Subset, FS_CardinalityType
<1>5. \A n \in 1..Cardinality(Unused) : \E v \in Unused : Cardinality(Older(v)) = n - 1
  <2>1. PICK key : key = [v \in Unused |-> v]
        OBVIOUS
  <2>2. key \in [Unused -> Int] /\ (\A x, y \in Unused : key[x] = key[y] => x = y)
        BY <1>2, <2>1
  <2>3. \A n \in 1..Cardinality(Unused) : \E x \in Unused : Cardinality({y \in Unused : key[y] < key[x]}) = n - 1
        BY <1>2, <2>2, NthOfSet
  <2>4. \A x \in Unused : {y \in Unused : key[y] < key[x]} = Older(x)
        BY <2>1
  <2>5. QED
        BY <2>3, <2>4
<1>6. \A n : NewId(n) = {v \in Unused : Cardinality(Older(v)) = n - 1}
      BY DEF NewId
<1> HIDE DEF Older
<1>7. \A v, w \in Unused : Cardinality(Older(v)) = Cardinality(Older(w)) => v = w
      BY <1>2, <1>3, <1>4
<1>8. \A n \in Nat : \A q, r \in NewId(n) : q = r
      BY <1>6, <1>7
<1>9. \A m, n \in Nat : \A v \in NewId(m) \cap NewId(n) : m = n
  <2>1. SUFFICES ASSUME NEW m \in Nat, NEW n \in Nat, NEW v \in NewId(m) \cap NewId(n) PROVE m = n
        OBVIOUS
  <2>2. m - 1 = n - 1
        BY <1>6
  <2>3. QED
        BY <2>2
<1>10. \A n \in 1..Cardinality(Unused) : NewId(n) # {}
      BY <1>5, <1>6
<1>11. QED
      BY <1>2, <1>8, <1>9, <1>10

LEMMA ReopenReopens ==
    ASSUME IInv, NEW s \in Sessions, Reopen(s)
    PROVE  Reopens(s)
<1>1. PICK y : y = tx[s].year
      OBVIOUS
<1>2. PICK active : active = activeClosingRunVouchers(y)
      OBVIOUS
<1>3. PICK run : run = NewestFirst(active)
      OBVIOUS
<1>4. Holds(s) /\ Facts(s) /\ tx[s].op = "reopen" /\ tx[s].checked /\ tx' = [tx EXCEPT ![s] = Idle] /\ UNCHANGED <<scene, late>>
      /\ closed' = closed \ {y} /\ Cardinality(Unused) >= Len(run)
      BY <1>1, <1>2, <1>3 DEF IInv, LocksInv, FactsInv, Reopen, Ready, Ends
<1>5. /\ Sequence \in tx[s].held /\ y \in Years /\ y \in closed /\ \A e \in closed : e <= y
      BY <1>1, <1>4 DEF Holds, Facts, YearOps
<1>6. active \in SUBSET Ids
      BY <1>2 DEF activeClosingRunVouchers
<1>7. /\ run \in Seq(active) /\ Len(run) \in Nat
      /\ \A o \in active : \E i \in 1..Len(run) : run[i] = o
      /\ \A i, j \in 1..Len(run) : run[i] = run[j] => i = j
      BY <1>3, <1>6, NewestFirstEnumerates
<1>8. \A i \in 1..Len(run) : run[i] \in active
      BY <1>7, ElementOfSeq
<1> DEFINE AsReversed(v) == {i \in 1..Len(run) : v \in NewId(i)}
<1>9. voucher' = [v \in Ids |-> IF AsReversed(v) = {} THEN voucher[v]
                                ELSE ReversalOf(run[CHOOSE i \in AsReversed(v) : TRUE], voucher[run[CHOOSE i \in AsReversed(v) : TRUE]].year, Nobody)]
      BY <1>1, <1>2, <1>3 DEF Reopen
<1>10. ASSUME NEW v \in Ids, NEW i \in AsReversed(v)
       PROVE  /\ voucher'[v] = ReversalOf(run[i], voucher[run[i]].year, Nobody)
              /\ voucher'[v] \in Vouchers
              /\ Undoes(v, run[i])
  <2>1. i \in 1..Len(run) /\ v \in NewId(i) /\ i \in Nat
        BY <1>7, <1>10
  <2>2. \A j \in AsReversed(v) : j = i
        BY <1>7, <2>1, NewIdsEnumerate
  <2>3. PICK j : j = CHOOSE k \in AsReversed(v) : TRUE
        OBVIOUS
  <2>4. j = i
        BY <1>10, <2>2, <2>3
  <2>5. voucher'[v] = ReversalOf(run[i], voucher[run[i]].year, Nobody)
    <3> HIDE DEF AsReversed
    <3>1. QED
          BY <1>9, <1>10, <2>3, <2>4
  <2>6. run[i] \in Ids
        BY <1>6, <1>8, <2>1
  <2>7. voucher[run[i]].year \in Years
        BY <2>6, VoucherType DEF IInv
  <2>8. voucher[v].status = "none"
        BY <2>1, NewIds
  <2>9. QED
        BY <2>5, <2>6, <2>7, <2>8, ReversalType DEF Undoes, IInv
<1>11. \A v \in Ids : AsReversed(v) = {} => voucher'[v] = voucher[v]
  <2> HIDE DEF AsReversed
  <2>1. QED
        BY <1>9
<1>12. voucher' \in [Ids -> Vouchers]
  <2>1. \A v \in Ids : voucher'[v] \in Vouchers
        BY <1>10, <1>11, VoucherType DEF IInv
  <2>2. voucher' = [v \in Ids |-> voucher'[v]]
        BY <1>9
  <2>3. QED
        BY <2>1, <2>2
<1>13. \A v \in Ids : voucher'[v] = voucher[v] \/ \E o \in active : Undoes(v, o)
      BY <1>8, <1>10, <1>11
<1>14. \A o \in active : \E v \in Ids : Undoes(v, o)
  <2>1. SUFFICES ASSUME NEW o \in active PROVE \E v \in Ids : Undoes(v, o)
        OBVIOUS
  <2>2. PICK i \in 1..Len(run) : run[i] = o
        BY <1>7
  <2>3. i \in 1..Cardinality(Unused)
        BY <1>4, <1>7, <2>2, NewIdsEnumerate
  <2>4. PICK v \in NewId(i) : TRUE
        BY <2>3, NewIdsEnumerate
  <2>5. v \in Ids
        BY <2>4, NewIds
  <2>6. i \in AsReversed(v)
        BY <2>2, <2>4
  <2>7. QED
        BY <1>10, <2>2, <2>5, <2>6
<1>15. \A o \in active, q, r \in Ids : Undoes(q, o) /\ Undoes(r, o) => q = r
  <2>1. SUFFICES ASSUME NEW o \in active, NEW q \in Ids, NEW r \in Ids, Undoes(q, o), Undoes(r, o) PROVE q = r
        OBVIOUS
  <2>2. ASSUME NEW v \in Ids, Undoes(v, o) PROVE \E i \in AsReversed(v) : run[i] = o
    <3>1. AsReversed(v) # {}
          BY <1>11, <2>2 DEF Undoes
    <3>2. PICK i \in AsReversed(v) : TRUE
          BY <3>1
    <3>3. Undoes(v, run[i])
          BY <1>10, <2>2, <3>2
    <3>4. QED
          BY <2>2, <3>2, <3>3 DEF Undoes
  <2>3. PICK i \in AsReversed(q), j \in AsReversed(r) : run[i] = o /\ run[j] = o
        BY <2>1, <2>2
  <2>4. i = j
        BY <1>7, <2>3
  <2>5. q \in NewId(i) /\ r \in NewId(i) /\ i \in Nat
        BY <1>7, <2>3, <2>4
  <2>6. QED
        BY <2>5, NewIdsEnumerate
<1>16. QED
      BY <1>1, <1>2, <1>4, <1>5, <1>12, <1>13, <1>14, <1>15 DEF Reopens

LEMMA ReopenKeepsIInv ==
    ASSUME IInv, NEW s \in Sessions, Reopens(s)
    PROVE  IInv'
<1>1. PICK active : active = activeClosingRunVouchers(tx[s].year)
      OBVIOUS
<1>2. /\ active \in SUBSET Ids
      /\ \A o \in active : Live(o) /\ voucher[o].run = tx[s].year /\ ~ IsReversal(o) /\ findActiveReversal(o) = {}
      BY <1>1 DEF activeClosingRunVouchers
<1>3. /\ \A v \in Ids : voucher'[v] = voucher[v] \/ \E o \in active : Undoes(v, o)
      /\ \A o \in active : \E v \in Ids : Undoes(v, o)
      /\ \A o \in active, q, r \in Ids : Undoes(q, o) /\ Undoes(r, o) => q = r
      /\ tx[s].year \in Years /\ tx[s].year \in closed /\ closed' = closed \ {tx[s].year}
      BY <1>1 DEF Reopens
<1>4. ASSUME NEW o \in active
      PROVE  /\ o \in Ids /\ o # 0 /\ InBooks(o) /\ voucher[o].kind = "closing" /\ voucher'[o] = voucher[o]
             /\ Sound(voucher[o])
  <2>1. o \in Ids /\ o # 0 /\ Live(o) /\ voucher[o].run # 0 /\ Sound(voucher[o])
        BY <1>2, <1>3, <1>4, ConstantFacts DEF IInv, EntryInv
  <2>2. QED
        BY <1>3, <2>1 DEF Undoes, Live, InBooks, Sound, Statuses
<1>5. \A v \in Ids : Live(v) => voucher'[v] = voucher[v]
      BY <1>3 DEF Undoes, Live, Statuses
<1>6. LocksInv' /\ FactsInv' /\ tx' \in [Sessions -> Transactions]
  <2>1. \A v \in Ids : \/ voucher'[v] = voucher[v]
                       \/ /\ voucher[v].status = "none"
                          /\ \/ voucher'[v].reverses = 0
                             \/ /\ voucher'[v].reverses \in Ids
                                /\ voucher[voucher'[v].reverses].kind = "closing"
        BY <1>3, <1>4 DEF Undoes
  <2>2. QED
        BY <2>1, YearWriterLeavesOthers DEF Reopens
<1>7. TypeOK'
      BY <1>6 DEF Reopens, IInv, TypeOK
<1>8. EntryInv'
  <2>1. ASSUME NEW v \in Ids, NEW o \in active, Undoes(v, o) PROVE Sound(voucher'[v])
        BY <1>4, <2>1 DEF Undoes, Sound, ReviewedByAnother
  <2>2. QED
        BY <1>3, <2>1 DEF IInv, EntryInv, Live
<1>9. ReversalInv'
  <2>1. ASSUME NEW r \in Ids, Live(r)', IsReversal(r)', NEW v, v = voucher'[r].reverses
        PROVE  /\ voucher'[v].status \in {"approved", "permanent"} /\ voucher'[v].reverses = 0
               /\ voucher'[r].run = voucher'[v].run
               /\ voucher'[r].rows = Negative(voucher'[v].rows)
    <3>1. CASE voucher'[r] = voucher[r]
      <4>1. Live(r) /\ IsReversal(r)
            BY <2>1, <3>1 DEF Live, IsReversal
      <4>2. v \in Ids
            BY <2>1, <3>1, <4>1, VoucherType DEF IInv, IsReversal
      <4>3. InBooks(v) /\ ~ IsReversal(v) /\ voucher[r].run = voucher[v].run /\ voucher[r].rows = Negative(voucher[v].rows)
            BY <2>1, <3>1, <4>1 DEF IInv, ReversalInv
      <4>4. voucher'[v] = voucher[v]
            BY <1>5, <4>2, <4>3 DEF InBooks, Live, Statuses
      <4>5. QED
            BY <3>1, <4>3, <4>4 DEF InBooks, IsReversal
    <3>2. CASE \E o \in active : Undoes(r, o)
      <4>1. PICK o \in active : Undoes(r, o)
            BY <3>2
      <4>2. v = o
            BY <2>1, <4>1 DEF Undoes
      <4>3. QED
            BY <1>2, <1>4, <4>1, <4>2 DEF Undoes, InBooks, IsReversal
    <3>3. QED
          BY <1>3, <3>1, <3>2
  <2>2. ASSUME NEW q \in Ids, NEW r \in Ids, Live(q)', Live(r)', IsReversal(q)', voucher'[q].reverses = voucher'[r].reverses
        PROVE  q = r
    <3>1. ASSUME NEW a \in Ids, NEW b \in Ids, NEW o \in active, Undoes(a, o), voucher'[b] = voucher[b], Live(b)',
                 voucher'[a].reverses = voucher'[b].reverses
          PROVE  FALSE
          BY <1>2, <3>1 DEF Undoes, findActiveReversal, Live
    <3>2. CASE \E o \in active : Undoes(q, o)
      <4>1. PICK o \in active : Undoes(q, o)
            BY <3>2
      <4>2. PICK u \in active : Undoes(r, u)
            BY <1>3, <2>2, <3>1, <4>1
      <4>3. u = o
            BY <2>2, <4>1, <4>2 DEF Undoes
      <4>4. QED
            BY <1>3, <4>1, <4>2, <4>3
    <3>3. CASE voucher'[q] = voucher[q]
      <4>1. voucher'[r] = voucher[r]
            BY <1>3, <2>2, <3>1, <3>3
      <4>2. QED
            BY <2>2, <3>3, <4>1 DEF IInv, ReversalInv, Live, IsReversal
    <3>4. QED
          BY <1>3, <3>2, <3>3
  <2>3. QED
        BY <2>1, <2>2 DEF ReversalInv, InBooks, IsReversal
<1>10. YearInv'
  <2>1. ASSUME NEW y \in Years, y \in closed', NEW v \in Ids, voucher'[v].status = "draft", voucher'[v].year = y
        PROVE  FALSE
    <3>1. voucher'[v] = voucher[v]
          BY <1>3, <2>1 DEF Undoes
    <3>2. QED
          BY <1>3, <2>1, <3>1 DEF IInv, YearInv, findDraftVouchersOfYear
  <2>2. ASSUME NEW y \in Years, y \notin closed', NEW v \in Ids, Live(v)', voucher'[v].run = y, ~ IsReversal(v)',
               findActiveReversal(v)' = {}
        PROVE  FALSE
    <3>1. voucher'[v] = voucher[v]
          BY <1>3, <1>4, <2>2 DEF Undoes, IsReversal
    <3>2. Live(v) /\ voucher[v].run = y /\ ~ IsReversal(v)
          BY <2>2, <3>1 DEF Live, IsReversal
    <3>3. findActiveReversal(v) = {}
          BY <1>5, <2>2 DEF findActiveReversal, Live
    <3>4. v \in activeClosingRunVouchers(y)
          BY <3>2, <3>3 DEF activeClosingRunVouchers
    <3>5. CASE y \in closed
      <4>1. y = tx[s].year
            BY <1>3, <2>2, <3>5
      <4>2. PICK r \in Ids : Undoes(r, v)
            BY <1>1, <1>3, <3>4, <4>1
      <4>3. QED
            BY <2>2, <4>2 DEF Undoes, findActiveReversal, Live, Statuses
    <3>6. CASE y \notin closed
          BY <3>4, <3>6 DEF IInv, YearInv
    <3>7. QED
          BY <3>5, <3>6
  <2>3. QED
        BY <2>1, <2>2 DEF YearInv, findDraftVouchersOfYear, activeClosingRunVouchers
<1>11. QED
      BY <1>6, <1>7, <1>8, <1>9, <1>10 DEF IInv

-----------------------------------------------------------------------------
(* The invariant, and what follows from it. *)

LEMMA WritesAreOneOfThree ==
    ASSUME IInv, NEW s \in Sessions, Write(s)
    PROVE  Ordinary(s) \/ Closes(s) \/ Reopens(s)
BY EntryWrites, OwnWrites, ReversalWrites, CorrectionWrites, CloseCloses, ReopenReopens DEF Write

LEMMA NextKeepsIInv == IInv /\ [Next]_vars => IInv'
<1>1. SUFFICES ASSUME IInv, [Next]_vars PROVE IInv'
      OBVIOUS
<1>2. ASSUME NEW s \in Sessions, Write(s) PROVE IInv'
      BY <1>1, <1>2, WritesAreOneOfThree, OrdinaryKeepsIInv, CloseKeepsIInv, ReopenKeepsIInv
<1>3. CASE Next
      BY <1>1, <1>2, <1>3, BeginKeepsIInv, LockKeepsIInv, CheckKeepsIInv, RollBackKeepsIInv DEF Next
<1>4. CASE UNCHANGED vars
  <2>1. voucher' = voucher /\ closed' = closed /\ scene' = scene /\ late' = late /\ tx' = tx
        BY <1>4 DEF vars, data
  <2>2. TypeOK' /\ LocksInv'
        BY <1>1, <2>1 DEF IInv, TypeOK, LocksInv, ApartInv, Holds, WritesIn
  <2>3. FactsInv'
    <3>1. SUFFICES ASSUME NEW s \in Sessions PROVE Facts(s)'
          BY DEF FactsInv
    <3>2. Seen(s)' = Seen(s)
          BY <2>1, SameData DEF Seen
    <3>3. Facts(s)
          BY <1>1 DEF IInv, FactsInv
    <3>4. QED
          BY <2>1, <3>2, <3>3, SameData DEF Facts
  <2>4. EntryInv' /\ ReversalInv' /\ YearInv'
        BY <1>1, <2>1, SameData DEF IInv, EntryInv, ReversalInv, YearInv
  <2>5. QED
        BY <2>2, <2>3, <2>4 DEF IInv
<1>5. QED
      BY <1>1, <1>3, <1>4

LEMMA IInvHolds == Spec => []IInv
BY InitHolds, NextKeepsIInv, PTL DEF Spec

(* The journal, its years and the sessions keep their types: in particular *)
(* every voucher of a closing run is reversed by a voucher of the journal. *)
THEOREM TypeCorrect == Spec => []TypeOK
<1>1. IInv => TypeOK
      BY DEF IInv
<1>2. QED
      BY IInvHolds, <1>1, PTL

LEMMA NothingIsTakenBackTwice ==
    ASSUME IInv, NEW v \in Ids, NEW r \in findActiveReversal(v)
    PROVE  /\ r \in Ids /\ InBooks(r) /\ IsReversal(r) /\ voucher[r].reverses = v
           /\ InBooks(v) /\ ~ IsReversal(v)
           /\ voucher[r].run = voucher[v].run
           /\ voucher[r].rows = Negative(voucher[v].rows)
           /\ findActiveReversal(v) = {r}
<1>1. r \in Ids /\ Live(r) /\ voucher[r].reverses = v /\ v # 0
      BY ConstantFacts DEF findActiveReversal
<1>2. IsReversal(r)
      BY <1>1 DEF IsReversal
<1>3. InBooks(r)
      BY <1>1, <1>2 DEF IInv, EntryInv, Sound, Live, InBooks, IsReversal, Statuses
<1>4. InBooks(v) /\ ~ IsReversal(v) /\ voucher[r].run = voucher[v].run /\ voucher[r].rows = Negative(voucher[v].rows)
      BY <1>1, <1>2 DEF IInv, ReversalInv
<1>5. \A q \in findActiveReversal(v) : q = r
      BY <1>1, <1>2 DEF IInv, ReversalInv, findActiveReversal
<1>6. QED
      BY <1>1, <1>2, <1>3, <1>4, <1>5

(* A voucher is taken back once, by its opposite, however its reversals,   *)
(* corrections and the void of its source interleave; and no manual        *)
(* voucher is in the books by the hand of who recorded or last edited it.  *)
THEOREM BooksAlwaysHold == Spec => []BooksHold
<1>1. ASSUME IInv PROVE ReversedOnce
  <2>1. SUFFICES ASSUME NEW v \in Ids, findActiveReversal(v) # {}
                 PROVE  /\ InBooks(v)
                        /\ Cardinality(findActiveReversal(v)) = 1
                        /\ \A r \in findActiveReversal(v) : InBooks(r) /\ voucher[r].rows = Negative(voucher[v].rows)
        BY DEF ReversedOnce
  <2>2. PICK r \in findActiveReversal(v) : TRUE
        BY <2>1
  <2>3. findActiveReversal(v) = {r}
        BY <1>1, <2>2, NothingIsTakenBackTwice
  <2>4. Cardinality({r}) = 1
        BY FS_Singleton
  <2>5. QED
        BY <1>1, <2>1, <2>2, <2>3, <2>4, NothingIsTakenBackTwice
<1>2. ASSUME IInv PROVE TwoPeople
      BY <1>2 DEF TwoPeople, IInv, EntryInv, Sound, ReviewedByAnother, InBooks, Live, Manual, IsReversal, Statuses
<1>3. IInv => BooksHold
      BY <1>1, <1>2 DEF BooksHold
<1>4. QED
      BY IInvHolds, <1>3, PTL

-----------------------------------------------------------------------------
(* Closed years *)

LEMMA OnlyWritesWrite ==
    ASSUME NEW s \in Sessions, Begin(s) \/ Lock(s) \/ Check(s) \/ RollBack(s)
    PROVE  voucher' = voucher /\ closed' = closed
<1>1. CASE Begin(s)
  <2>1. \A t : Begins(s, t) => voucher' = voucher /\ closed' = closed
        BY DEF Begins, data
  <2>2. \A u, y, rows, status : BeginCreate(s, u, y, rows, status) \/ BeginIssue(s, y, rows, status) =>
            voucher' = voucher /\ closed' = closed
        BY <2>1 DEF BeginCreate, BeginIssue
  <2>3. \A u, v, y, rows : BeginEdit(s, u, v, y, rows) \/ BeginCorrect(s, u, v, y, rows) => voucher' = voucher /\ closed' = closed
        BY <2>1 DEF BeginEdit, BeginCorrect
  <2>4. \A u, v, want : BeginDelete(s, v) \/ BeginStatus(s, u, v, want) => voucher' = voucher /\ closed' = closed
        BY <2>1 DEF BeginDelete, BeginStatus
  <2>5. \A u, v, y : BeginReverse(s, u, v, y) \/ BeginVoidSource(s, v, y) => voucher' = voucher /\ closed' = closed
        BY <2>1 DEF BeginReverse, BeginVoidSource
  <2>6. \A y, opening : BeginClose(s, y, opening) \/ BeginReopen(s, y) => voucher' = voucher /\ closed' = closed
        BY <2>1 DEF BeginClose, BeginReopen
  <2>7. QED
        BY <1>1, <2>2, <2>3, <2>4, <2>5, <2>6 DEF Begin
<1>2. CASE Lock(s) \/ RollBack(s)
      BY <1>2 DEF Lock, RollBack, data
<1>3. CASE Check(s)
      BY <1>3 DEF Check, CheckEdit, CheckDelete, CheckStatus, CheckReverse, CheckCorrect, CheckVoidSource, CheckClose, Preview,
                  CheckReopen, Passes, data
<1>4. QED
      BY <1>1, <1>2, <1>3

LEMMA FrozenVoucher ==
    ASSUME IInv, [Next]_vars, NEW y \in closed \cap closed', NEW v \in Ids, voucher'[v] # voucher[v]
    PROVE  /\ Live(v) => voucher[v].year # y
           /\ Live(v)' => voucher'[v].year # y
<1>1. PICK s \in Sessions : Write(s)
      BY OnlyWritesWrite DEF Next, vars, data
<1>2. CASE Ordinary(s)
  <2>1. \A u \in Ids : voucher[u].status = "draft" => voucher[u].year # y
        BY DEF IInv, TypeOK, YearInv, findDraftVouchersOfYear
  <2>2. WritesIn(s) # y
        BY <1>2 DEF Ordinary
  <2>3. QED
        BY <1>2, <2>1, <2>2, OrdinaryYears
<1>3. CASE Closes(s)
      BY <1>3 DEF Closes, ClosesWith, Live, Statuses
<1>4. CASE Reopens(s)
  <2>1. PICK o \in activeClosingRunVouchers(tx[s].year) : Undoes(v, o)
        BY <1>4 DEF Reopens
  <2>2. Sound(voucher[o]) /\ voucher[o].run = tx[s].year /\ voucher[o].run # 0
        BY <1>4, <2>1, ConstantFacts DEF activeClosingRunVouchers, IInv, EntryInv, Reopens
  <2>3. voucher[o].year \in {tx[s].year, tx[s].year + 1}
        BY <2>2 DEF Sound
  <2>4. y # tx[s].year /\ y <= tx[s].year /\ y \in Nat /\ tx[s].year \in Nat
        BY <1>4, ConstantFacts DEF Reopens, IInv, TypeOK
  <2>5. QED
        BY <2>1, <2>3, <2>4 DEF Undoes, Live, Statuses
<1>5. QED
      BY <1>1, <1>2, <1>3, <1>4, WritesAreOneOfThree

(* While a year is closed its vouchers stay as they are, whoever began     *)
(* before the closing and whoever comes after.                             *)
THEOREM FrozenWhileClosed == Spec => ClosedYearIsFrozen
<1>1. ASSUME IInv, [Next]_vars PROVE \A y \in closed \cap closed' : DatedIn(y)' = DatedIn(y)
  <2>1. SUFFICES ASSUME NEW y \in closed \cap closed' PROVE DatedIn(y)' = DatedIn(y)
        OBVIOUS
  <2>2. PICK vs : vs = {u \in Ids : Live(u) /\ voucher[u].year = y}
        OBVIOUS
  <2>3. \A v \in Ids : voucher'[v] = voucher[v] \/ (~ (Live(v) /\ voucher[v].year = y) /\ ~ (Live(v)' /\ voucher'[v].year = y))
        BY <1>1, FrozenVoucher
  <2>4. {u \in Ids : Live(u)' /\ voucher'[u].year = y} = vs
        BY <2>2, <2>3 DEF Live
  <2>5. \A v \in vs : voucher'[v] = voucher[v]
        BY <2>2, <2>3
  <2>6. DatedIn(y) = {<<v, voucher[v]>> : v \in vs} /\ DatedIn(y)' = {<<v, voucher'[v]>> : v \in vs}
        BY <2>2, <2>4 DEF DatedIn
  <2>7. QED
        BY <2>5, <2>6
<1>2. IInv /\ [Next]_vars => [\A y \in closed \cap closed' : DatedIn(y)' = DatedIn(y)]_vars
      BY <1>1
<1>3. QED
      BY IInvHolds, <1>2, PTL DEF Spec, ClosedYearIsFrozen

(* Years apart post apart. *)
LEMMA BooksOfTwo ==
    ASSUME NEW J \in [Ids -> Vouchers], NEW Y, NEW Z, Y \cap Z = {}
    PROVE  \A a \in Accounts : BooksIn(J, Y \cup Z)[a] = BooksIn(J, Y)[a] + BooksIn(J, Z)[a]
<1>1. SUFFICES ASSUME NEW a \in Accounts PROVE BooksIn(J, Y \cup Z)[a] = BooksIn(J, Y)[a] + BooksIn(J, Z)[a]
      OBVIOUS
<1>2. PICK F : F = [v \in Ids |-> J[v].rows[a]]
      OBVIOUS
<1>3. PICK A, B : /\ A = {v \in Ids : J[v].status \in {"approved", "permanent"} /\ J[v].year \in Y}
                  /\ B = {v \in Ids : J[v].status \in {"approved", "permanent"} /\ J[v].year \in Z}
      OBVIOUS
<1>4. A \cup B = {v \in Ids : J[v].status \in {"approved", "permanent"} /\ J[v].year \in Y \cup Z} /\ A \cap B = {}
      BY <1>3
<1>5. IsFiniteSet(A) /\ IsFiniteSet(B) /\ \A x \in A \cup B : F[x] \in Int
  <2>1. A \in SUBSET Ids /\ B \in SUBSET Ids
        BY <1>3
  <2>2. \A x \in Ids : F[x] \in Int
        BY <1>2 DEF Vouchers
  <2>3. QED
        BY <2>1, <2>2, ConstantFacts, FS_Subset
<1>6. SumFunctionOnSet(F, A \cup B) = SumFunctionOnSet(F, A) + SumFunctionOnSet(F, B)
      BY <1>4, <1>5, SumOfTwo
<1>7. /\ BooksIn(J, Y \cup Z)[a] = SumFunctionOnSet(F, A \cup B)
      /\ BooksIn(J, Y)[a] = SumFunctionOnSet(F, A)
      /\ BooksIn(J, Z)[a] = SumFunctionOnSet(F, B)
      BY <1>2, <1>3, <1>4 DEF BooksIn
<1>8. QED
      BY <1>6, <1>7

LEMMA BooksType ==
    ASSUME NEW J \in [Ids -> Vouchers], NEW Y
    PROVE  BooksIn(J, Y) \in [Accounts -> Int]
<1>1. ASSUME NEW a \in Accounts PROVE BooksIn(J, Y)[a] \in Int
  <2>1. PICK F : F = [v \in Ids |-> J[v].rows[a]]
        OBVIOUS
  <2>2. PICK A : A = {v \in Ids : J[v].status \in {"approved", "permanent"} /\ J[v].year \in Y}
        OBVIOUS
  <2>3. IsFiniteSet(A) /\ \A x \in A : F[x] \in Int
        BY <1>1, <2>1, <2>2, ConstantFacts, FS_Subset DEF Vouchers
  <2>4. SumFunctionOnSet(F, A) \in Int
        BY <2>3, SumType
  <2>5. BooksIn(J, Y)[a] = SumFunctionOnSet(F, A)
        BY <1>1, <2>1, <2>2 DEF BooksIn
  <2>6. QED
        BY <2>4, <2>5
<1>2. BooksIn(J, Y) = [a \in Accounts |-> BooksIn(J, Y)[a]]
      BY DEF BooksIn
<1>3. QED
      BY <1>1, <1>2

LEMMA BooksOfEmptyAndMore ==
    ASSUME NEW J \in [Ids -> Vouchers], NEW Y, NEW Z, Y \cap Z = {}, BooksIn(J, Y) = NoRows
    PROVE  BooksIn(J, Y \cup Z) = BooksIn(J, Z)
<1>1. \A a \in Accounts : BooksIn(J, Y \cup Z)[a] = 0 + BooksIn(J, Z)[a] /\ BooksIn(J, Z)[a] \in Int
      BY BooksOfTwo, BooksType DEF NoRows
<1>2. \A a \in Accounts : BooksIn(J, Y \cup Z)[a] = BooksIn(J, Z)[a]
      BY <1>1
<1>3. PICK f, g : f = BooksIn(J, Y \cup Z) /\ g = BooksIn(J, Z)
      OBVIOUS
<1>4. f \in [Accounts -> Int] /\ g \in [Accounts -> Int] /\ \A a \in Accounts : f[a] = g[a]
      BY <1>2, <1>3, BooksType
<1>5. f = g
      BY <1>4
<1>6. QED
      BY <1>3, <1>5

LEMMA BooksAfter ==
    ASSUME NEW J \in [Ids -> Vouchers], NEW K \in [Ids -> Vouchers], NEW Y, NEW v \in Ids,
           J[v].status = "none", K[v].status = "approved", K[v].year \in Y,
           \A u \in Ids : u # v => \/ K[u] = J[u]
                                   \/ /\ ~ (J[u].status \in {"approved", "permanent"} /\ J[u].year \in Y)
                                      /\ ~ (K[u].status \in {"approved", "permanent"} /\ K[u].year \in Y)
    PROVE  \A a \in Accounts : BooksIn(K, Y)[a] = K[v].rows[a] + BooksIn(J, Y)[a]
<1>1. PICK vs : vs = {u \in Ids : J[u].status \in {"approved", "permanent"} /\ J[u].year \in Y}
      OBVIOUS
<1>2. {u \in Ids : K[u].status \in {"approved", "permanent"} /\ K[u].year \in Y} = vs \cup {v}
      BY <1>1
<1>3. v \notin vs /\ vs \in SUBSET Ids /\ IsFiniteSet(vs) /\ \A u \in vs : K[u] = J[u]
      BY <1>1, ConstantFacts, FS_Subset
<1>4. SUFFICES ASSUME NEW a \in Accounts PROVE BooksIn(K, Y)[a] = K[v].rows[a] + BooksIn(J, Y)[a]
      OBVIOUS
<1>5. PICK F, G : F = [u \in Ids |-> K[u].rows[a]] /\ G = [u \in Ids |-> J[u].rows[a]]
      OBVIOUS
<1>6. \A u \in vs \cup {v} : F[u] \in Int
      BY <1>3, <1>5 DEF Vouchers
<1>7. SumFunctionOnSet(F, vs \cup {v}) = F[v] + SumFunctionOnSet(F, vs)
      BY <1>3, <1>6, SumOfMore
<1>8. \A u \in vs : F[u] = G[u]
      BY <1>3, <1>5
<1>9. SumFunctionOnSet(F, vs) = SumFunctionOnSet(G, vs)
      BY <1>3, <1>8, SumSame
<1>10. BooksIn(J, Y)[a] = SumFunctionOnSet(G, vs)
      BY <1>1, <1>5 DEF BooksIn
<1>11. BooksIn(K, Y)[a] = SumFunctionOnSet(F, vs \cup {v})
      BY <1>2, <1>5 DEF BooksIn
<1>12. F[v] = K[v].rows[a]
      BY <1>5
<1>13. QED
      BY <1>7, <1>9, <1>10, <1>11, <1>12

(* A closing posts the opposite of the balances it read under the year's   *)
(* lock: the year that posted them posts nothing.                          *)
LEMMA CloseEmptiesTheBooks ==
    ASSUME IInv, IInv', NEW s \in Sessions, Close(s), NEW y, y = tx[s].year, tx[s].balance = BooksIn(voucher, {y})
    PROVE  BooksIn(voucher', {y}) = NoRows
<1>1. PICK balance : balance = tx[s].balance
      OBVIOUS
<1>2. y \in Years /\ y \in Nat /\ y < Today /\ balance \in [Accounts -> Int]
      BY <1>1, CloseFacts, ConstantFacts
<1>3. PICK before, after : before = BooksIn(voucher, {y}) /\ after = BooksIn(voucher', {y})
      OBVIOUS
<1>12. balance = before
      BY <1>1, <1>3
<1>13. voucher \in [Ids -> Vouchers] /\ voucher' \in [Ids -> Vouchers]
      BY DEF IInv, TypeOK
<1>4. after \in [Accounts -> Int]
      BY <1>3, <1>13, BooksType
<1>5. PICK c, o : c = ClosingVoucher(y, balance) /\ o = OpeningVoucher(y, balance)
      OBVIOUS
<1>6. /\ c.status = "approved" /\ c.year = y /\ c.rows = Negative(balance)
      /\ o.status = "approved" /\ o.year = y + 1
      BY <1>2, <1>5, ClosingVoucherFields
<1>7. ASSUME NEW v \in Ids, voucher[v].status = "none", voucher'[v] = c,
             \A u \in Ids : u # v => \/ voucher'[u] = voucher[u]
                                     \/ voucher[u].status = "none" /\ voucher'[u].year # y
      PROVE  BooksIn(voucher', {y}) = NoRows
  <2>1. \A a \in Accounts : after[a] = voucher'[v].rows[a] + before[a]
    <3>1. PICK J, K, Y : J = voucher /\ K = voucher' /\ Y = {y}
          OBVIOUS
    <3>2. J \in [Ids -> Vouchers] /\ K \in [Ids -> Vouchers]
          BY <1>13, <3>1
    <3>3. J[v].status = "none" /\ K[v].status = "approved" /\ K[v].year \in Y
          BY <1>6, <1>7, <3>1
    <3>4. \A u \in Ids : u # v => \/ K[u] = J[u]
                                  \/ /\ ~ (J[u].status \in {"approved", "permanent"} /\ J[u].year \in Y)
                                     /\ ~ (K[u].status \in {"approved", "permanent"} /\ K[u].year \in Y)
          BY <1>7, <3>1
    <3>5. \A a \in Accounts : BooksIn(K, Y)[a] = K[v].rows[a] + BooksIn(J, Y)[a]
          BY <3>2, <3>3, <3>4, BooksAfter
    <3>6. BooksIn(J, Y) = before /\ BooksIn(K, Y) = after
          BY <1>3, <3>1
    <3>7. QED
          BY <3>1, <3>5, <3>6
  <2>2. \A a \in Accounts : after[a] = 0
    <3>1. \A n \in Int : (0 - n) + n = 0
          OBVIOUS
    <3>2. \A a \in Accounts : voucher'[v].rows[a] = 0 - balance[a]
          BY <1>6, <1>7 DEF Negative
    <3>3. \A a \in Accounts : balance[a] \in Int
          BY <1>2
    <3>4. QED
          BY <1>12, <2>1, <3>1, <3>2, <3>3
  <2>3. after = NoRows
        BY <1>4, <2>2 DEF NoRows
  <2>4. QED
        BY <1>3, <2>3
<1>8. CASE balance = NoRows /\ UNCHANGED voucher
      BY <1>3, <1>8, <1>12
<1>9. CASE \E v \in NewId(1) : voucher' = [voucher EXCEPT ![v] = c]
  <2>1. PICK v \in NewId(1) : voucher' = [voucher EXCEPT ![v] = c]
        BY <1>9
  <2>2. v \in Ids /\ voucher[v].status = "none"
        BY NewIds
  <2>3. voucher'[v] = c /\ \A u \in Ids : u # v => voucher'[u] = voucher[u]
        BY <1>13, <2>1, <2>2
  <2>4. QED
        BY <1>7, <2>2, <2>3
<1>10. CASE \E v \in NewId(1), w \in NewId(2) : voucher' = [voucher EXCEPT ![v] = c, ![w] = o]
  <2>1. PICK v \in NewId(1), w \in NewId(2) : voucher' = [voucher EXCEPT ![v] = c, ![w] = o]
        BY <1>10
  <2>2. v \in Ids /\ voucher[v].status = "none" /\ w \in Ids /\ voucher[w].status = "none" /\ v # w
        BY NewIds, NewIdsDiffer
  <2>3. voucher'[v] = c /\ voucher'[w] = o /\ \A u \in Ids : u # v /\ u # w => voucher'[u] = voucher[u]
        BY <1>13, <2>1, <2>2
  <2>4. voucher'[w].year # y
        BY <1>2, <1>6, <2>3
  <2>5. QED
        BY <1>7, <2>2, <2>3, <2>4
<1>11. QED
      BY <1>1, <1>5, <1>8, <1>9, <1>10 DEF Close

(* Years that stay closed keep their books. *)
LEMMA ClosedBooksSame ==
    ASSUME IInv, [Next]_vars, NEW Z, Z \subseteq closed \cap closed'
    PROVE  BooksIn(voucher', Z) = BooksIn(voucher, Z)
<1>1. \A v \in Ids : \/ voucher'[v] = voucher[v]
                     \/ ~ (Live(v) /\ voucher[v].year \in Z) /\ ~ (Live(v)' /\ voucher'[v].year \in Z)
      BY FrozenVoucher
<1>2. \A v \in Ids : \/ voucher'[v] = voucher[v]
                     \/ /\ ~ (voucher[v].status \in {"approved", "permanent"} /\ voucher[v].year \in Z)
                        /\ ~ (voucher'[v].status \in {"approved", "permanent"} /\ voucher'[v].year \in Z)
      BY <1>1 DEF Live, Statuses
<1>3. QED
      BY <1>2, BooksSame

(* Only the preview of a closing says whether its year is late, and that   *)
(* year is open.                                                           *)
LEMMA LateStays ==
    ASSUME IInv, [Next]_vars
    PROVE  \A y \in closed : y \in late' <=> y \in late
<1>1. ASSUME NEW s \in Sessions, Preview(s) PROVE \A y \in closed : y \in late' <=> y \in late
  <2>1. tx[s].year \notin closed
        BY <1>1 DEF Preview, Ready, IInv, FactsInv, Facts
  <2>2. late' = late \cup {tx[s].year} \/ late' = late \ {tx[s].year}
        BY <1>1 DEF Preview
  <2>3. QED
        BY <2>1, <2>2
<1>2. ASSUME NEW s \in Sessions, Begin(s) \/ Lock(s) \/ RollBack(s) \/ Write(s) \/ (Check(s) /\ ~ Preview(s))
      PROVE  late' = late
  <2>1. CASE Begin(s)
    <3>1. \A t : Begins(s, t) => late' = late
          BY DEF Begins
    <3>2. \A u, y, rows, status : BeginCreate(s, u, y, rows, status) \/ BeginIssue(s, y, rows, status) => late' = late
          BY <3>1 DEF BeginCreate, BeginIssue
    <3>3. \A u, v, y, rows : BeginEdit(s, u, v, y, rows) \/ BeginCorrect(s, u, v, y, rows) => late' = late
          BY <3>1 DEF BeginEdit, BeginCorrect
    <3>4. \A u, v, want : BeginDelete(s, v) \/ BeginStatus(s, u, v, want) => late' = late
          BY <3>1 DEF BeginDelete, BeginStatus
    <3>5. \A u, v, y : BeginReverse(s, u, v, y) \/ BeginVoidSource(s, v, y) => late' = late
          BY <3>1 DEF BeginReverse, BeginVoidSource
    <3>6. \A y, opening : BeginClose(s, y, opening) \/ BeginReopen(s, y) => late' = late
          BY <3>1 DEF BeginClose, BeginReopen
    <3>7. QED
          BY <2>1, <3>2, <3>3, <3>4, <3>5, <3>6 DEF Begin
  <2>2. CASE Lock(s) \/ RollBack(s)
        BY <2>2 DEF Lock, RollBack
  <2>3. CASE Write(s)
    <3>1. Ordinary(s) \/ Closes(s) \/ Reopens(s)
          BY <2>3, WritesAreOneOfThree
    <3>2. QED
          BY <3>1 DEF Ordinary, Closes, Reopens
  <2>4. CASE Check(s) /\ ~ Preview(s)
        BY <2>4 DEF Check, CheckEdit, CheckDelete, CheckStatus, CheckReverse, CheckCorrect, CheckVoidSource, CheckClose,
                    CheckReopen, Passes
  <2>5. QED
        BY <1>2, <2>1, <2>2, <2>3, <2>4
<1>3. CASE Next
  <2>1. PICK s \in Sessions : Begin(s) \/ Lock(s) \/ Check(s) \/ Write(s) \/ RollBack(s)
        BY <1>3 DEF Next
  <2>2. QED
        BY <1>1, <1>2, <2>1
<1>4. CASE UNCHANGED vars
      BY <1>4 DEF vars
<1>5. QED
      BY <1>3, <1>4

(* The years change by a closing or a reopening. *)
LEMMA YearsChange ==
    ASSUME IInv, [Next]_vars, closed' # closed
    PROVE  \E s \in Sessions : (Close(s) /\ Closes(s)) \/ Reopens(s)
<1>1. PICK s \in Sessions : Write(s)
      BY OnlyWritesWrite DEF Next, vars, data
<1>2. CASE Close(s)
      BY <1>2, CloseCloses
<1>3. CASE Reopen(s)
      BY <1>3, ReopenReopens
<1>4. CASE ~ Close(s) /\ ~ Reopen(s)
  <2>1. Ordinary(s)
        BY <1>1, <1>4, EntryWrites, OwnWrites, ReversalWrites, CorrectionWrites DEF Write
  <2>2. QED
        BY <2>1 DEF Ordinary
<1>5. QED
      BY <1>2, <1>3, <1>4

LEMMA ClosingKeepsEmpty ==
    ASSUME IInv, [Next]_vars, IInv', ClosedYearsAreEmpty, NEW s \in Sessions, Close(s), Closes(s),
           NEW y \in 0..Today, late' \cap closed' \cap 1..y = {}
    PROVE  BooksIn(voucher', closed' \cap 1..y) = NoRows
<1>1. PICK e : e = tx[s].year
      OBVIOUS
<1>2. PICK Y, Z, D : Y = closed \cap 1..y /\ Z = closed' \cap 1..y /\ D = closed \cap 1..e - 1
      OBVIOUS
<1>3. /\ closed' = closed \cup {e} /\ e \notin closed /\ e \in Nat /\ e # 0 /\ e <= Today /\ Seen(s)
      /\ closed \subseteq Nat /\ y \in Nat /\ y <= Today /\ Today \in Nat /\ late' = late
      BY <1>1, ConstantFacts DEF Closes, IInv, TypeOK
<1>4. BooksIn(voucher, Y) = NoRows
  <2>1. late \cap closed \cap 1..y = {}
        BY <1>3
  <2>2. QED
        BY <1>2, <2>1 DEF ClosedYearsAreEmpty
<1>5. BooksIn(voucher', Y) = NoRows
      BY <1>2, <1>3, <1>4, ClosedBooksSame
<1>6. voucher \in [Ids -> Vouchers] /\ voucher' \in [Ids -> Vouchers]
      BY DEF IInv, TypeOK
<1>7. CASE ~ (e <= y)
  <2>1. Z = Y
        BY <1>2, <1>3, <1>7
  <2>2. QED
        BY <1>2, <1>5, <2>1
<1>8. CASE e <= y
  <2>1. e \in 1..y /\ e \in closed'
        BY <1>3, <1>8
  <2>2. e \notin late
        BY <1>3, <2>1
  <2>3. e - 1 \in 0..Today /\ 1..e - 1 \subseteq 1..y
        BY <1>3, <1>8
  <2>4. late \cap closed \cap 1..e - 1 = {}
        BY <1>3, <2>3
  <2>5. BooksIn(voucher, D) = NoRows
        BY <1>2, <2>3, <2>4 DEF ClosedYearsAreEmpty
  <2>6. (closed \cap 1..e) \cup {e} = D \cup {e} /\ D \cap {e} = {}
        BY <1>2, <1>3
  <2>7. tx[s].balance = BooksIn(voucher, D \cup {e})
        BY <1>1, <1>3, <2>2, <2>6 DEF Seen
  <2>8. BooksIn(voucher, D \cup {e}) = BooksIn(voucher, {e})
        BY <1>6, <2>5, <2>6, BooksOfEmptyAndMore
  <2>9. BooksIn(voucher', {e}) = NoRows
        BY <1>1, <2>7, <2>8, CloseEmptiesTheBooks
  <2>10. Z = Y \cup {e} /\ Y \cap {e} = {}
        BY <1>2, <1>3, <2>1
  <2>11. BooksIn(voucher', Y \cup {e}) = BooksIn(voucher', {e})
        BY <1>5, <1>6, <2>10, BooksOfEmptyAndMore
  <2>12. QED
        BY <1>2, <2>9, <2>10, <2>11
<1>9. QED
      BY <1>7, <1>8

LEMMA ReopeningKeepsEmpty ==
    ASSUME IInv, [Next]_vars, ClosedYearsAreEmpty, NEW s \in Sessions, Reopens(s),
           NEW y \in 0..Today, late' \cap closed' \cap 1..y = {}
    PROVE  BooksIn(voucher', closed' \cap 1..y) = NoRows
<1>1. PICK e : e = tx[s].year
      OBVIOUS
<1>2. /\ closed' = closed \ {e} /\ e \in Nat /\ e # 0 /\ e <= Today /\ (\A x \in closed : x <= e)
      /\ closed \subseteq Nat /\ y \in Nat /\ y <= Today /\ Today \in Nat /\ late' = late
      BY <1>1, ConstantFacts DEF Reopens, IInv, TypeOK
<1>3. PICK m : m = IF y < e THEN y ELSE e - 1
      OBVIOUS
<1>4. m \in 0..Today /\ closed' \cap 1..y = closed \cap 1..m
      BY <1>2, <1>3
<1>5. PICK Z : Z = closed \cap 1..m
      OBVIOUS
<1>6. late \cap closed \cap 1..m = {}
      BY <1>2, <1>4
<1>7. BooksIn(voucher, Z) = NoRows
      BY <1>4, <1>5, <1>6 DEF ClosedYearsAreEmpty
<1>8. Z \subseteq closed \cap closed'
      BY <1>4, <1>5
<1>9. QED
      BY <1>4, <1>5, <1>7, <1>8, ClosedBooksSame

LEMMA ClosedYearsStayEmpty ==
    ASSUME IInv, [Next]_vars, IInv', ClosedYearsAreEmpty
    PROVE  ClosedYearsAreEmpty'
<1>1. SUFFICES ASSUME NEW y \in 0..Today, late' \cap closed' \cap 1..y = {}
               PROVE  BooksIn(voucher', closed' \cap 1..y) = NoRows
      BY DEF ClosedYearsAreEmpty
<1>2. CASE closed' = closed
  <2>1. PICK Z : Z = closed \cap 1..y
        OBVIOUS
  <2>2. late \cap closed \cap 1..y = {}
        BY <1>1, <1>2, LateStays
  <2>3. BooksIn(voucher, Z) = NoRows
        BY <2>1, <2>2 DEF ClosedYearsAreEmpty
  <2>4. Z \subseteq closed \cap closed'
        BY <1>2, <2>1
  <2>5. BooksIn(voucher', Z) = NoRows
        BY <2>3, <2>4, ClosedBooksSame
  <2>6. QED
        BY <1>2, <2>1, <2>5
<1>3. CASE closed' # closed
  <2>1. PICK s \in Sessions : (Close(s) /\ Closes(s)) \/ Reopens(s)
        BY <1>3, YearsChange
  <2>2. QED
        BY <1>1, <2>1, ClosingKeepsEmpty, ReopeningKeepsEmpty
<1>4. QED
      BY <1>2, <1>3

(* The rows of a closing run and of its reversals cancel pair by pair.     *)
LEMMA UndoneRunIsEmpty ==
    ASSUME IInv, NEW y \in Years, y \notin closed
    PROVE  Posted({v \in Ids : InBooks(v) /\ voucher[v].run = y}) = NoRows
<1>1. PICK vs : vs = {v \in Ids : InBooks(v) /\ voucher[v].run = y}
      OBVIOUS
<1>2. IsFiniteSet(vs) /\ vs \in SUBSET Ids
      BY <1>1, ConstantFacts, FS_Subset
<1>3. PICK partner : partner = [v \in vs |-> IF IsReversal(v) THEN voucher[v].reverses ELSE CHOOSE r \in findActiveReversal(v) : TRUE]
      OBVIOUS
<1>4. ASSUME NEW v \in vs, ~ IsReversal(v)
      PROVE  /\ partner[v] \in vs /\ partner[v] # v /\ IsReversal(partner[v]) /\ voucher[partner[v]].reverses = v
             /\ voucher[partner[v]].rows = Negative(voucher[v].rows)
  <2>1. v \in Ids /\ InBooks(v) /\ voucher[v].run = y /\ Live(v)
        BY <1>1 DEF InBooks, Live, Statuses
  <2>2. findActiveReversal(v) # {}
        BY <1>4, <2>1 DEF IInv, YearInv, activeClosingRunVouchers
  <2>3. partner[v] \in findActiveReversal(v)
        BY <1>3, <1>4, <2>2
  <2>4. QED
        BY <1>1, <1>4, <2>1, <2>3, NothingIsTakenBackTwice
<1>5. ASSUME NEW r \in vs, IsReversal(r)
      PROVE  /\ partner[r] \in vs /\ partner[r] # r /\ ~ IsReversal(partner[r]) /\ voucher[r].reverses = partner[r]
             /\ voucher[r].rows = Negative(voucher[partner[r]].rows)
  <2>1. PICK v : v = voucher[r].reverses
        OBVIOUS
  <2>2. r \in Ids /\ Live(r) /\ partner[r] = v /\ v \in Ids
        BY <1>1, <1>3, <1>5, <2>1, VoucherType DEF InBooks, Live, Statuses, IInv, IsReversal
  <2>3. r \in findActiveReversal(v)
        BY <2>1, <2>2 DEF findActiveReversal
  <2>4. QED
        BY <1>1, <1>5, <2>1, <2>2, <2>3, NothingIsTakenBackTwice
<1>6. partner \in [vs -> vs]
      BY <1>3, <1>4, <1>5
<1>7. \A v \in vs : partner[partner[v]] = v /\ partner[v] # v
  <2>1. ASSUME NEW v \in vs, ~ IsReversal(v) PROVE partner[partner[v]] = v
        BY <1>4, <1>5, <2>1
  <2>2. ASSUME NEW r \in vs, IsReversal(r) PROVE partner[partner[r]] = r
    <3>1. PICK v \in vs : v = partner[r] /\ ~ IsReversal(v) /\ voucher[r].reverses = v
          BY <1>5, <2>2
    <3>2. PICK q \in vs : q = partner[v] /\ IsReversal(q) /\ voucher[q].reverses = v
          BY <1>4, <3>1
    <3>3. q = r
          BY <1>1, <2>2, <3>1, <3>2 DEF IInv, ReversalInv, InBooks, Live, Statuses
    <3>4. QED
          BY <3>1, <3>2, <3>3
  <2>3. QED
        BY <1>4, <1>5, <2>1, <2>2
<1>8. ASSUME NEW a \in Accounts
      PROVE  SumFunctionOnSet([v \in Ids |-> voucher[v].rows[a]], vs) = 0
  <2>1. PICK F : F = [v \in Ids |-> voucher[v].rows[a]]
        OBVIOUS
  <2>2. \A v \in vs : F[v] \in Int
        BY <1>2, <2>1 DEF IInv, TypeOK, Vouchers
  <2>3. \A v \in vs : F[partner[v]] = 0 - F[v]
    <3>1. \A v \in vs : F[v] = voucher[v].rows[a]
          BY <1>2, <2>1
    <3>2. ASSUME NEW v \in vs, ~ IsReversal(v) PROVE F[partner[v]] = 0 - F[v]
      <4>1. PICK q : q = partner[v]
            OBVIOUS
      <4>2. q \in vs /\ voucher[q].rows = Negative(voucher[v].rows)
            BY <1>4, <3>2, <4>1
      <4>3. voucher[q].rows[a] = 0 - voucher[v].rows[a]
            BY <4>2 DEF Negative
      <4>4. QED
            BY <3>1, <4>1, <4>2, <4>3
    <3>3. ASSUME NEW r \in vs, IsReversal(r) PROVE F[partner[r]] = 0 - F[r]
      <4>1. PICK v : v = partner[r]
            OBVIOUS
      <4>2. v \in vs /\ voucher[r].rows = Negative(voucher[v].rows)
            BY <1>5, <3>3, <4>1
      <4>3. voucher[r].rows[a] = 0 - voucher[v].rows[a]
            BY <4>2 DEF Negative
      <4>4. F[r] = 0 - F[v] /\ F[r] \in Int /\ F[v] \in Int
            BY <2>2, <3>1, <3>3, <4>2, <4>3
      <4>5. F[v] = 0 - F[r]
            BY <4>4
      <4>6. QED
            BY <4>1, <4>5
    <3>4. QED
          BY <3>2, <3>3
  <2>4. SumFunctionOnSet(F, vs) = 0
        BY <1>2, <1>6, <1>7, <2>2, <2>3, SumOfPairs
  <2>5. QED
        BY <2>1, <2>4
<1>9. QED
      BY <1>1, <1>8 DEF Posted, NoRows

(* What a year posts of its own, from the years closed up to it.           *)
LEMMA EmptyYear ==
    ASSUME IInv, ClosedYearsAreEmpty, NEW y \in Years, y \in closed, late \cap closed \cap 1..y = {}
    PROVE  PostedIn(y) = NoRows
<1>1. PICK D : D = closed \cap 1..y - 1
      OBVIOUS
<1>2. y \in Nat /\ y # 0 /\ y <= Today /\ Today \in Nat /\ closed \subseteq Nat
      BY ConstantFacts DEF IInv, TypeOK
<1>3. closed \cap 1..y = D \cup {y} /\ D \cap {y} = {} /\ y \in 0..Today /\ y - 1 \in 0..Today /\ 1..y - 1 \subseteq 1..y
      BY <1>1, <1>2
<1>4. late \cap closed \cap 1..y - 1 = {}
      BY <1>3
<1>5. BooksIn(voucher, D) = NoRows /\ BooksIn(voucher, D \cup {y}) = NoRows
      BY <1>1, <1>3, <1>4 DEF ClosedYearsAreEmpty
<1>6. BooksIn(voucher, {y}) = NoRows
      BY <1>3, <1>5, BooksOfEmptyAndMore DEF IInv, TypeOK
<1>7. {v \in Ids : InBooks(v) /\ voucher[v].year = y} =
         {v \in Ids : voucher[v].status \in {"approved", "permanent"} /\ voucher[v].year \in {y}}
      BY DEF InBooks
<1>8. PostedIn(y) = BooksIn(voucher, {y})
      BY <1>7 DEF PostedIn, Posted, BooksIn
<1>9. QED
      BY <1>6, <1>8

(* The years match the books: a closed year holds no draft and posts       *)
(* nothing, unless it or one before it was closed with the balances of an  *)
(* open year; of an open year's closing run nothing is left, in this year  *)
(* and the next.                                                           *)
THEOREM YearsAlwaysMatch == Spec => []YearsMatchBooks
<1>1. ASSUME Init PROVE ClosedYearsAreEmpty
  <2>1. ASSUME NEW y \in 0..Today PROVE BooksIn(voucher, closed \cap 1..y) = NoRows
    <3>1. closed \cap 1..y = {}
          BY <1>1 DEF Init
    <3>2. {v \in Ids : voucher[v].status \in {"approved", "permanent"} /\ voucher[v].year \in closed \cap 1..y} = {}
          BY <3>1
    <3>3. QED
          BY <3>2, SumOfNone DEF BooksIn, NoRows
  <2>2. QED
        BY <2>1 DEF ClosedYearsAreEmpty
<1>2. ASSUME IInv, ClosedYearsAreEmpty PROVE YearsMatchBooks
      BY <1>2, UndoneRunIsEmpty, EmptyYear DEF YearsMatchBooks, IInv, YearInv
<1>3. Init => ClosedYearsAreEmpty
      BY <1>1
<1>4. IInv /\ [Next]_vars /\ IInv' /\ ClosedYearsAreEmpty => ClosedYearsAreEmpty'
      BY ClosedYearsStayEmpty
<1>5. IInv /\ ClosedYearsAreEmpty => YearsMatchBooks
      BY <1>2
<1>6. QED
      BY IInvHolds, <1>3, <1>4, <1>5, PTL DEF Spec
=============================================================================
