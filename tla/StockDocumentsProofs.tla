------------------------ MODULE StockDocumentsProofs ------------------------
(***************************************************************************)
(* The safety properties of StockDocuments for every set of items,         *)
(* warehouses, documents and sessions: types, that a document posts its    *)
(* own lines, once, that the gate holds, that stock is its ledger, that    *)
(* the ledger was never below zero, that returns stay within what was sold *)
(* and that nobody waits in a circle.                                      *)
(*                                                                         *)
(* The argument is about row locks.  A session past its lock holds the     *)
(* document it works on, and the document is still what the session read   *)
(* under that lock (Own); a document being recorded is invisible to the    *)
(* others and has one recorder (OneRecorder).  So the lines that move are  *)
(* the lines of the document, and a final document is never taken again.   *)
(***************************************************************************)
EXTENDS StockDocuments, FiniteSetTheorems, TLAPS

Own(s) ==
    LET me == session[s] IN
    /\ me.pc = "idle" => me.op = "none"
    /\ me.pc # "idle" => me.doc \in Docs /\ me.op # "none"
    /\ me.pc = "insert" => me.op = "create"
    /\ me.pc = "move" => me.op # "void"
    /\ me.op = "create" => doc[me.doc].status = "absent"
    /\ me.pc \in {"check", "move"} /\ me.op # "create" => docLock[me.doc] = s
    /\ me.pc \in {"check", "move"} /\ me.op = "finalize" => Editable(me.doc) /\ me.lines = doc[me.doc].lines
    /\ me.pc = "check" /\ me.op = "void" => Live(me.doc)

OneRecorder ==
    \A s, t \in Sessions :
        session[s].op = "create" /\ session[t].op = "create" /\ session[s].doc = session[t].doc => s = t

SessionInv == OneRecorder /\ \A s \in Sessions : Own(s)

IInv == TypeOK /\ SessionInv /\ FinalIsPosted

-----------------------------------------------------------------------------
(* Sums over finite sets, and the first and the last of one. *)

(* The fold behind a sum picks one element after the other.                 *)
PartialSums(F, sum, S) ==
    sum = [T \in SUBSET S |-> IF T = {} THEN 0
                              ELSE F[CHOOSE x \in T : TRUE] + sum[T \ {CHOOSE x \in T : TRUE}]]

LEMMA SumIsPartial ==
    ASSUME NEW F, NEW S
    PROVE  SumFunctionOnSet(F, S) = (CHOOSE sum : PartialSums(F, sum, S))[S]
BY Zenon DEF SumFunctionOnSet, FoldFunctionOnSet, MapThenFoldSet, PartialSums

(* Induction over a finite set: of the sets that lack something one lacks it *)
(* first.                                                                   *)
LEMMA SmallestSet ==
    ASSUME NEW S, IsFiniteSet(S), NEW Bad \in SUBSET SUBSET S, Bad # {}
    PROVE  \E T \in Bad : \A U \in SUBSET T : U # T => U \notin Bad
<1>1. IsWellFoundedOn(StrictSubsetOrdering(S), FiniteSubsetsOf(S))
      BY FS_StrictSubsetOrderingWellFounded
<1>2. Bad \subseteq FiniteSubsetsOf(S)
      BY FS_Subset DEF FiniteSubsetsOf
<1>3. PICK T \in Bad : \A U \in Bad : ~ (<<U, T>> \in StrictSubsetOrdering(S))
      BY <1>1, <1>2, WFMin
<1>4. QED
      BY <1>3 DEF StrictSubsetOrdering

LEMMA PartialsAgree ==
    ASSUME NEW S, IsFiniteSet(S), NEW F, NEW A \in SUBSET S, NEW B \in SUBSET S,
           NEW f, NEW g, PartialSums(F, f, A), PartialSums(F, g, B)
    PROVE  \A T \in SUBSET (A \cap B) : f[T] = g[T]
<1> DEFINE Bad == {T \in SUBSET (A \cap B) : f[T] # g[T]}
<1>1. SUFFICES ASSUME Bad # {} PROVE FALSE
      OBVIOUS
<1>a. Bad \in SUBSET SUBSET S
      OBVIOUS
<1>2. PICK T \in Bad : \A U \in SUBSET T : U # T => U \notin Bad
  <2> HIDE DEF Bad
  <2>1. QED
        BY <1>1, <1>a, SmallestSet
<1> DEFINE x == CHOOSE x \in T : TRUE
<1>3. T \in SUBSET A /\ T \in SUBSET B
      BY <1>2
<1>4. /\ f[T] = IF T = {} THEN 0 ELSE F[x] + f[T \ {x}]
      /\ g[T] = IF T = {} THEN 0 ELSE F[x] + g[T \ {x}]
      BY <1>3 DEF PartialSums
<1>5. T # {}
      BY <1>2, <1>4
<1>6. x \in T
      BY <1>5
<1>7. T \ {x} \notin Bad
      BY <1>2, <1>6
<1>8. f[T \ {x}] = g[T \ {x}]
      BY <1>2, <1>7
<1>9. QED
      BY <1>2, <1>4, <1>5, <1>8

LEMMA PartialsExist ==
    ASSUME NEW S, IsFiniteSet(S), NEW F
    PROVE  \A A \in SUBSET S : \E sum : PartialSums(F, sum, A)
<1> DEFINE Bad == {A \in SUBSET S : ~ \E sum : PartialSums(F, sum, A)}
           Of(A) == CHOOSE sum : PartialSums(F, sum, A)
           x(T) == CHOOSE y \in T : TRUE
<1>1. SUFFICES ASSUME Bad # {} PROVE FALSE
      OBVIOUS
<1>2. Bad \in SUBSET SUBSET S
      OBVIOUS
<1>3. PICK A \in Bad : \A U \in SUBSET A : U # A => U \notin Bad
  <2> HIDE DEF Bad
  <2>1. QED
        BY <1>1, <1>2, SmallestSet
<1>4. \A U \in SUBSET A : U # A => PartialSums(F, Of(U), U)
      BY <1>3
<1>5. \A T \in SUBSET A : T # {} => x(T) \in T
      OBVIOUS
<1> DEFINE sum == [T \in SUBSET A |-> IF T = {} THEN 0 ELSE F[x(T)] + Of(T \ {x(T)})[T \ {x(T)}]]
<1>6. \A T \in SUBSET A : T # {} => sum[T] = F[x(T)] + Of(T \ {x(T)})[T \ {x(T)}]
  <2> HIDE DEF Of, x
  <2>1. QED
        OBVIOUS
<1>7. sum[{}] = 0
  <2> HIDE DEF Of, x
  <2>1. QED
        OBVIOUS
<1>8. \A U \in SUBSET A : U # A =>
          \A T \in SUBSET U : Of(U)[T] = IF T = {} THEN 0 ELSE F[x(T)] + Of(U)[T \ {x(T)}]
  <2>1. SUFFICES ASSUME NEW U \in SUBSET A, U # A, NEW T \in SUBSET U
                 PROVE  Of(U)[T] = IF T = {} THEN 0 ELSE F[x(T)] + Of(U)[T \ {x(T)}]
        OBVIOUS
  <2>2. PartialSums(F, Of(U), U)
        BY <1>4, <2>1
  <2> HIDE DEF Of
  <2>3. QED
        BY <2>2 DEF PartialSums
<1> HIDE DEF sum, x
<1>9. ASSUME NEW T \in SUBSET A, T # {}
      PROVE  sum[T \ {x(T)}] = Of(T \ {x(T)})[T \ {x(T)}]
  <2> DEFINE U == T \ {x(T)}
  <2>1. U \in SUBSET A /\ U # A
        BY <1>5, <1>9
  <2> HIDE DEF Of, U
  <2>2. CASE U = {}
    <3>1. Of(U)[U] = 0
          BY <1>8, <2>1, <2>2
    <3>2. QED
          BY <1>7, <2>2, <3>1 DEF U
  <2>3. CASE U # {}
    <3> DEFINE V == U \ {x(U)}
    <3>1. x(U) \in U /\ V \in SUBSET A /\ V # A /\ V \in SUBSET U
          BY <1>5, <2>1, <2>3
    <3>2. PartialSums(F, Of(V), V) /\ PartialSums(F, Of(U), U)
          BY <1>4, <2>1, <3>1
    <3>3. Of(U)[U] = F[x(U)] + Of(U)[V]
          BY <1>8, <2>1, <2>3
    <3>4. U \in SUBSET S /\ V \in SUBSET S
          BY <1>2, <2>1, <3>1
    <3> HIDE DEF V
    <3>5. \A W \in SUBSET (U \cap V) : Of(U)[W] = Of(V)[W]
          BY <3>2, <3>4, PartialsAgree
    <3>6. Of(U)[V] = Of(V)[V]
          BY <3>1, <3>5
    <3>7. sum[U] = F[x(U)] + Of(V)[V]
          BY <1>6, <2>1, <2>3 DEF V
    <3>8. QED
          BY <3>3, <3>6, <3>7 DEF U
  <2>4. QED
        BY <2>2, <2>3
<1>10. \A T \in SUBSET A : sum[T] = IF T = {} THEN 0 ELSE F[x(T)] + sum[T \ {x(T)}]
      BY <1>6, <1>7, <1>9
<1>11. sum = [T \in SUBSET A |-> sum[T]]
      BY DEF sum
<1>12. sum = [T \in SUBSET A |-> IF T = {} THEN 0 ELSE F[x(T)] + sum[T \ {x(T)}]]
      BY <1>10, <1>11
<1>13. PartialSums(F, sum, A)
      BY <1>12 DEF PartialSums, x
<1>14. QED
      BY <1>3, <1>13

(* A sum adds what one element has to the sum of the others; which one the  *)
(* fold picked first is settled by SumOfOne below.                          *)
LEMMA SumPicks ==
    ASSUME NEW S, IsFiniteSet(S), NEW F
    PROVE  SumFunctionOnSet(F, S) =
              IF S = {} THEN 0
              ELSE F[CHOOSE x \in S : TRUE] + SumFunctionOnSet(F, S \ {CHOOSE x \in S : TRUE})
<1> DEFINE Of(A) == CHOOSE sum : PartialSums(F, sum, A)
           x == CHOOSE x \in S : TRUE
           U == S \ {x}
<1>1. S \in SUBSET S /\ U \in SUBSET S
      OBVIOUS
<1>2. PartialSums(F, Of(S), S) /\ PartialSums(F, Of(U), U)
      BY <1>1, PartialsExist
<1>3. SumFunctionOnSet(F, S) = Of(S)[S] /\ SumFunctionOnSet(F, U) = Of(U)[U]
      BY SumIsPartial
<1> HIDE DEF Of
<1>4. Of(S)[S] = IF S = {} THEN 0 ELSE F[x] + Of(S)[U]
      BY <1>1, <1>2 DEF PartialSums
<1>5. Of(S)[U] = Of(U)[U]
  <2> HIDE DEF U
  <2>1. \A T \in SUBSET (S \cap U) : Of(S)[T] = Of(U)[T]
        BY <1>1, <1>2, PartialsAgree
  <2>2. QED
        BY <1>1, <2>1
<1>6. QED
      BY <1>3, <1>4, <1>5

LEMMA SumOfNone == \A F : SumFunctionOnSet(F, {}) = 0
<1>1. ASSUME NEW F PROVE SumFunctionOnSet(F, {}) = 0
  <2>1. IsFiniteSet({})
        BY FS_EmptySet
  <2>2. QED
        BY <2>1, SumPicks
<1>2. QED
      BY <1>1

LEMMA SumType ==
    ASSUME NEW S, IsFiniteSet(S), NEW F, \A x \in S : F[x] \in Int
    PROVE  SumFunctionOnSet(F, S) \in Int
<1> DEFINE Bad == {T \in SUBSET S : SumFunctionOnSet(F, T) \notin Int}
<1>1. SUFFICES ASSUME Bad # {} PROVE FALSE
      OBVIOUS
<1>2. Bad \in SUBSET SUBSET S
      OBVIOUS
<1>3. PICK T \in Bad : \A U \in SUBSET T : U # T => U \notin Bad
  <2> HIDE DEF Bad
  <2>1. QED
        BY <1>1, <1>2, SmallestSet
<1>4. PICK x : x = CHOOSE y \in T : TRUE
      OBVIOUS
<1>5. IsFiniteSet(T)
      BY <1>2, FS_Subset
<1>6. SumFunctionOnSet(F, T) = IF T = {} THEN 0 ELSE F[x] + SumFunctionOnSet(F, T \ {x})
      BY <1>4, <1>5, SumPicks
<1>7. T # {}
      BY <1>6
<1>8. x \in T
      BY <1>4, <1>7
<1>9. SumFunctionOnSet(F, T \ {x}) \in Int
      BY <1>3, <1>8
<1>10. QED
      BY <1>6, <1>7, <1>8, <1>9

LEMMA SumOfOne ==
    ASSUME NEW S, IsFiniteSet(S), NEW F, \A x \in S : F[x] \in Int, NEW x \in S
    PROVE  SumFunctionOnSet(F, S) = F[x] + SumFunctionOnSet(F, S \ {x})
<1> DEFINE Bad == {T \in SUBSET S : \E y \in T : SumFunctionOnSet(F, T) # F[y] + SumFunctionOnSet(F, T \ {y})}
<1>1. SUFFICES ASSUME Bad # {} PROVE FALSE
      OBVIOUS
<1>2. Bad \in SUBSET SUBSET S
      OBVIOUS
<1>3. PICK T \in Bad : \A U \in SUBSET T : U # T => U \notin Bad
  <2> HIDE DEF Bad
  <2>1. QED
        BY <1>1, <1>2, SmallestSet
<1>4. PICK y \in T : SumFunctionOnSet(F, T) # F[y] + SumFunctionOnSet(F, T \ {y})
      OBVIOUS
<1>5. PICK z : z = CHOOSE u \in T : TRUE
      OBVIOUS
<1>6. z \in T
      BY <1>4, <1>5
<1>7. IsFiniteSet(T) /\ IsFiniteSet(T \ {y}) /\ IsFiniteSet(T \ {z}) /\ IsFiniteSet((T \ {y}) \ {z})
      BY <1>2, FS_Subset
<1>8. SumFunctionOnSet(F, T) = F[z] + SumFunctionOnSet(F, T \ {z})
      BY <1>5, <1>6, <1>7, SumPicks
<1>9. y # z
      BY <1>4, <1>8
<1>10. T \ {z} \notin Bad /\ T \ {y} \notin Bad
      BY <1>3, <1>4, <1>6
<1>11. SumFunctionOnSet(F, T \ {z}) = F[y] + SumFunctionOnSet(F, (T \ {z}) \ {y})
      BY <1>4, <1>9, <1>10
<1>12. SumFunctionOnSet(F, T \ {y}) = F[z] + SumFunctionOnSet(F, (T \ {y}) \ {z})
      BY <1>4, <1>6, <1>9, <1>10
<1>13. (T \ {z}) \ {y} = (T \ {y}) \ {z}
      OBVIOUS
<1>14. SumFunctionOnSet(F, (T \ {y}) \ {z}) \in Int
      BY <1>7, SumType
<1>15. F[y] \in Int /\ F[z] \in Int
      BY <1>4, <1>6
<1>16. SumFunctionOnSet(F, T) = F[y] + SumFunctionOnSet(F, T \ {y})
  <2>1. \A a, b, c \in Int : c + (a + b) = a + (c + b)
        OBVIOUS
  <2>2. F[z] + (F[y] + SumFunctionOnSet(F, (T \ {y}) \ {z})) = F[y] + (F[z] + SumFunctionOnSet(F, (T \ {y}) \ {z}))
    <3> HIDE DEF Bad
    <3>1. QED
          BY <1>14, <1>15, <2>1, Zenon
  <2>3. QED
        BY <1>8, <1>11, <1>12, <1>13, <2>2, Zenon
<1>17. QED
      BY <1>4, <1>16

LEMMA SumSame ==
    ASSUME NEW S, IsFiniteSet(S), NEW F, NEW G, \A x \in S : F[x] = G[x]
    PROVE  SumFunctionOnSet(F, S) = SumFunctionOnSet(G, S)
<1> DEFINE Bad == {T \in SUBSET S : SumFunctionOnSet(F, T) # SumFunctionOnSet(G, T)}
<1>1. SUFFICES ASSUME Bad # {} PROVE FALSE
      OBVIOUS
<1>2. Bad \in SUBSET SUBSET S
      OBVIOUS
<1>3. PICK T \in Bad : \A U \in SUBSET T : U # T => U \notin Bad
  <2> HIDE DEF Bad
  <2>1. QED
        BY <1>1, <1>2, SmallestSet
<1>4. PICK x : x = CHOOSE y \in T : TRUE
      OBVIOUS
<1>5. IsFiniteSet(T)
      BY <1>2, FS_Subset
<1>6. /\ SumFunctionOnSet(F, T) = IF T = {} THEN 0 ELSE F[x] + SumFunctionOnSet(F, T \ {x})
      /\ SumFunctionOnSet(G, T) = IF T = {} THEN 0 ELSE G[x] + SumFunctionOnSet(G, T \ {x})
      BY <1>4, <1>5, SumPicks
<1>7. T # {}
      BY <1>3, <1>6
<1>8. x \in T
      BY <1>4, <1>7
<1>9. SumFunctionOnSet(F, T \ {x}) = SumFunctionOnSet(G, T \ {x})
      BY <1>3, <1>8
<1>10. QED
      BY <1>3, <1>6, <1>7, <1>8, <1>9

LEMMA SumOfMore ==
    ASSUME NEW S, IsFiniteSet(S), NEW F, NEW x, x \notin S, \A y \in S \cup {x} : F[y] \in Int
    PROVE  SumFunctionOnSet(F, S \cup {x}) = F[x] + SumFunctionOnSet(F, S)
<1> DEFINE T == S \cup {x}
<1>1. IsFiniteSet(T)
      BY FS_AddElement
<1>2. x \in T /\ T \ {x} = S /\ \A y \in T : F[y] \in Int
      OBVIOUS
<1> HIDE DEF T
<1>3. SumFunctionOnSet(F, T) = F[x] + SumFunctionOnSet(F, T \ {x})
      BY <1>1, <1>2, SumOfOne
<1>4. QED
      BY <1>2, <1>3 DEF T

(* Terms that are nothing may be left out.                                  *)
LEMMA SumWithout ==
    ASSUME NEW S, IsFiniteSet(S), NEW F, \A x \in S : F[x] \in Int,
           NEW T \in SUBSET S, \A x \in S \ T : F[x] = 0
    PROVE  SumFunctionOnSet(F, S) = SumFunctionOnSet(F, T)
<1> DEFINE Bad == {U \in SUBSET S : T \subseteq U /\ SumFunctionOnSet(F, U) # SumFunctionOnSet(F, T)}
<1>1. SUFFICES ASSUME Bad # {} PROVE FALSE
      OBVIOUS
<1>2. Bad \in SUBSET SUBSET S
      OBVIOUS
<1>3. PICK U \in Bad : \A R \in SUBSET U : R # U => R \notin Bad
  <2> HIDE DEF Bad
  <2>1. QED
        BY <1>1, <1>2, SmallestSet
<1>4. PICK x \in U \ T : TRUE
      OBVIOUS
<1>5. IsFiniteSet(U) /\ IsFiniteSet(U \ {x}) /\ \A y \in U : F[y] \in Int
      BY <1>2, FS_Subset
<1>6. SumFunctionOnSet(F, U) = F[x] + SumFunctionOnSet(F, U \ {x})
      BY <1>4, <1>5, SumOfOne
<1>7. F[x] = 0 /\ SumFunctionOnSet(F, U \ {x}) \in Int
      BY <1>4, <1>5, SumType
<1>8. U \ {x} \notin Bad /\ T \subseteq U \ {x}
      BY <1>3, <1>4
<1>9. QED
      BY <1>3, <1>6, <1>7, <1>8

(* What is not negative adds up to nothing negative.                        *)
LEMMA SumOfNaturals ==
    ASSUME NEW S, IsFiniteSet(S), NEW F, \A x \in S : F[x] \in Nat
    PROVE  SumFunctionOnSet(F, S) \in Nat
<1> DEFINE Bad == {U \in SUBSET S : SumFunctionOnSet(F, U) \notin Nat}
<1>1. SUFFICES ASSUME Bad # {} PROVE FALSE
      OBVIOUS
<1>2. Bad \in SUBSET SUBSET S
      OBVIOUS
<1>3. PICK U \in Bad : \A R \in SUBSET U : R # U => R \notin Bad
  <2> HIDE DEF Bad
  <2>1. QED
        BY <1>1, <1>2, SmallestSet
<1>10. SumFunctionOnSet(F, {}) \in Nat
      BY SumOfNone
<1>11. U # {}
  <2>1. SumFunctionOnSet(F, U) \notin Nat
        BY <1>3
  <2>2. QED
        BY <1>10, <2>1, Zenon
<1>4. PICK x \in U : TRUE
      BY <1>11
<1>5. IsFiniteSet(U) /\ \A y \in U : F[y] \in Int
      BY <1>2, FS_Subset
<1>6. SumFunctionOnSet(F, U) = F[x] + SumFunctionOnSet(F, U \ {x})
      BY <1>4, <1>5, SumOfOne
<1>7. SumFunctionOnSet(F, U \ {x}) \in Nat
      BY <1>3, <1>4
<1>8. QED
      BY <1>3, <1>4, <1>6, <1>7

(* Of elements with a key one is last.                                      *)
LEMMA LastOfSet ==
    ASSUME NEW S, IsFiniteSet(S), S # {}, NEW key \in [S -> Int]
    PROVE  \E m \in S : \A x \in S : key[x] <= key[m]
<1> DEFINE Bad == {T \in SUBSET S : T # {} /\ ~ \E m \in T : \A x \in T : key[x] <= key[m]}
<1>1. SUFFICES ASSUME Bad # {} PROVE FALSE
      OBVIOUS
<1>2. Bad \in SUBSET SUBSET S
      OBVIOUS
<1>3. PICK T \in Bad : \A U \in SUBSET T : U # T => U \notin Bad
  <2> HIDE DEF Bad
  <2>1. QED
        BY <1>1, <1>2, SmallestSet
<1>4. PICK x \in T : TRUE
      OBVIOUS
<1>5. \A z \in T : key[z] \in Int
      OBVIOUS
<1>6. CASE T \ {x} = {}
  <2>1. \A z \in T : z = x
        BY <1>6
  <2>2. QED
        BY <1>4, <1>5, <2>1
<1>7. CASE T \ {x} # {}
  <2>a. T \ {x} \notin Bad
    <3> HIDE DEF Bad
    <3>1. T \ {x} \in SUBSET T /\ T \ {x} # T
          BY <1>4
    <3>2. QED
          BY <1>3, <3>1
  <2>b. T \ {x} \in SUBSET S
        BY <1>3
  <2>1. PICK m \in T \ {x} : \A z \in T \ {x} : key[z] <= key[m]
        BY <1>7, <2>a, <2>b
  <2>2. CASE key[x] <= key[m]
        BY <1>5, <2>1, <2>2
  <2>3. CASE ~ (key[x] <= key[m])
    <3>1. \A z \in T : key[z] <= key[x]
          BY <1>4, <1>5, <2>1, <2>3
    <3>2. QED
          BY <1>4, <3>1
  <2>4. QED
        BY <2>2, <2>3
<1>8. QED
      BY <1>6, <1>7

(* A finite nonempty set of numbers has a maximum and a minimum.            *)
LEMMA MaxOfFinite ==
    ASSUME NEW S \in SUBSET Int, IsFiniteSet(S), S # {}
    PROVE  Max(S) \in S /\ \A y \in S : y <= Max(S)
<1> DEFINE key == [x \in S |-> x]
<1>1. key \in [S -> Int]
      OBVIOUS
<1>2. \E m \in S : \A x \in S : key[x] <= key[m]
  <2> HIDE DEF key
  <2>1. QED
        BY <1>1, LastOfSet
<1>3. \E m \in S : \A x \in S : m >= x
      BY <1>2
<1>4. Max(S) \in S /\ \A x \in S : Max(S) >= x
      BY <1>3 DEF Max
<1>5. QED
      BY <1>4

LEMMA MinOfFinite ==
    ASSUME NEW S \in SUBSET Int, IsFiniteSet(S), S # {}
    PROVE  Min(S) \in S /\ \A y \in S : Min(S) <= y
<1> DEFINE key == [x \in S |-> 0 - x]
<1>1. key \in [S -> Int]
      OBVIOUS
<1>2. PICK m \in S : \A x \in S : key[x] <= key[m]
  <2> HIDE DEF key
  <2>1. QED
        BY <1>1, LastOfSet
<1>3. \E n \in S : \A x \in S : n <= x
  <2>1. ASSUME NEW x \in S PROVE m <= x
    <3>1. 0 - x <= 0 - m
          BY <1>2
    <3>2. QED
          BY <3>1
  <2>2. QED
        BY <2>1
<1>4. QED
      BY <1>3 DEF Min

-----------------------------------------------------------------------------
(* The greatest id: ids of rows stay natural numbers. *)

(* The next id is a natural number, above every id given.                  *)
LEMMA NextIdType ==
    ASSUME StockAssumption, kardex \in [Docs -> [id : Nat, day : 0..Today, lines : AnyLines]]
    PROVE  NextId \in Nat \ {0} /\ \A d \in Docs : kardex[d].id < NextId
<1> DEFINE ids == {kardex[d].id : d \in Docs}
           S == {0} \cup ids
<1>1. S \in SUBSET Nat /\ S \in SUBSET Int /\ S # {} /\ 0 \in S /\ \A d \in Docs : kardex[d].id \in S
  OBVIOUS
<1>2. IsFiniteSet(ids)
  <2> DEFINE f == [d \in Docs |-> kardex[d].id]
  <2>1. f \in [Docs -> ids]
    OBVIOUS
  <2>2. \A n \in ids : \E d \in Docs : f[d] = n
    OBVIOUS
  <2>3. IsFiniteSet(Docs)
    BY DEF StockAssumption
  <2>4. f \in Surjection(Docs, ids)
    BY <2>1, <2>2 DEF Surjection
  <2> HIDE DEF f, ids
  <2> QED BY <2>3, <2>4, FS_Surjection
<1>3. IsFiniteSet(S)
  BY <1>2, FS_Singleton, FS_Union
<1>4. NextId = 1 + Max(S)
  BY DEF NextId
<1> HIDE DEF S
<1>5. Max(S) \in S /\ \A n \in S : n <= Max(S)
  BY <1>1, <1>3, MaxOfFinite
<1>6. Max(S) \in Nat
  BY <1>1, <1>5
<1>7. \A n \in S : n \in Nat /\ n < 1 + Max(S)
  BY <1>1, <1>5, <1>6
<1> QED BY <1>1, <1>4, <1>6, <1>7

-----------------------------------------------------------------------------
(* Types. *)

(* Quantities that are entered, and those of no line, are quantities. *)
LEMMA LinesType ==
    ASSUME StockAssumption
    PROVE  /\ Nothing \in AnyLines
           /\ AnyLines \subseteq Quantities
           /\ \A d \in Docs : \A e \in Entries[d] : e.lines \in AnyLines /\ e.day \in 0..Today
           /\ Today \in 0..Today
<1>1. Nothing \in Quantities
  BY DEF Nothing, Quantities
<1>2. \A d \in Docs : \A e \in Entries[d] : e.lines \in Quantities /\ e.day \in Days
  BY DEF StockAssumption
<1>3. \A d \in Docs : \A e \in Entries[d] : e.lines \in AnyLines
  BY DEF AnyLines
<1>4. \A x \in AnyLines : x \in Quantities
  BY <1>1, <1>2 DEF AnyLines
<1>5. Today \in Nat \ {0}
  BY DEF StockAssumption
<1> QED BY <1>2, <1>3, <1>4, <1>5 DEF AnyLines, Days

(* Adding to the stock, and taking from stock that is there. *)
LEMMA StockType ==
    ASSUME stock \in Quantities, NEW lines \in Quantities
    PROVE  /\ Add(lines) \in Quantities
           /\ InStock(lines) => Subtract(lines) \in Quantities
<1>1. \A i \in Items, w \in Warehouses : stock[i][w] \in Nat /\ lines[i][w] \in Nat
  BY DEF Quantities
<1>2. Add(lines) \in Quantities
  BY <1>1 DEF Add, Quantities
<1>3. ASSUME InStock(lines) PROVE Subtract(lines) \in Quantities
  <2>1. \A i \in Items, w \in Warehouses : stock[i][w] - lines[i][w] \in Nat
    BY <1>1, <1>3 DEF InStock
  <2> QED BY <2>1 DEF Subtract, Quantities
<1> QED BY <1>2, <1>3

(* A session that ends leaves well-typed locks. *)
LEMMA ReleaseType ==
    ASSUME StockAssumption, TypeOK, NEW s \in Sessions, Release(s)
    PROVE  /\ itemLock' \in [Items -> Sessions \cup {NoSession}]
           /\ docLock' \in [Docs -> Sessions \cup {NoSession}]
           /\ session' \in [Sessions -> SessionStates]
           /\ DOMAIN gateSaw' = Sessions
<1>1. Idle \in SessionStates
  BY LinesType DEF Idle, SessionStates, StockAssumption
<1>2. session' \in [Sessions -> SessionStates]
  BY <1>1 DEF Release, TypeOK
<1> QED BY <1>2 DEF Release, TypeOK

(* Where a session may be, and what it may do. *)
Pcs == {"idle", "items", "check", "move", "insert"}
Ops == {"none", "create", "finalize", "void"}

(* A session changed in one of its parts is still one. *)
LEMMA SessionUpdates ==
    ASSUME NEW me \in SessionStates
    PROVE  /\ \A pc \in Pcs : [me EXCEPT !.pc = pc] \in SessionStates
           /\ \A todo \in SUBSET Items : [me EXCEPT !.todo = todo] \in SessionStates
           /\ \A pc \in Pcs, missing \in SUBSET Items : [me EXCEPT !.pc = pc, !.missing = missing] \in SessionStates
           /\ \A pc \in Pcs, op \in Ops, d \in Docs, todo \in SUBSET Items :
                  [me EXCEPT !.pc = pc, !.op = op, !.doc = d, !.todo = todo] \in SessionStates
           /\ \A pc \in Pcs, op \in Ops, d \in Docs, lines \in AnyLines, day \in 0..Today :
                  [me EXCEPT !.pc = pc, !.op = op, !.doc = d, !.lines = lines, !.day = day] \in SessionStates
           /\ \A pc \in Pcs, lines \in AnyLines, day \in 0..Today, missing \in SUBSET Items :
                  [me EXCEPT !.pc = pc, !.lines = lines, !.day = day, !.missing = missing] \in SessionStates
<1> DEFINE Lines == AnyLines
           DaysSeen == 0..Today
           Its == SUBSET Items
           Ds == Docs \cup {NoDoc}
<1>1. SessionStates = [pc : Pcs, op : Ops, doc : Ds, todo : Its, missing : Its, lines : Lines, day : DaysSeen]
  BY DEF SessionStates, Pcs, Ops
<1>2. \A d \in Docs : d \in Ds
  OBVIOUS
<1> HIDE DEF Lines, DaysSeen, Its, Ds
<1>3. /\ \A pc \in Pcs : [me EXCEPT !.pc = pc] \in SessionStates
      /\ \A todo \in Its : [me EXCEPT !.todo = todo] \in SessionStates
      /\ \A pc \in Pcs, missing \in Its : [me EXCEPT !.pc = pc, !.missing = missing] \in SessionStates
  BY <1>1
<1>4. \A pc \in Pcs, op \in Ops, d \in Docs, todo \in Its :
          [me EXCEPT !.pc = pc, !.op = op, !.doc = d, !.todo = todo] \in SessionStates
  BY <1>1, <1>2
<1>5. \A pc \in Pcs, op \in Ops, d \in Docs, lines \in Lines, day \in DaysSeen :
          [me EXCEPT !.pc = pc, !.op = op, !.doc = d, !.lines = lines, !.day = day] \in SessionStates
  BY <1>1, <1>2
<1>6. \A pc \in Pcs, lines \in Lines, day \in DaysSeen, missing \in Its :
          [me EXCEPT !.pc = pc, !.lines = lines, !.day = day, !.missing = missing] \in SessionStates
  BY <1>1
<1> QED BY <1>3, <1>4, <1>5, <1>6 DEF Lines, DaysSeen, Its

(* What a session holds has its types. *)
LEMMA SessionFields ==
    ASSUME NEW me \in SessionStates
    PROVE  /\ me.todo \in SUBSET Items /\ me.missing \in SUBSET Items
           /\ me.lines \in AnyLines /\ me.day \in 0..Today
BY DEF SessionStates

(* Every step keeps the types. *)
LEMMA TypeStep ==
    ASSUME StockAssumption, TypeOK, SessionInv, Next
    PROVE  TypeOK'
<1>0. Idle \in SessionStates
  BY LinesType DEF Idle, SessionStates, StockAssumption
<1>a. \A d \in Docs : doc[d].lines \in AnyLines /\ doc[d].day \in 0..Today /\ kardex[d].lines \in AnyLines
  BY DEF TypeOK, DocStates
<1>b. \A d \in Docs : ItemsOf(doc[d].lines) \in SUBSET Items /\ ItemsOf(kardex[d].lines) \in SUBSET Items
  BY DEF ItemsOf
<1>1. ASSUME NEW s \in Sessions
      PROVE  /\ session[s] \in SessionStates
             /\ session[s].pc # "idle" => session[s].doc \in Docs
  BY DEF TypeOK, SessionInv, Own
<1>c. ASSUME NEW s \in Sessions, NEW me \in SessionStates, session' = [session EXCEPT ![s] = me]
      PROVE  session' \in [Sessions -> SessionStates]
  BY <1>c DEF TypeOK
<1>2. ASSUME NEW s \in Sessions, NEW d \in Docs, PeekFinalize(s, d) PROVE TypeOK'
  <2>1. session' \in [Sessions -> SessionStates]
    BY <1>0, <1>b, <1>c, <1>2, SessionUpdates DEF Pcs, Ops, PeekFinalize, Begin
  <2> QED BY <1>2, <2>1 DEF PeekFinalize, TypeOK
<1>3. ASSUME NEW s \in Sessions, NEW d \in Docs, PeekVoid(s, d) PROVE TypeOK'
  <2>1. session' \in [Sessions -> SessionStates]
    BY <1>0, <1>b, <1>c, <1>3, SessionUpdates DEF Pcs, Ops, PeekVoid, Begin
  <2> QED BY <1>3, <2>1 DEF PeekVoid, TypeOK
<1>4. ASSUME NEW s \in Sessions, NEW d \in Docs, BeginFinal(s, d) PROVE TypeOK'
  <2>1. \A e \in Entries[d] : [pc |-> "items", op |-> "create", doc |-> d, todo |-> ItemsOf(e.lines),
                              missing |-> {}, lines |-> e.lines, day |-> e.day] \in SessionStates
    BY LinesType DEF SessionStates, ItemsOf
  <2> QED BY <1>4, <2>1 DEF BeginFinal, TypeOK
<1>5. ASSUME NEW s \in Sessions, NEW d \in Docs, BeginReturnDraft(s, d) PROVE TypeOK'
  <2>1. session' \in [Sessions -> SessionStates]
    BY <1>0, <1>c, <1>5, SessionUpdates, LinesType DEF Pcs, Ops, BeginReturnDraft
  <2> QED BY <1>5, <2>1 DEF BeginReturnDraft, TypeOK
<1>6. ASSUME NEW s \in Sessions, InsertReturnDraft(s) PROVE TypeOK'
  <2>1. session[s].doc \in Docs
    BY <1>1, <1>6 DEF InsertReturnDraft
  <2>2. [status |-> "draft", day |-> session[s].day, lines |-> session[s].lines] \in DocStates
    BY <1>1, SessionFields DEF DocStates
  <2>3. doc' \in [Docs -> DocStates]
    BY <1>6, <2>1, <2>2 DEF InsertReturnDraft, TypeOK
  <2> QED BY <1>6, <2>3, ReleaseType DEF InsertReturnDraft, TypeOK
<1>7. ASSUME NEW s \in Sessions, LockItem(s) PROVE TypeOK'
  <2> DEFINE i == Min(session[s].todo)
             todo == session[s].todo \ {i}
  <2>1. itemLock' \in [Items -> Sessions \cup {NoSession}]
    <3>1. itemLock' = [itemLock EXCEPT ![i] = s]
      BY <1>7 DEF LockItem
    <3> HIDE DEF i
    <3> QED BY <3>1 DEF TypeOK
  <2>2. session' \in [Sessions -> SessionStates]
    <3>1. session' = [session EXCEPT ![s] = [session[s] EXCEPT !.todo = todo]]
      BY <1>7 DEF LockItem
    <3>2. todo \in SUBSET Items
      BY <1>1, SessionFields
    <3> HIDE DEF todo
    <3>3. [session[s] EXCEPT !.todo = todo] \in SessionStates
      BY <1>1, <3>2, SessionUpdates DEF Pcs
    <3> QED BY <1>c, <3>1, <3>3
  <2> QED BY <1>7, <2>1, <2>2 DEF LockItem, TypeOK
<1>8. ASSUME NEW s \in Sessions, Checked(s) PROVE TypeOK'
  <2> DEFINE pc == AfterItems(session[s].doc)
  <2>1. session' = [session EXCEPT ![s] = [session[s] EXCEPT !.pc = pc]]
    BY <1>8 DEF Checked
  <2>2. pc \in {"check", "move"}
    BY DEF AfterItems
  <2> HIDE DEF pc
  <2>3. [session[s] EXCEPT !.pc = pc] \in SessionStates
    BY <1>1, <2>2, SessionUpdates DEF Pcs
  <2>4. session' \in [Sessions -> SessionStates]
    BY <1>c, <2>1, <2>3
  <2> QED BY <1>8, <2>4 DEF Checked, TypeOK
<1>9. ASSUME NEW s \in Sessions, LockFinalize(s) PROVE TypeOK'
  <2> DEFINE d == session[s].doc
             day == IF Kind[d] = "invoice" /\ doc[d].status = "proforma" THEN Today ELSE doc[d].day
             pc == AfterItems(d)
             lines == doc[d].lines
             missing == ItemsOf(lines) \ HeldItems(s)
             me == [session[s] EXCEPT !.pc = pc, !.lines = lines, !.day = day, !.missing = missing]
  <2>1. d \in Docs
    BY <1>1, <1>9 DEF LockFinalize
  <2>2. pc \in {"check", "move"} /\ day \in 0..Today /\ lines \in AnyLines /\ missing \in SUBSET Items
    BY <1>a, <1>b, <2>1, LinesType DEF AfterItems
  <2>3. session' = [session EXCEPT ![s] = me]
    BY <1>9 DEF LockFinalize
  <2>4. me \in SessionStates
    <3> HIDE DEF d, day, pc, lines, missing
    <3> QED BY <1>1, <2>2, SessionUpdates DEF Pcs
  <2>5. session' \in [Sessions -> SessionStates]
    BY <1>c, <2>3, <2>4
  <2> QED BY <1>9, <2>1, <2>5 DEF LockFinalize, TypeOK
<1>10. ASSUME NEW s \in Sessions, LockVoid(s) PROVE TypeOK'
  <2> DEFINE missing == ItemsOf(kardex[session[s].doc].lines) \ HeldItems(s)
             me == [session[s] EXCEPT !.pc = "check", !.missing = missing]
  <2>1. missing \in SUBSET Items
    BY DEF ItemsOf
  <2>2. session' = [session EXCEPT ![s] = me]
    BY <1>10 DEF LockVoid
  <2>3. me \in SessionStates
    <3> HIDE DEF missing
    <3> QED BY <1>1, <2>1, SessionUpdates DEF Pcs
  <2>4. session' \in [Sessions -> SessionStates]
    BY <1>c, <2>2, <2>3
  <2> QED BY <1>10, <2>4 DEF LockVoid, TypeOK
<1>11. ASSUME NEW s \in Sessions, LockMissing(s) PROVE TypeOK'
  <2>1. PICK i : itemLock' = [itemLock EXCEPT ![i] = s]
    BY <1>11 DEF LockMissing
  <2>2. itemLock' \in [Items -> Sessions \cup {NoSession}]
    BY <2>1 DEF TypeOK
  <2>3. UNCHANGED <<doc, kardex, stock, docLock, session, gateSaw, edits>>
    BY <1>11 DEF LockMissing
  <2> QED BY <2>2, <2>3 DEF TypeOK
<1>12. ASSUME NEW s \in Sessions, NEW me, me = [session[s] EXCEPT !.pc = "move"] PROVE me \in SessionStates
  BY <1>1, <1>12, SessionUpdates DEF Pcs
<1>d. ASSUME NEW s \in Sessions, CheckOutflow(s) PROVE TypeOK'
  <2>1. session' = [session EXCEPT ![s] = [session[s] EXCEPT !.pc = "move"]]
    BY <1>d DEF CheckOutflow
  <2>2. session' \in [Sessions -> SessionStates]
    BY <1>c, <1>12, <2>1
  <2> QED BY <1>d, <2>2 DEF CheckOutflow, TypeOK
<1>13. ASSUME NEW s \in Sessions, CheckReturn(s) PROVE TypeOK'
  <2>1. session' = [session EXCEPT ![s] = [session[s] EXCEPT !.pc = "move"]]
    BY <1>13 DEF CheckReturn
  <2>2. session' \in [Sessions -> SessionStates]
    BY <1>c, <1>12, <2>1
  <2> QED BY <1>13, <2>2 DEF CheckReturn, TypeOK
<1>14. ASSUME NEW s \in Sessions, Move(s) PROVE TypeOK'
  <2> DEFINE me == session[s]
             d == me.doc
  <2>1. d \in Docs /\ me.lines \in Quantities /\ me.lines \in AnyLines /\ me.day \in 0..Today
    BY <1>1, <1>14, SessionFields, LinesType DEF Move
  <2>2. stock' \in Quantities
    BY <1>14, <2>1, StockType DEF Move, TypeOK
  <2>3. kardex' \in [Docs -> [id : Nat, day : 0..Today, lines : AnyLines]]
    <3>1. NextId \in Nat
      BY NextIdType DEF TypeOK
    <3>2. kardex' = [kardex EXCEPT ![d] = [id |-> NextId, day |-> me.day, lines |-> me.lines]]
      BY <1>14 DEF Move
    <3> HIDE DEF me, d
    <3> QED BY <2>1, <3>1, <3>2 DEF TypeOK
  <2>4. doc' \in [Docs -> DocStates]
    <3>1. [status |-> "final", day |-> me.day, lines |-> me.lines] \in DocStates
      BY <2>1 DEF DocStates
    <3>2. doc[d] \in DocStates
      BY <2>1 DEF TypeOK
    <3>3. [doc[d] EXCEPT !.status = "final", !.day = me.day] \in DocStates
      BY <2>1, <3>2 DEF DocStates
    <3>4. \/ doc' = [doc EXCEPT ![d] = [status |-> "final", day |-> me.day, lines |-> me.lines]]
          \/ doc' = [doc EXCEPT ![d].status = "final", ![d].day = me.day]
      BY <1>14 DEF Move
    <3> HIDE DEF me, d
    <3> QED BY <2>1, <3>1, <3>3, <3>4 DEF TypeOK
  <2> QED BY <1>14, <2>2, <2>3, <2>4, ReleaseType DEF Move, TypeOK
<1>15. ASSUME NEW s \in Sessions, Void(s) PROVE TypeOK'
  <2> DEFINE d == session[s].doc
  <2>1. d \in Docs
    BY <1>1, <1>15 DEF Void
  <2>2. kardex[d].lines \in Quantities
    BY <1>a, <2>1, LinesType
  <2>3. stock' \in Quantities
    BY <1>15, <2>2, StockType DEF Void, TypeOK
  <2>4. kardex' \in [Docs -> [id : Nat, day : 0..Today, lines : AnyLines]]
    <3>1. NoRows \in [id : Nat, day : 0..Today, lines : AnyLines]
      BY LinesType DEF NoRows, StockAssumption
    <3> QED BY <1>15, <3>1 DEF Void, TypeOK
  <2>5. doc' \in [Docs -> DocStates]
    <3>1. Voided \in DocStates
      BY LinesType DEF Voided, DocStates, StockAssumption
    <3> QED BY <1>15, <3>1 DEF Void, TypeOK
  <2> QED BY <1>15, <2>3, <2>4, <2>5, ReleaseType DEF Void, TypeOK
<1>16. ASSUME NEW s \in Sessions, RollBack(s) PROVE TypeOK'
  BY <1>16, ReleaseType DEF RollBack, TypeOK
<1>17. ASSUME NEW d \in Docs, CreateDraft(d) PROVE TypeOK'
  BY <1>17, LinesType DEF CreateDraft, DocStates, TypeOK
<1>18. ASSUME NEW d \in Docs, Edit(d) PROVE TypeOK'
  BY <1>18, LinesType DEF Edit, DocStates, TypeOK, StockAssumption
<1> QED
  BY <1>2, <1>3, <1>4, <1>5, <1>6, <1>7, <1>8, <1>9, <1>10, <1>11, <1>d, <1>13, <1>14, <1>15, <1>16, <1>17, <1>18
  DEF Next, SessionStep

-----------------------------------------------------------------------------
(* Sessions and their documents. *)

Working(s) == session[s].op = "create" \/ session[s].pc \in {"check", "move"}

(* What a step of another actor must leave to a session. *)
Untouched(s) ==
    /\ session'[s] = session[s]
    /\ Working(s) /\ docLock[session[s].doc] = s => docLock'[session[s].doc] = s
    /\ Working(s) => doc'[session[s].doc] = doc[session[s].doc]

(* No two sessions work on one document. *)
LEMMA Alone ==
    ASSUME TypeOK, SessionInv, NEW s \in Sessions, NEW t \in Sessions, s # t, Working(s), Working(t)
    PROVE  session[s].doc # session[t].doc
<1>1. Own(s) /\ Own(t)
  BY DEF SessionInv
<1>2. session[s].op = "create" /\ session[t].op = "create" => session[s].doc # session[t].doc
  BY DEF SessionInv, OneRecorder
<1>3. session[s].op \in Ops /\ session[t].op \in Ops
  BY DEF TypeOK, SessionStates, Ops
<1>4. ASSUME NEW x \in {s, t}, Working(x), session[x].op # "create"
      PROVE  docLock[session[x].doc] = x /\ doc[session[x].doc].status # "absent"
  BY <1>1, <1>3, <1>4 DEF Own, Working, Editable, Live, Ops
<1>5. ASSUME NEW x \in {s, t}, session[x].op = "create"
      PROVE  doc[session[x].doc].status = "absent"
  BY <1>1, <1>5 DEF Own
<1> QED BY <1>2, <1>4, <1>5

(* A session left alone keeps what it owns. *)
LEMMA UntouchedKeeps ==
    ASSUME NEW s \in Sessions, Own(s), Untouched(s)
    PROVE  Own(s)'
BY DEF Own, Untouched, Working, Editable, Live

(* A session that ends owns nothing, and leaves the locks of the others. *)
LEMMA ReleaseKeeps ==
    ASSUME TypeOK, SessionInv, NEW s \in Sessions, Release(s),
           \A t \in Sessions \ {s} : Working(t) => doc'[session[t].doc] = doc[session[t].doc]
    PROVE  SessionInv'
<1>1. session' = [session EXCEPT ![s] = Idle]
  BY DEF Release
<1>2. session'[s] = Idle /\ \A t \in Sessions \ {s} : session'[t] = session[t]
  BY <1>1 DEF TypeOK
<1>3. Own(s)'
  BY <1>2 DEF Own, Idle
<1>4. OneRecorder'
  BY <1>2 DEF SessionInv, OneRecorder, Idle
<1>5. ASSUME NEW t \in Sessions \ {s} PROVE Own(t)'
  <2>1. Own(t)
    BY DEF SessionInv
  <2>2. \A d \in Docs : docLock[d] = t => docLock'[d] = t
    BY DEF Release
  <2>3. Working(t) => session[t].doc \in Docs
    BY <2>1 DEF Working, Own
  <2>4. Untouched(t)
    BY <1>2, <2>2, <2>3 DEF Untouched
  <2> QED BY <2>1, <2>4, UntouchedKeeps
<1> QED BY <1>3, <1>4, <1>5 DEF SessionInv

(* A step that leaves the documents alone, moves session s on and takes    *)
(* only free locks: what is left to show is about s.                       *)
LEMMA OneMoves ==
    ASSUME TypeOK, SessionInv, NEW s \in Sessions, NEW me, session' = [session EXCEPT ![s] = me],
           \A d \in Docs : docLock'[d] # docLock[d] => docLock[d] = NoSession,
           NoSession \notin Sessions,
           doc' = doc,
           me.op = "create" => \A t \in Sessions \ {s} : session[t].op = "create" => session[t].doc # me.doc,
           Own(s)'
    PROVE  SessionInv'
<1>1. session'[s] = me /\ \A t \in Sessions \ {s} : session'[t] = session[t]
  BY DEF TypeOK
<1>2. OneRecorder'
  BY <1>1 DEF SessionInv, OneRecorder
<1>3. ASSUME NEW t \in Sessions \ {s} PROVE Own(t)'
  <2>1. Own(t)
    BY DEF SessionInv
  <2>2. Working(t) => session[t].doc \in Docs
    BY <2>1 DEF Working, Own
  <2>3. Untouched(t)
    BY <1>1, <2>2 DEF Untouched
  <2> QED BY <2>1, <2>3, UntouchedKeeps
<1> QED BY <1>2, <1>3 DEF SessionInv

(* A step on one document that no session works on. *)
LEMMA OneDocument ==
    ASSUME TypeOK, SessionInv, NEW d \in Docs, NEW row, doc' = [doc EXCEPT ![d] = row],
           session' = session, docLock' = docLock,
           \A s \in Sessions : Working(s) => session[s].doc # d
    PROVE  SessionInv'
<1>1. OneRecorder'
  BY DEF SessionInv, OneRecorder
<1>2. ASSUME NEW s \in Sessions PROVE Own(s)'
  <2>1. Own(s)
    BY DEF SessionInv
  <2>2. Working(s) => doc'[session[s].doc] = doc[session[s].doc]
    BY <2>1 DEF Working, Own, TypeOK
  <2>3. Untouched(s)
    BY <2>2 DEF Untouched
  <2> QED BY <2>1, <2>3, UntouchedKeeps
<1> QED BY <1>1, <1>2 DEF SessionInv

(* Every step keeps what the sessions own. *)
LEMMA SessionInvStep ==
    ASSUME StockAssumption, TypeOK, SessionInv, Next
    PROVE  SessionInv'
<1>1. NoSession \notin Sessions
  BY DEF StockAssumption
<1>2. ASSUME NEW s \in Sessions PROVE Own(s)
  BY DEF SessionInv
<1>3. ASSUME NEW s \in Sessions, NEW d \in Docs, PeekFinalize(s, d) PROVE SessionInv'
  <2> DEFINE me == [Idle EXCEPT !.pc = "items", !.op = "finalize", !.doc = d, !.todo = ItemsOf(doc[d].lines)]
  <2>1. session' = [session EXCEPT ![s] = me]
    BY <1>3 DEF PeekFinalize, Begin
  <2>2. me.pc = "items" /\ me.op = "finalize" /\ me.doc = d
    BY DEF Idle
  <2> HIDE DEF me
  <2>3. Own(s)'
    BY <2>1, <2>2 DEF Own, TypeOK
  <2> QED BY <1>1, <1>3, <2>1, <2>2, <2>3, OneMoves DEF PeekFinalize
<1>4. ASSUME NEW s \in Sessions, NEW d \in Docs, PeekVoid(s, d) PROVE SessionInv'
  <2> DEFINE me == [Idle EXCEPT !.pc = "items", !.op = "void", !.doc = d,
                                !.todo = ItemsOf(doc[d].lines) \cup ItemsOf(kardex[d].lines)]
  <2>1. session' = [session EXCEPT ![s] = me]
    BY <1>4 DEF PeekVoid, Begin
  <2>2. me.pc = "items" /\ me.op = "void" /\ me.doc = d
    BY DEF Idle
  <2> HIDE DEF me
  <2>3. Own(s)'
    BY <2>1, <2>2 DEF Own, TypeOK
  <2> QED BY <1>1, <1>4, <2>1, <2>2, <2>3, OneMoves DEF PeekVoid
<1>5. ASSUME NEW s \in Sessions, NEW d \in Docs, BeginFinal(s, d) PROVE SessionInv'
  <2>1. PICK e \in Entries[d] :
            session' = [session EXCEPT ![s] = [pc |-> "items", op |-> "create", doc |-> d, todo |-> ItemsOf(e.lines),
                                               missing |-> {}, lines |-> e.lines, day |-> e.day]]
    BY <1>5 DEF BeginFinal
  <2> DEFINE me == [pc |-> "items", op |-> "create", doc |-> d, todo |-> ItemsOf(e.lines),
                    missing |-> {}, lines |-> e.lines, day |-> e.day]
  <2>2. me.pc = "items" /\ me.op = "create" /\ me.doc = d
    OBVIOUS
  <2>3. session' = [session EXCEPT ![s] = me]
    BY <2>1
  <2> HIDE DEF me
  <2>4. doc[d].status = "absent" /\ \A t \in Sessions : session[t].op = "create" => session[t].doc # d
    BY <1>5 DEF BeginFinal, Fresh, Creating
  <2>5. Own(s)'
    BY <1>5, <2>2, <2>3, <2>4 DEF Own, TypeOK, BeginFinal
  <2> QED BY <1>1, <1>5, <2>2, <2>3, <2>4, <2>5, OneMoves DEF BeginFinal
<1>6. ASSUME NEW s \in Sessions, NEW d \in Docs, BeginReturnDraft(s, d) PROVE SessionInv'
  <2>1. PICK e \in Entries[d] :
            session' = [session EXCEPT ![s] = [Idle EXCEPT !.pc = "insert", !.op = "create", !.doc = d,
                                                           !.lines = e.lines, !.day = e.day]]
    BY <1>6 DEF BeginReturnDraft
  <2> DEFINE me == [Idle EXCEPT !.pc = "insert", !.op = "create", !.doc = d, !.lines = e.lines, !.day = e.day]
  <2>2. me.pc = "insert" /\ me.op = "create" /\ me.doc = d
    BY DEF Idle
  <2>3. session' = [session EXCEPT ![s] = me]
    BY <2>1
  <2> HIDE DEF me
  <2>4. doc[d].status = "absent" /\ \A t \in Sessions : session[t].op = "create" => session[t].doc # d
    BY <1>6 DEF BeginReturnDraft, Fresh, Creating
  <2>5. Own(s)'
    BY <1>6, <2>2, <2>3, <2>4 DEF Own, TypeOK, BeginReturnDraft
  <2> QED BY <1>1, <1>6, <2>2, <2>3, <2>4, <2>5, OneMoves DEF BeginReturnDraft
<1>7. ASSUME NEW s \in Sessions, Working(s), Release(s),
             \A d \in Docs \ {session[s].doc} : doc'[d] = doc[d]
      PROVE  SessionInv'
  <2>1. ASSUME NEW t \in Sessions \ {s}, Working(t) PROVE doc'[session[t].doc] = doc[session[t].doc]
    <3>1. session[t].doc # session[s].doc
      BY <1>7, <2>1, Alone
    <3>2. session[t].doc \in Docs
      BY <1>2, <2>1 DEF Own, Working
    <3> QED BY <1>7, <3>1, <3>2
  <2> QED BY <1>7, <2>1, ReleaseKeeps
<1>8. ASSUME NEW s \in Sessions, InsertReturnDraft(s) PROVE SessionInv'
  <2>1. Working(s)
    BY <1>2, <1>8 DEF InsertReturnDraft, Own, Working
  <2>2. \A d \in Docs \ {session[s].doc} : doc'[d] = doc[d]
    BY <1>8 DEF InsertReturnDraft, TypeOK
  <2> QED BY <1>7, <1>8, <2>1, <2>2 DEF InsertReturnDraft
<1>9. ASSUME NEW s \in Sessions, LockItem(s) PROVE SessionInv'
  <2> DEFINE me == [session[s] EXCEPT !.todo = @ \ {Min(session[s].todo)}]
  <2>1. session' = [session EXCEPT ![s] = me]
    BY <1>9 DEF LockItem
  <2>2. me.pc = session[s].pc /\ me.op = session[s].op /\ me.doc = session[s].doc
        /\ me.lines = session[s].lines /\ session[s].pc = "items"
    BY <1>9 DEF LockItem, TypeOK, SessionStates
  <2> HIDE DEF me
  <2>3. Own(s)'
    BY <1>2, <1>9, <2>1, <2>2 DEF Own, TypeOK, LockItem
  <2>4. me.op = "create" => \A t \in Sessions \ {s} : session[t].op = "create" => session[t].doc # me.doc
    BY <2>2 DEF SessionInv, OneRecorder
  <2> QED BY <1>1, <1>9, <2>1, <2>3, <2>4, OneMoves DEF LockItem
<1>10. ASSUME NEW s \in Sessions, Checked(s) PROVE SessionInv'
  <2> DEFINE me == [session[s] EXCEPT !.pc = AfterItems(session[s].doc)]
  <2>1. session' = [session EXCEPT ![s] = me]
    BY <1>10 DEF Checked
  <2>2. me.pc \in {"check", "move"} /\ me.op = "create" /\ me.doc = session[s].doc
    BY <1>10 DEF Checked, TypeOK, SessionStates, AfterItems
  <2> HIDE DEF me
  <2>3. Own(s)'
    <3>1. session'[s] = me /\ doc' = doc /\ session[s].pc = "items" /\ session[s].op = "create"
      BY <1>10, <2>1 DEF TypeOK, Checked
    <3>2. Own(s)
      BY <1>2
    <3> QED BY <2>2, <3>1, <3>2 DEF Own
  <2>4. \A t \in Sessions \ {s} : session[t].op = "create" => session[t].doc # me.doc
    BY <1>10, <2>2 DEF SessionInv, OneRecorder, Checked
  <2> QED BY <1>1, <1>10, <2>1, <2>3, <2>4, OneMoves DEF Checked
<1>11. ASSUME NEW s \in Sessions, LockFinalize(s) PROVE SessionInv'
  <2> DEFINE d == session[s].doc
             day == IF Kind[d] = "invoice" /\ doc[d].status = "proforma" THEN Today ELSE doc[d].day
             me == [session[s] EXCEPT !.pc = AfterItems(d), !.lines = doc[d].lines, !.day = day,
                                      !.missing = ItemsOf(doc[d].lines) \ HeldItems(s)]
  <2>1. session' = [session EXCEPT ![s] = me]
    BY <1>11 DEF LockFinalize
  <2>2. me.pc \in {"check", "move"} /\ me.op = "finalize" /\ me.doc = d /\ me.lines = doc[d].lines
    BY <1>11 DEF LockFinalize, TypeOK, SessionStates, AfterItems
  <2>3. d \in Docs /\ Editable(d) /\ docLock[d] = NoSession /\ docLock' = [docLock EXCEPT ![d] = s] /\ doc' = doc
    BY <1>2, <1>11 DEF LockFinalize, Own
  <2> HIDE DEF me, d
  <2>4. Own(s)'
    BY <2>1, <2>2, <2>3 DEF Own, TypeOK, Editable
  <2>5. \A x \in Docs : docLock'[x] # docLock[x] => docLock[x] = NoSession
    BY <2>3 DEF TypeOK
  <2> QED BY <1>1, <2>1, <2>2, <2>3, <2>4, <2>5, OneMoves
<1>12. ASSUME NEW s \in Sessions, LockVoid(s) PROVE SessionInv'
  <2> DEFINE d == session[s].doc
             me == [session[s] EXCEPT !.pc = "check", !.missing = ItemsOf(kardex[d].lines) \ HeldItems(s)]
  <2>1. session' = [session EXCEPT ![s] = me]
    BY <1>12 DEF LockVoid
  <2>2. me.pc = "check" /\ me.op = "void" /\ me.doc = d
    BY <1>12 DEF LockVoid, TypeOK, SessionStates
  <2>3. d \in Docs /\ Live(d) /\ docLock[d] = NoSession /\ docLock' = [docLock EXCEPT ![d] = s] /\ doc' = doc
    BY <1>2, <1>12 DEF LockVoid, Own
  <2> HIDE DEF me, d
  <2>4. Own(s)'
    BY <2>1, <2>2, <2>3 DEF Own, TypeOK, Live
  <2>5. \A x \in Docs : docLock'[x] # docLock[x] => docLock[x] = NoSession
    BY <2>3 DEF TypeOK
  <2> QED BY <1>1, <2>1, <2>2, <2>3, <2>4, <2>5, OneMoves
<1>13. ASSUME NEW s \in Sessions, LockMissing(s) PROVE SessionInv'
  BY <1>13 DEF LockMissing, SessionInv, OneRecorder, Own, Editable, Live
<1>14. ASSUME NEW s \in Sessions, session[s].pc = "check", session[s].op # "void", doc' = doc,
              session' = [session EXCEPT ![s].pc = "move"],
              \A d \in Docs : docLock'[d] # docLock[d] => docLock[d] = NoSession
       PROVE  SessionInv'
  <2> DEFINE me == [session[s] EXCEPT !.pc = "move"]
  <2>1. session' = [session EXCEPT ![s] = me]
    BY <1>14
  <2>2. me.pc = "move" /\ me.op = session[s].op /\ me.doc = session[s].doc /\ me.lines = session[s].lines
    BY DEF TypeOK, SessionStates
  <2> HIDE DEF me
  <2>3. session[s].op # "create" => docLock'[session[s].doc] = s
    BY <1>1, <1>2, <1>14 DEF Own
  <2>4. Own(s)'
    <3>1. session'[s] = me /\ doc' = doc /\ session[s].pc = "check" /\ session[s].op # "void"
      BY <1>14, <2>1 DEF TypeOK
    <3>2. Own(s)
      BY <1>2
    <3> QED BY <2>2, <2>3, <3>1, <3>2 DEF Own, Editable
  <2>5. me.op = "create" => \A t \in Sessions \ {s} : session[t].op = "create" => session[t].doc # me.doc
    BY <2>2 DEF SessionInv, OneRecorder
  <2> QED BY <1>1, <1>14, <2>1, <2>4, <2>5, OneMoves
<1>15. ASSUME NEW s \in Sessions, CheckOutflow(s) PROVE SessionInv'
  BY <1>14, <1>15 DEF CheckOutflow
<1>16. ASSUME NEW s \in Sessions, CheckReturn(s) PROVE SessionInv'
  <2>1. \A d \in Docs : docLock'[d] # docLock[d] => docLock[d] = NoSession
    BY <1>16 DEF CheckReturn, TypeOK
  <2> QED BY <1>14, <1>16, <2>1 DEF CheckReturn
<1>17. ASSUME NEW s \in Sessions, Move(s) PROVE SessionInv'
  <2>1. \A d \in Docs \ {session[s].doc} : doc'[d] = doc[d]
    BY <1>17 DEF Move, TypeOK
  <2> QED BY <1>7, <1>17, <2>1 DEF Move, Working
<1>18. ASSUME NEW s \in Sessions, Void(s) PROVE SessionInv'
  <2>1. \A d \in Docs \ {session[s].doc} : doc'[d] = doc[d]
    BY <1>18 DEF Void, TypeOK
  <2> QED BY <1>7, <1>18, <2>1 DEF Void, Working
<1>19. ASSUME NEW s \in Sessions, RollBack(s) PROVE SessionInv'
  BY <1>19, ReleaseKeeps DEF RollBack
<1>20. ASSUME NEW d \in Docs, CreateDraft(d) PROVE SessionInv'
  <2>1. ASSUME NEW s \in Sessions, Working(s) PROVE session[s].doc # d
    <3>1. doc[d].status = "absent" /\ (session[s].op = "create" => session[s].doc # d)
      BY <1>20 DEF CreateDraft, Fresh, Creating
    <3>2. session[s].op \in Ops
      BY DEF TypeOK, SessionStates, Ops
    <3> QED BY <1>2, <2>1, <3>1, <3>2 DEF Working, Own, Editable, Live, Ops
  <2> QED BY <1>20, <2>1, OneDocument DEF CreateDraft
<1>21. ASSUME NEW d \in Docs, Edit(d) PROVE SessionInv'
  <2>1. ASSUME NEW s \in Sessions, Working(s) PROVE session[s].doc # d
    BY <1>1, <1>2, <1>21, <2>1 DEF Edit, Working, Own, Editable
  <2> QED BY <1>21, <2>1, OneDocument DEF Edit
<1> QED
  BY <1>3, <1>4, <1>5, <1>6, <1>8, <1>9, <1>10, <1>11, <1>12, <1>13, <1>15, <1>16, <1>17, <1>18, <1>19, <1>20, <1>21
  DEF Next, SessionStep

-----------------------------------------------------------------------------
(* What is posted. *)

(* Every step keeps a final document and its rows together. *)
LEMMA PostedStep ==
    ASSUME StockAssumption, IInv, Next
    PROVE  FinalIsPosted'
<1>1. TypeOK /\ SessionInv /\ FinalIsPosted
  BY DEF IInv
<1>2. CASE doc' = doc /\ kardex' = kardex
  BY <1>1, <1>2 DEF FinalIsPosted
<1>3. ASSUME NEW d \in Docs, NEW row, row.status # "final", doc[d].status # "final",
             doc' = [doc EXCEPT ![d] = row], kardex' = kardex
      PROVE  FinalIsPosted'
  <2>1. doc'[d] = row /\ \A e \in Docs \ {d} : doc'[e] = doc[e]
    BY <1>1, <1>3 DEF TypeOK
  <2> QED BY <1>1, <1>3, <2>1 DEF FinalIsPosted
<1>4. ASSUME NEW s \in Sessions, InsertReturnDraft(s) PROVE FinalIsPosted'
  <2> DEFINE row == [status |-> "draft", day |-> session[s].day, lines |-> session[s].lines]
  <2>1. session[s].doc \in Docs /\ doc[session[s].doc].status = "absent"
    BY <1>1, <1>4 DEF SessionInv, Own, InsertReturnDraft
  <2>2. doc' = [doc EXCEPT ![session[s].doc] = row] /\ kardex' = kardex /\ row.status = "draft"
    BY <1>4 DEF InsertReturnDraft
  <2> HIDE DEF row
  <2> QED BY <1>3, <2>1, <2>2
<1>5. ASSUME NEW d \in Docs, CreateDraft(d) PROVE FinalIsPosted'
  <2>1. PICK e \in Entries[d], status \in {"draft", "proforma"} :
            doc' = [doc EXCEPT ![d] = [status |-> status, day |-> e.day, lines |-> e.lines]]
    BY <1>5 DEF CreateDraft
  <2> DEFINE row == [status |-> status, day |-> e.day, lines |-> e.lines]
  <2>2. row.status # "final" /\ doc' = [doc EXCEPT ![d] = row]
    BY <2>1
  <2>3. doc[d].status = "absent" /\ kardex' = kardex
    BY <1>5 DEF CreateDraft, Fresh
  <2> HIDE DEF row
  <2> QED BY <1>3, <2>2, <2>3
<1>6. ASSUME NEW d \in Docs, Edit(d) PROVE FinalIsPosted'
  <2>1. PICK e \in Entries[d], status \in {"draft", "proforma"} :
            doc' = [doc EXCEPT ![d] = [status |-> status, day |-> e.day, lines |-> e.lines]]
    BY <1>6 DEF Edit
  <2> DEFINE row == [status |-> status, day |-> e.day, lines |-> e.lines]
  <2>2. row.status # "final" /\ doc' = [doc EXCEPT ![d] = row]
    BY <2>1
  <2>3. doc[d].status # "final" /\ kardex' = kardex
    BY <1>6 DEF Edit, Editable
  <2> HIDE DEF row
  <2> QED BY <1>3, <2>2, <2>3
<1>7. ASSUME NEW s \in Sessions, Move(s) PROVE FinalIsPosted'
  <2> DEFINE me == session[s]
             d == me.doc
             rows == [id |-> NextId, day |-> me.day, lines |-> me.lines]
  <2>1. d \in Docs /\ (me.op # "create" => doc[d].lines = me.lines)
    <3>1. me.op \in Ops /\ me.pc = "move"
      BY <1>1, <1>7 DEF TypeOK, SessionStates, Ops, Move
    <3> QED BY <1>1, <3>1 DEF SessionInv, Own, Ops
  <2>2. kardex'[d] = rows /\ \A e \in Docs \ {d} : kardex'[e] = kardex[e]
    BY <1>1, <1>7, <2>1 DEF Move, TypeOK
  <2>3. doc'[d].status = "final" /\ doc'[d].lines = me.lines /\ doc'[d].day = me.day
    <3>1. doc[d] \in DocStates
      BY <1>1, <2>1 DEF TypeOK
    <3>2. CASE doc' = [doc EXCEPT ![d] = [status |-> "final", day |-> me.day, lines |-> me.lines]]
      BY <1>1, <2>1, <3>2 DEF TypeOK
    <3>3. CASE me.op # "create" /\ doc' = [doc EXCEPT ![d].status = "final", ![d].day = me.day]
      BY <1>1, <2>1, <3>1, <3>3 DEF TypeOK, DocStates
    <3> QED BY <1>7, <3>2, <3>3 DEF Move
  <2>4. \A e \in Docs \ {d} : doc'[e] = doc[e]
    BY <1>1, <1>7 DEF Move, TypeOK
  <2>5. rows.id # 0
    BY <1>1, NextIdType DEF TypeOK
  <2>6. rows.lines = me.lines /\ rows.day = me.day
    OBVIOUS
  <2> HIDE DEF me, d, rows
  <2> QED BY <1>1, <2>2, <2>3, <2>4, <2>5, <2>6 DEF FinalIsPosted
<1>8. ASSUME NEW s \in Sessions, Void(s) PROVE FinalIsPosted'
  <2> DEFINE d == session[s].doc
  <2>1. doc' = [doc EXCEPT ![d] = Voided] /\ kardex' = [kardex EXCEPT ![d] = NoRows]
    BY <1>8 DEF Void
  <2>2. Voided.status = "void"
    BY DEF Voided
  <2> HIDE DEF d
  <2> QED BY <1>1, <2>1, <2>2 DEF FinalIsPosted, TypeOK
<1>9. ASSUME NEW s \in Sessions, SessionStep(s), ~InsertReturnDraft(s), ~Move(s), ~Void(s)
      PROVE  doc' = doc /\ kardex' = kardex
  BY <1>9
  DEF SessionStep, PeekFinalize, PeekVoid, BeginFinal, BeginReturnDraft, LockItem, Checked, LockFinalize, LockVoid,
      LockMissing, CheckOutflow, CheckReturn, RollBack
<1> QED BY <1>2, <1>4, <1>5, <1>6, <1>7, <1>8, <1>9 DEF Next

(* The inductive invariant holds in the initial states. *)
LEMMA InitInv ==
    ASSUME StockAssumption, Init
    PROVE  IInv
<1>1. Idle \in SessionStates
  BY LinesType DEF Idle, SessionStates, StockAssumption
<1>2. [status |-> "absent", day |-> 0, lines |-> Nothing] \in DocStates
  BY LinesType DEF DocStates, StockAssumption
<1>3. NoRows \in [id : Nat, day : 0..Today, lines : AnyLines]
  BY LinesType DEF NoRows, StockAssumption
<1>4. TypeOK
  BY <1>1, <1>2, <1>3 DEF Init, TypeOK, StockAssumption
<1>5. SessionInv
  BY DEF Init, SessionInv, OneRecorder, Own, Idle
<1>6. FinalIsPosted
  BY DEF Init, FinalIsPosted
<1> QED BY <1>4, <1>5, <1>6 DEF IInv

(* A step that changes nothing keeps everything. *)
LEMMA StutterInv ==
    ASSUME IInv, UNCHANGED vars
    PROVE  IInv'
<1>1. TypeOK'
  BY DEF IInv, TypeOK, vars
<1>2. SessionInv'
  BY DEF IInv, SessionInv, OneRecorder, Own, Editable, Live, vars
<1>3. FinalIsPosted'
  BY DEF IInv, FinalIsPosted, vars
<1> QED BY <1>1, <1>2, <1>3 DEF IInv

(* The inductive invariant: types, what the sessions own, what is posted. *)
THEOREM StockInvariant == Spec => []IInv
<1>1. Init => IInv
  BY StockAssumption, InitInv
<1>2. IInv /\ [Next]_vars => IInv'
  <2> SUFFICES ASSUME IInv, [Next]_vars PROVE IInv'
    OBVIOUS
  <2>1. CASE Next
    <3>1. TypeOK /\ SessionInv
      BY DEF IInv
    <3> QED BY <2>1, <3>1, StockAssumption, TypeStep, SessionInvStep, PostedStep DEF IInv
  <2>2. CASE UNCHANGED vars
    BY <2>2, StutterInv
  <2> QED BY <2>1, <2>2
<1> QED BY <1>1, <1>2, PTL DEF Spec

(* Whatever sessions interleave, the state is well typed; in particular    *)
(* the stock of no warehouse (decreaseItemWarehouseStock) goes below zero. *)
THEOREM TypeCorrect == Spec => []TypeOK
<1>1. IInv => TypeOK
  BY DEF IInv
<1> QED BY <1>1, StockInvariant, PTL

(* Whatever edits, finalizes and voids of a document overlap, a final      *)
(* document has moved exactly its own lines on its own day, and a document *)
(* that is not final has no rows (finalizeDocument, deleteDocument).       *)
THEOREM FinalDocumentsArePosted == Spec => []FinalIsPosted
<1>1. IInv => FinalIsPosted
  BY DEF IInv
<1> QED BY <1>1, StockInvariant, PTL

-----------------------------------------------------------------------------
(* A document posts once. *)

OncePosted ==
    \A d \in Docs :
        /\ kardex[d].id # 0 => kardex'[d] \in {kardex[d], NoRows}
        /\ doc[d].status = "final" => doc'[d] \in {doc[d], Voided}
        /\ doc[d].status = "void" => doc'[d] = doc[d] /\ kardex'[d] = NoRows

(* No step posts a document a second time, or revives a void one. *)
LEMMA OnceStep ==
    ASSUME StockAssumption, IInv, Next
    PROVE  OncePosted
<1>1. TypeOK /\ SessionInv /\ FinalIsPosted
  BY DEF IInv
<1>2. \A d \in Docs : doc[d].status # "final" => kardex[d] = NoRows /\ kardex[d].id = 0
  BY <1>1 DEF FinalIsPosted, NoRows
<1>3. CASE doc' = doc /\ kardex' = kardex
  BY <1>2, <1>3 DEF OncePosted
<1>4. ASSUME NEW x \in Docs, doc[x].status \in {"absent", "draft", "proforma"},
             \A d \in Docs \ {x} : doc'[d] = doc[d] /\ kardex'[d] = kardex[d]
      PROVE  OncePosted
  BY <1>2, <1>4 DEF OncePosted
<1>5. ASSUME NEW s \in Sessions, InsertReturnDraft(s) PROVE OncePosted
  <2>1. session[s].doc \in Docs /\ doc[session[s].doc].status = "absent"
    BY <1>1, <1>5 DEF SessionInv, Own, InsertReturnDraft
  <2>2. \A d \in Docs \ {session[s].doc} : doc'[d] = doc[d] /\ kardex'[d] = kardex[d]
    BY <1>1, <1>5 DEF InsertReturnDraft, TypeOK
  <2> QED BY <1>4, <2>1, <2>2
<1>6. ASSUME NEW x \in Docs, CreateDraft(x) PROVE OncePosted
  <2>1. doc[x].status = "absent" /\ \A d \in Docs \ {x} : doc'[d] = doc[d] /\ kardex'[d] = kardex[d]
    BY <1>1, <1>6 DEF CreateDraft, Fresh, TypeOK
  <2> QED BY <1>4, <2>1
<1>7. ASSUME NEW x \in Docs, Edit(x) PROVE OncePosted
  <2>1. doc[x].status \in {"draft", "proforma"} /\ \A d \in Docs \ {x} : doc'[d] = doc[d] /\ kardex'[d] = kardex[d]
    BY <1>1, <1>7 DEF Edit, Editable, TypeOK
  <2> QED BY <1>4, <2>1
<1>8. ASSUME NEW s \in Sessions, Move(s) PROVE OncePosted
  <2>1. session[s].doc \in Docs /\ doc[session[s].doc].status \in {"absent", "draft", "proforma"}
    <3>1. session[s].op \in Ops /\ session[s].pc = "move"
      BY <1>1, <1>8 DEF TypeOK, SessionStates, Ops, Move
    <3> QED BY <1>1, <3>1 DEF SessionInv, Own, Ops, Editable
  <2>2. \A d \in Docs \ {session[s].doc} : doc'[d] = doc[d] /\ kardex'[d] = kardex[d]
    BY <1>1, <1>8 DEF Move, TypeOK
  <2> QED BY <1>4, <2>1, <2>2
<1>9. ASSUME NEW s \in Sessions, Void(s) PROVE OncePosted
  <2> DEFINE x == session[s].doc
  <2>1. x \in Docs /\ doc[x].status # "void"
    BY <1>1, <1>9 DEF SessionInv, Own, Live, Void
  <2>2. doc' = [doc EXCEPT ![x] = Voided] /\ kardex' = [kardex EXCEPT ![x] = NoRows]
    BY <1>9 DEF Void
  <2> HIDE DEF x
  <2>3. doc'[x] = Voided /\ kardex'[x] = NoRows
    BY <1>1, <2>1, <2>2 DEF TypeOK
  <2>4. \A d \in Docs \ {x} : doc'[d] = doc[d] /\ kardex'[d] = kardex[d]
    BY <1>1, <2>2 DEF TypeOK
  <2> QED BY <1>2, <2>1, <2>3, <2>4 DEF OncePosted
<1>10. ASSUME NEW s \in Sessions, SessionStep(s), ~InsertReturnDraft(s), ~Move(s), ~Void(s)
       PROVE  doc' = doc /\ kardex' = kardex
  BY <1>10
  DEF SessionStep, PeekFinalize, PeekVoid, BeginFinal, BeginReturnDraft, LockItem, Checked, LockFinalize, LockVoid,
      LockMissing, CheckOutflow, CheckReturn, RollBack
<1> QED BY <1>3, <1>5, <1>6, <1>7, <1>8, <1>9, <1>10 DEF Next

(* What a document posted stays as it is until its void, and a void        *)
(* document never posts again (the re-reads of finalizeDocument and        *)
(* deleteDocument under the row lock).                                     *)
THEOREM DocumentsPostOnce == Spec => PostedOnce
<1>1. IInv /\ [Next]_vars => [OncePosted]_vars
  BY StockAssumption, OnceStep
<1>2. Spec => [][OncePosted]_vars
  BY <1>1, StockInvariant, PTL DEF Spec
<1> QED BY <1>2 DEF PostedOnce, OncePosted

-----------------------------------------------------------------------------
(* The gate.  What moves is locked: from its gate on, a session holds the  *)
(* items it will move (but for those an edit brought in after its peek),   *)
(* and only who holds an item changes its stock.                           *)

Moving(s) ==
    IF session[s].op = "void" THEN ItemsOf(kardex[session[s].doc].lines) ELSE ItemsOf(session[s].lines)

HoldsItems(s) ==
    /\ session[s].pc \in {"check", "move"} => Moving(s) \subseteq HeldItems(s) \cup session[s].missing
    /\ session[s].pc = "items" /\ session[s].op = "create" =>
           ItemsOf(session[s].lines) \subseteq HeldItems(s) \cup session[s].todo

Gate(s) ==
    session[s].pc = "move" /\ Outgoing(session[s].doc) =>
        \A i \in Items \ session[s].missing, w \in Warehouses :
            WithinSellable(session[s].lines, i, w, gateSaw[s][i])

GateInv == \A s \in Sessions : HoldsItems(s) /\ Gate(s)

(* What a step of another actor leaves to a session that moves stock. *)
Steady(s) ==
    /\ session'[s] = session[s] /\ gateSaw'[s] = gateSaw[s]
    /\ HeldItems(s) \subseteq HeldItems(s)'
    /\ session[s].pc \in {"check", "move"} => kardex'[session[s].doc] = kardex[session[s].doc]
    /\ \A i \in HeldItems(s) : stock'[i] = stock[i]


(* A session left steady keeps its items and what its gate concluded. *)
LEMMA SteadyKeeps ==
    ASSUME TypeOK, NEW s \in Sessions, Own(s), HoldsItems(s), Gate(s), Steady(s)
    PROVE  HoldsItems(s)' /\ Gate(s)'
<1>1. session[s].lines \in Quantities
  BY LinesType, SessionFields, StockAssumption DEF TypeOK
<1>2. HoldsItems(s)'
  BY DEF HoldsItems, Steady, Moving
<1>3. ASSUME session[s].pc = "move", Outgoing(session[s].doc),
             NEW i \in Items \ session[s].missing, NEW w \in Warehouses
      PROVE  WithinSellable(session[s].lines, i, w, gateSaw[s][i])'
  <2>1. WithinSellable(session[s].lines, i, w, gateSaw[s][i])
    BY <1>3 DEF Gate
  <2>2. CASE session[s].lines[i][w] > 0
    <3>1. i \in ItemsOf(session[s].lines)
      BY <2>2 DEF ItemsOf
    <3>2. session[s].op # "void"
      BY <1>3 DEF Own
    <3>3. i \in HeldItems(s)
      BY <1>3, <3>1, <3>2 DEF HoldsItems, Moving
    <3>4. stock'[i] = stock[i]
      BY <3>3 DEF Steady
    <3> QED BY <2>1, <3>4 DEF WithinSellable, Total, Steady
  <2>3. CASE ~(session[s].lines[i][w] > 0)
    BY <2>3 DEF WithinSellable, Steady
  <2> QED BY <2>2, <2>3
<1>4. Gate(s)'
  BY <1>3 DEF Gate, Steady, Outgoing
<1> QED BY <1>2, <1>4

(* Stock moves only for the items of its lines. *)
LEMMA OtherStock ==
    ASSUME stock \in Quantities, NEW lines \in Quantities, stock' \in {Add(lines), Subtract(lines)},
           NEW i \in Items, i \notin ItemsOf(lines)
    PROVE  stock'[i] = stock[i]
<1>1. \A w \in Warehouses : lines[i][w] \in Nat /\ ~(lines[i][w] > 0) /\ stock[i][w] \in Nat
  BY DEF Quantities, ItemsOf
<1>2. \A w \in Warehouses : stock[i][w] + lines[i][w] = stock[i][w] /\ stock[i][w] - lines[i][w] = stock[i][w]
  BY <1>1
<1>3. stock'[i] = [w \in Warehouses |-> stock[i][w]]
  <2>1. CASE stock' = Add(lines)
    BY <1>2, <2>1 DEF Add
  <2>2. CASE stock' = Subtract(lines)
    BY <1>2, <2>2 DEF Subtract
  <2> QED BY <2>1, <2>2
<1>4. stock[i] \in [Warehouses -> Nat]
  BY DEF Quantities
<1> QED BY <1>3, <1>4

(* Every step keeps the items that are held and what the gates concluded. *)
LEMMA GateStep ==
    ASSUME StockAssumption, IInv, GateInv, Next
    PROVE  GateInv'
<1>1. TypeOK /\ SessionInv
  BY DEF IInv
<1>2. ASSUME NEW s \in Sessions PROVE Own(s) /\ HoldsItems(s) /\ Gate(s)
  BY <1>1 DEF SessionInv, GateInv
<1>3. ASSUME NEW s \in Sessions, Steady(s) PROVE HoldsItems(s)' /\ Gate(s)'
  BY <1>1, <1>2, <1>3, SteadyKeeps
<1>4. NoSession \notin Sessions
  BY DEF StockAssumption
<1>5. ASSUME NEW s \in Sessions, NEW me, session' = [session EXCEPT ![s] = me],
             \A i \in Items : itemLock'[i] # itemLock[i] => itemLock[i] = NoSession,
             kardex' = kardex, stock' = stock,
             \A t \in Sessions \ {s} : gateSaw'[t] = gateSaw[t],
             HoldsItems(s)', Gate(s)'
      PROVE  GateInv'
  <2>1. ASSUME NEW t \in Sessions \ {s} PROVE HoldsItems(t)' /\ Gate(t)'
    <3>1. session'[t] = session[t] /\ gateSaw'[t] = gateSaw[t]
      BY <1>1, <1>5 DEF TypeOK
    <3>2. HeldItems(t) \subseteq HeldItems(t)'
      BY <1>4, <1>5 DEF HeldItems
    <3>3. Steady(t)
      BY <1>5, <3>1, <3>2 DEF Steady
    <3> QED BY <1>3, <3>3
  <2> QED BY <1>5, <2>1 DEF GateInv
<1>6. ASSUME NEW s \in Sessions, Release(s),
             \A t \in Sessions \ {s} : Working(t) => kardex'[session[t].doc] = kardex[session[t].doc],
             \A i \in Items \ HeldItems(s) : stock'[i] = stock[i]
      PROVE  GateInv'
  <2>1. session'[s] = Idle
    BY <1>1, <1>6 DEF Release, TypeOK
  <2>2. HoldsItems(s)' /\ Gate(s)'
    BY <2>1 DEF HoldsItems, Gate, Idle
  <2>3. ASSUME NEW t \in Sessions \ {s} PROVE HoldsItems(t)' /\ Gate(t)'
    <3>1. session'[t] = session[t] /\ gateSaw'[t] = gateSaw[t]
      BY <1>1, <1>6 DEF Release, TypeOK
    <3>2. HeldItems(t) \subseteq HeldItems(t)'
      BY <1>6 DEF Release, HeldItems
    <3>3. HeldItems(t) \subseteq Items \ HeldItems(s)
      BY DEF HeldItems
    <3>4. Steady(t)
      BY <1>6, <3>1, <3>2, <3>3 DEF Steady, Working
    <3> QED BY <1>3, <3>4
  <2> QED BY <2>2, <2>3 DEF GateInv
<1>7. ASSUME session' = session, gateSaw' = gateSaw, kardex' = kardex, stock' = stock,
             \A i \in Items : itemLock'[i] # itemLock[i] => itemLock[i] = NoSession
      PROVE  GateInv'
  <2>1. ASSUME NEW s \in Sessions PROVE Steady(s)
    BY <1>4, <1>7 DEF Steady, HeldItems
  <2> QED BY <1>3, <2>1 DEF GateInv
<1>8. ASSUME NEW s \in Sessions, NEW me, session' = [session EXCEPT ![s] = me], me.pc \in {"items", "insert"},
             me.op = "create" /\ me.pc = "items" => ItemsOf(me.lines) \subseteq me.todo,
             kardex' = kardex, stock' = stock, itemLock' = itemLock, gateSaw' = gateSaw
      PROVE  GateInv'
  <2>1. session'[s] = me
    BY <1>1, <1>8 DEF TypeOK
  <2>2. HoldsItems(s)' /\ Gate(s)'
    BY <1>8, <2>1 DEF HoldsItems, Gate
  <2> QED BY <1>5, <1>8, <2>2
<1>9. ASSUME NEW s \in Sessions, NEW d \in Docs, PeekFinalize(s, d) PROVE GateInv'
  <2> DEFINE me == [Idle EXCEPT !.pc = "items", !.op = "finalize", !.doc = d, !.todo = ItemsOf(doc[d].lines)]
  <2>1. session' = [session EXCEPT ![s] = me]
    BY <1>9 DEF PeekFinalize, Begin
  <2>2. me.pc = "items" /\ me.op = "finalize"
    BY DEF Idle
  <2> HIDE DEF me
  <2> QED BY <1>8, <1>9, <2>1, <2>2 DEF PeekFinalize
<1>10. ASSUME NEW s \in Sessions, NEW d \in Docs, PeekVoid(s, d) PROVE GateInv'
  <2> DEFINE me == [Idle EXCEPT !.pc = "items", !.op = "void", !.doc = d,
                                !.todo = ItemsOf(doc[d].lines) \cup ItemsOf(kardex[d].lines)]
  <2>1. session' = [session EXCEPT ![s] = me]
    BY <1>10 DEF PeekVoid, Begin
  <2>2. me.pc = "items" /\ me.op = "void"
    BY DEF Idle
  <2> HIDE DEF me
  <2> QED BY <1>8, <1>10, <2>1, <2>2 DEF PeekVoid
<1>11. ASSUME NEW s \in Sessions, NEW d \in Docs, BeginFinal(s, d) PROVE GateInv'
  <2>1. PICK e \in Entries[d] :
            session' = [session EXCEPT ![s] = [pc |-> "items", op |-> "create", doc |-> d, todo |-> ItemsOf(e.lines),
                                               missing |-> {}, lines |-> e.lines, day |-> e.day]]
    BY <1>11 DEF BeginFinal
  <2> DEFINE me == [pc |-> "items", op |-> "create", doc |-> d, todo |-> ItemsOf(e.lines),
                    missing |-> {}, lines |-> e.lines, day |-> e.day]
  <2>2. me.pc = "items" /\ ItemsOf(me.lines) \subseteq me.todo /\ session' = [session EXCEPT ![s] = me]
    BY <2>1
  <2> HIDE DEF me
  <2> QED BY <1>8, <1>11, <2>2 DEF BeginFinal
<1>12. ASSUME NEW s \in Sessions, NEW d \in Docs, BeginReturnDraft(s, d) PROVE GateInv'
  <2>1. PICK e \in Entries[d] :
            session' = [session EXCEPT ![s] = [Idle EXCEPT !.pc = "insert", !.op = "create", !.doc = d,
                                                           !.lines = e.lines, !.day = e.day]]
    BY <1>12 DEF BeginReturnDraft
  <2> DEFINE me == [Idle EXCEPT !.pc = "insert", !.op = "create", !.doc = d, !.lines = e.lines, !.day = e.day]
  <2>2. me.pc = "insert" /\ session' = [session EXCEPT ![s] = me]
    BY <2>1 DEF Idle
  <2> HIDE DEF me
  <2> QED BY <1>8, <1>12, <2>2 DEF BeginReturnDraft
<1>13. ASSUME NEW s \in Sessions, LockItem(s) PROVE GateInv'
  <2> DEFINE i == Min(session[s].todo)
             me == [session[s] EXCEPT !.todo = @ \ {i}]
  <2>1. session' = [session EXCEPT ![s] = me] /\ itemLock[i] = NoSession /\ itemLock' = [itemLock EXCEPT ![i] = s]
    BY <1>13 DEF LockItem
  <2>2. me.pc = "items" /\ me.op = session[s].op /\ me.lines = session[s].lines
        /\ me.todo = session[s].todo \ {i} /\ session[s].pc = "items" /\ session[s].todo \subseteq Items
    BY <1>1, <1>13 DEF LockItem, TypeOK, SessionStates
  <2> HIDE DEF me, i
  <2>3. session'[s] = me /\ \A j \in Items : itemLock'[j] = IF j = i THEN s ELSE itemLock[j]
    BY <1>1, <2>1 DEF TypeOK
  <2>4. HoldsItems(s)' /\ Gate(s)'
    BY <1>2, <2>2, <2>3 DEF HoldsItems, Gate, HeldItems
  <2>5. \A j \in Items : itemLock'[j] # itemLock[j] => itemLock[j] = NoSession
    BY <2>1, <2>3
  <2> QED BY <1>5, <1>13, <2>1, <2>4, <2>5 DEF LockItem
<1>14. ASSUME NEW s \in Sessions, Checked(s) PROVE GateInv'
  <2> DEFINE me == [session[s] EXCEPT !.pc = AfterItems(session[s].doc)]
  <2>1. session' = [session EXCEPT ![s] = me]
    BY <1>14 DEF Checked
  <2>2. /\ me.pc = AfterItems(me.doc) /\ me.op = "create" /\ me.lines = session[s].lines
        /\ session[s].pc = "items" /\ session[s].op = "create" /\ session[s].todo = {}
    BY <1>1, <1>14 DEF Checked, TypeOK, SessionStates
  <2> HIDE DEF me
  <2>3. session'[s] = me
    BY <1>1, <2>1 DEF TypeOK
  <2>4. Gate(s)'
    BY <2>2, <2>3 DEF Gate, AfterItems, Outgoing
  <2>5. HoldsItems(s)'
    <3>1. ItemsOf(me.lines) \subseteq HeldItems(s)
      BY <1>2, <2>2 DEF HoldsItems
    <3>2. HeldItems(s)' = HeldItems(s)
      BY <1>14 DEF Checked, HeldItems
    <3> QED BY <2>2, <2>3, <3>1, <3>2 DEF HoldsItems, Moving, AfterItems
  <2> QED BY <1>5, <1>14, <2>1, <2>4, <2>5 DEF Checked
<1>15. ASSUME NEW s \in Sessions, LockFinalize(s) PROVE GateInv'
  <2> DEFINE d == session[s].doc
             day == IF Kind[d] = "invoice" /\ doc[d].status = "proforma" THEN Today ELSE doc[d].day
             me == [session[s] EXCEPT !.pc = AfterItems(d), !.lines = doc[d].lines, !.day = day,
                                      !.missing = ItemsOf(doc[d].lines) \ HeldItems(s)]
  <2>1. session' = [session EXCEPT ![s] = me]
    BY <1>15 DEF LockFinalize
  <2>2. /\ me.pc = AfterItems(me.doc) /\ me.op = "finalize"
        /\ me.missing = ItemsOf(me.lines) \ HeldItems(s)
    BY <1>1, <1>15 DEF LockFinalize, TypeOK, SessionStates
  <2> HIDE DEF me
  <2>3. session'[s] = me
    BY <1>1, <2>1 DEF TypeOK
  <2>4. Gate(s)'
    BY <2>2, <2>3 DEF Gate, AfterItems, Outgoing
  <2>5. HeldItems(s)' = HeldItems(s)
    BY <1>15 DEF LockFinalize, HeldItems
  <2>6. HoldsItems(s)'
    BY <2>2, <2>3, <2>5 DEF HoldsItems, Moving, AfterItems
  <2> QED BY <1>5, <1>15, <2>1, <2>4, <2>6 DEF LockFinalize
<1>16. ASSUME NEW s \in Sessions, LockVoid(s) PROVE GateInv'
  <2> DEFINE me == [session[s] EXCEPT !.pc = "check", !.missing = ItemsOf(kardex[session[s].doc].lines) \ HeldItems(s)]
  <2>1. session' = [session EXCEPT ![s] = me]
    BY <1>16 DEF LockVoid
  <2>2. /\ me.pc = "check" /\ me.op = "void"
        /\ me.missing = ItemsOf(kardex[me.doc].lines) \ HeldItems(s)
    BY <1>1, <1>16 DEF LockVoid, TypeOK, SessionStates
  <2> HIDE DEF me
  <2>3. session'[s] = me
    BY <1>1, <2>1 DEF TypeOK
  <2>4. HeldItems(s)' = HeldItems(s) /\ kardex' = kardex
    BY <1>16 DEF LockVoid, HeldItems
  <2>5. HoldsItems(s)' /\ Gate(s)'
    BY <2>2, <2>3, <2>4 DEF HoldsItems, Moving, Gate
  <2> QED BY <1>5, <1>16, <2>1, <2>5 DEF LockVoid
<1>17. ASSUME NEW s \in Sessions, LockMissing(s) PROVE GateInv'
  <2>1. \A i \in Items : itemLock'[i] # itemLock[i] => itemLock[i] = NoSession
    BY <1>1, <1>17 DEF LockMissing, TypeOK
  <2> QED BY <1>7, <1>17, <2>1 DEF LockMissing
<1>18. ASSUME NEW s \in Sessions, NEW me, me = [session[s] EXCEPT !.pc = "move"],
              session' = [session EXCEPT ![s] = me], session[s].pc = "check", session[s].op # "void",
              itemLock' = itemLock, kardex' = kardex
       PROVE  /\ session'[s] = me /\ me.pc = "move" /\ me.lines = session[s].lines
              /\ me.doc = session[s].doc /\ me.missing = session[s].missing
              /\ HoldsItems(s)'
  <2>1. /\ session'[s] = me /\ me.pc = "move" /\ me.lines = session[s].lines /\ me.op = session[s].op
        /\ me.doc = session[s].doc /\ me.missing = session[s].missing
    BY <1>1, <1>18 DEF TypeOK, SessionStates
  <2>2. HeldItems(s)' = HeldItems(s)
    BY <1>18 DEF HeldItems
  <2>3. HoldsItems(s)
    BY <1>2
  <2>4. HoldsItems(s)'
    BY <1>18, <2>1, <2>2, <2>3 DEF HoldsItems, Moving
  <2> QED BY <2>1, <2>4
<1>19. ASSUME NEW s \in Sessions, CheckOutflow(s) PROVE GateInv'
  <2> DEFINE me == [session[s] EXCEPT !.pc = "move"]
             saw == [i \in Items |-> ReservedByOthers(session[s].doc, i)]
  <2>1. /\ session' = [session EXCEPT ![s] = me] /\ session[s].pc = "check" /\ session[s].op # "void"
        /\ itemLock' = itemLock /\ kardex' = kardex /\ stock' = stock /\ gateSaw' = [gateSaw EXCEPT ![s] = saw]
    BY <1>19 DEF CheckOutflow
  <2>2. /\ session'[s] = me /\ me.lines = session[s].lines
        /\ me.doc = session[s].doc /\ me.missing = session[s].missing
        /\ HoldsItems(s)'
    BY <1>18, <2>1
  <2>3. gateSaw'[s] = saw /\ \A t \in Sessions \ {s} : gateSaw'[t] = gateSaw[t]
    BY <1>1, <2>1 DEF TypeOK
  <2>4. Gate(s)'
    <3>1. \A i \in Items, w \in Warehouses :
              WithinSellable(session[s].lines, i, w, ReservedByOthers(session[s].doc, i))
      BY <1>19 DEF CheckOutflow
    <3>2. \A i \in Items, w \in Warehouses : WithinSellable(session[s].lines, i, w, saw[i])
      BY <3>1
    <3> HIDE DEF me, saw
    <3> QED BY <2>1, <2>2, <2>3, <3>2 DEF Gate, WithinSellable, Total
  <2> HIDE DEF me, saw
  <2> QED BY <1>5, <2>1, <2>2, <2>3, <2>4
<1>20. ASSUME NEW s \in Sessions, CheckReturn(s) PROVE GateInv'
  <2> DEFINE me == [session[s] EXCEPT !.pc = "move"]
  <2>1. /\ session' = [session EXCEPT ![s] = me] /\ session[s].pc = "check" /\ session[s].op # "void"
        /\ itemLock' = itemLock /\ kardex' = kardex /\ stock' = stock /\ gateSaw' = gateSaw
        /\ Returning(session[s].doc)
    BY <1>20 DEF CheckReturn
  <2>2. session'[s] = me /\ me.doc = session[s].doc /\ HoldsItems(s)'
    BY <1>18, <2>1
  <2> HIDE DEF me
  <2>3. Gate(s)'
    BY <2>1, <2>2 DEF Gate, Returning, Outgoing
  <2> QED BY <1>5, <2>1, <2>2, <2>3
<1>21. ASSUME NEW s \in Sessions, NEW lines \in Quantities, Working(s), Release(s),
              ItemsOf(lines) \subseteq HeldItems(s), stock' \in {stock, Add(lines), Subtract(lines)},
              \A d \in Docs \ {session[s].doc} : kardex'[d] = kardex[d]
       PROVE  GateInv'
  <2>1. \A i \in Items \ HeldItems(s) : stock'[i] = stock[i]
    BY <1>1, <1>21, OtherStock DEF TypeOK
  <2>2. ASSUME NEW t \in Sessions \ {s}, Working(t) PROVE kardex'[session[t].doc] = kardex[session[t].doc]
    <3>1. session[t].doc # session[s].doc
      BY <1>1, <1>21, <2>2, Alone
    <3>2. session[t].doc \in Docs
      BY <1>2, <2>2 DEF Own, Working
    <3> QED BY <1>21, <3>1, <3>2
  <2> QED BY <1>6, <1>21, <2>1, <2>2
<1>22. ASSUME NEW s \in Sessions, Move(s) PROVE GateInv'
  <2>1. session[s].lines \in Quantities
    BY <1>1, SessionFields, LinesType DEF TypeOK
  <2>2. ItemsOf(session[s].lines) \subseteq HeldItems(s)
    BY <1>2, <1>22 DEF Move, Own, HoldsItems, Moving, Unheld
  <2>3. Working(s) /\ \A d \in Docs \ {session[s].doc} : kardex'[d] = kardex[d]
    BY <1>1, <1>22 DEF Move, Working, TypeOK
  <2> QED BY <1>21, <1>22, <2>1, <2>2, <2>3 DEF Move
<1>23. ASSUME NEW s \in Sessions, Void(s) PROVE GateInv'
  <2> DEFINE lines == kardex[session[s].doc].lines
  <2>1. session[s].doc \in Docs
    BY <1>2, <1>23 DEF Own, Void
  <2>2. lines \in Quantities
    BY <1>1, <2>1, LinesType DEF TypeOK
  <2>3. ItemsOf(lines) \subseteq HeldItems(s)
    BY <1>2, <1>23 DEF Void, HoldsItems, Moving, Unheld
  <2>4. Working(s) /\ \A d \in Docs \ {session[s].doc} : kardex'[d] = kardex[d]
    BY <1>1, <1>23 DEF Void, Working, TypeOK
  <2>5. stock' \in {stock, Add(lines), Subtract(lines)} /\ Release(s)
    BY <1>23 DEF Void
  <2> HIDE DEF lines
  <2> QED BY <1>21, <2>2, <2>3, <2>4, <2>5
<1>24. ASSUME NEW s \in Sessions, Release(s), kardex' = kardex, stock' = stock PROVE GateInv'
  BY <1>6, <1>24
<1>25. ASSUME NEW s \in Sessions, InsertReturnDraft(s) PROVE GateInv'
  BY <1>24, <1>25 DEF InsertReturnDraft
<1>26. ASSUME NEW s \in Sessions, RollBack(s) PROVE GateInv'
  BY <1>24, <1>26 DEF RollBack
<1>27. ASSUME NEW d \in Docs, CreateDraft(d) \/ Edit(d) PROVE GateInv'
  BY <1>7, <1>27 DEF CreateDraft, Edit
<1> QED
  BY <1>9, <1>10, <1>11, <1>12, <1>13, <1>14, <1>15, <1>16, <1>17, <1>19, <1>20, <1>22, <1>23, <1>25, <1>26, <1>27
  DEF Next, SessionStep

(* What the gate concluded for an item the session had locked by then      *)
(* (assertOutflowWithinSellable) is still so when the stock moves, however *)
(* many sessions commit in between: the item locks are enough.             *)
THEOREM GateHolds == Spec => []GateStillTrue
<1>1. Init => GateInv
  BY StockAssumption DEF Init, GateInv, HoldsItems, Gate, Idle
<1>2. IInv /\ GateInv /\ [Next]_vars => GateInv'
  <2>1. ASSUME GateInv, UNCHANGED vars PROVE GateInv'
    BY <2>1 DEF GateInv, HoldsItems, Gate, Moving, HeldItems, WithinSellable, Total, vars
  <2> QED BY <2>1, StockAssumption, GateStep
<1>3. GateInv => GateStillTrue
  BY DEF GateInv, Gate, GateStillTrue
<1> QED BY <1>1, <1>2, <1>3, StockInvariant, PTL DEF Spec

-----------------------------------------------------------------------------
(* The ledger.  Balances are sums over the rows of the Kardex, written     *)
(* here for any Kardex k, so that the rows before and after a step can be  *)
(* compared.                                                               *)

Kardexes == [Docs -> [id : Nat, day : 0..Today, lines : AnyLines]]
Moves(k, i, w) == [e \in Docs |-> IF Outgoing(e) THEN 0 - k[e].lines[i][w] ELSE k[e].lines[i][w]]
BalanceIn(k, ds, i, w) == Opening[i][w] + SumFunctionOnSet(Moves(k, i, w), ds)
PostedIn(k) == {d \in Docs : k[d].id # 0}
Cut(k, day, id) == {e \in PostedIn(k) : k[e].day < day \/ (k[e].day = day /\ k[e].id <= id)}

(* However far the ledger is read, nothing is below zero. *)
NeverBelowZero(k) ==
    \A day \in Nat, id \in Nat, i \in Items, w \in Warehouses : BalanceIn(k, Cut(k, day, id), i, w) >= 0

LedgerInv == StockIsLedger /\ NeverBelowZero(kardex)

(* A member of Quantities counts every item of every warehouse.           *)
LEMMA QuantityType ==
    ASSUME NEW q \in Quantities
    PROVE  \A i \in Items, w \in Warehouses : q[i][w] \in Nat
BY DEF Quantities

(* Every line moves a whole number of units. *)
LEMMA MovesType ==
    ASSUME StockAssumption, NEW k \in Kardexes, NEW i \in Items, NEW w \in Warehouses
    PROVE  /\ Opening[i][w] \in Nat
           /\ \A e \in Docs : k[e].lines[i][w] \in Nat /\ Moves(k, i, w)[e] \in Int
<1>1. AnyLines \subseteq Quantities /\ Opening \in Quantities
  BY LinesType DEF StockAssumption
<1>2. ASSUME NEW e \in Docs PROVE k[e].lines[i][w] \in Nat /\ Moves(k, i, w)[e] \in Int
  <2>1. k[e].lines \in AnyLines
    BY DEF Kardexes
  <2>2. k[e].lines \in Quantities
    BY <1>1, <2>1
  <2>3. k[e].lines[i][w] \in Nat
    BY <2>2 DEF Quantities
  <2>4. Moves(k, i, w)[e] = IF Outgoing(e) THEN 0 - k[e].lines[i][w] ELSE k[e].lines[i][w]
    BY DEF Moves
  <2> HIDE DEF Moves
  <2> QED BY <2>3, <2>4
<1> QED BY <1>1, <1>2 DEF Quantities

(* The balance is a number, and a row adds what it moves. *)
LEMMA BalanceOfMore ==
    ASSUME StockAssumption, NEW k \in Kardexes, NEW i \in Items, NEW w \in Warehouses,
           NEW ds \in SUBSET Docs
    PROVE  /\ BalanceIn(k, ds, i, w) \in Int
           /\ \A d \in Docs \ ds : BalanceIn(k, ds \cup {d}, i, w) = BalanceIn(k, ds, i, w) + Moves(k, i, w)[d]
<1> DEFINE F == Moves(k, i, w)
<1>1. IsFiniteSet(ds)
  BY FS_Subset DEF StockAssumption
<1>2. Opening[i][w] \in Nat /\ \A e \in Docs : F[e] \in Int
  BY MovesType
<1> HIDE DEF F
<1>3. SumFunctionOnSet(F, ds) \in Int
  BY <1>1, <1>2, SumType
<1>4. ASSUME NEW d \in Docs \ ds
      PROVE  SumFunctionOnSet(F, ds \cup {d}) = F[d] + SumFunctionOnSet(F, ds)
  BY <1>1, <1>2, SumOfMore
<1>5. \A x, y, z \in Int : x + (y + z) = (x + z) + y
  OBVIOUS
<1>6. BalanceIn(k, ds, i, w) = Opening[i][w] + SumFunctionOnSet(F, ds)
  BY DEF BalanceIn, F
<1>7. BalanceIn(k, ds, i, w) \in Int
  BY <1>2, <1>3, <1>6
<1>8. ASSUME NEW d \in Docs \ ds
      PROVE  BalanceIn(k, ds \cup {d}, i, w) = BalanceIn(k, ds, i, w) + F[d]
  <2>1. BalanceIn(k, ds \cup {d}, i, w) = Opening[i][w] + SumFunctionOnSet(F, ds \cup {d})
    BY DEF BalanceIn, F
  <2>2. F[d] \in Int
    BY <1>2
  <2> QED BY <1>2, <1>3, <1>4, <1>6, <2>1, <2>2
<1> QED BY <1>7, <1>8 DEF F

(* Ledgers that agree on some rows agree on their balance. *)
LEMMA BalanceSame ==
    ASSUME StockAssumption, NEW k \in Kardexes, NEW m \in Kardexes, NEW i \in Items, NEW w \in Warehouses,
           NEW ds \in SUBSET Docs, \A e \in ds : k[e] = m[e]
    PROVE  BalanceIn(k, ds, i, w) = BalanceIn(m, ds, i, w)
<1> DEFINE F == Moves(k, i, w)
           G == Moves(m, i, w)
<1>1. IsFiniteSet(ds)
  BY FS_Subset DEF StockAssumption
<1>2. \A e \in ds : F[e] = G[e]
  BY DEF Moves
<1>3. BalanceIn(k, ds, i, w) = Opening[i][w] + SumFunctionOnSet(F, ds)
      /\ BalanceIn(m, ds, i, w) = Opening[i][w] + SumFunctionOnSet(G, ds)
  BY DEF BalanceIn
<1> HIDE DEF F, G
<1>4. SumFunctionOnSet(F, ds) = SumFunctionOnSet(G, ds)
  BY <1>1, <1>2, SumSame
<1> QED BY <1>3, <1>4

(* Rows that move nothing here may be left out. *)
LEMMA BalanceWithout ==
    ASSUME StockAssumption, NEW k \in Kardexes, NEW i \in Items, NEW w \in Warehouses,
           NEW ds \in SUBSET Docs, NEW es \in SUBSET ds, \A e \in ds \ es : i \notin ItemsOf(k[e].lines)
    PROVE  BalanceIn(k, ds, i, w) = BalanceIn(k, es, i, w)
<1> DEFINE F == Moves(k, i, w)
<1>1. IsFiniteSet(ds)
  BY FS_Subset DEF StockAssumption
<1>2. \A e \in Docs : k[e].lines[i][w] \in Nat /\ F[e] \in Int
  BY MovesType
<1>3. ASSUME NEW e \in ds \ es PROVE F[e] = 0
  <2>1. k[e].lines[i][w] \in Nat /\ ~ (k[e].lines[i][w] > 0)
    BY <1>2 DEF ItemsOf
  <2>2. k[e].lines[i][w] = 0
    BY <2>1
  <2> QED BY <2>2 DEF Moves
<1>4. BalanceIn(k, ds, i, w) = Opening[i][w] + SumFunctionOnSet(F, ds)
      /\ BalanceIn(k, es, i, w) = Opening[i][w] + SumFunctionOnSet(F, es)
  BY DEF BalanceIn
<1> HIDE DEF F
<1>5. SumFunctionOnSet(F, ds) = SumFunctionOnSet(F, es)
  BY <1>1, <1>2, <1>3, SumWithout
<1> QED BY <1>4, <1>5

(* Of some rows one is last, in the order in which the ledger is read. *)
LEMMA LastRow ==
    ASSUME StockAssumption, NEW k \in Kardexes, NEW ds \in SUBSET Docs, ds # {}
    PROVE  \E e \in ds : \A f \in ds : k[f].day < k[e].day \/ (k[f].day = k[e].day /\ k[f].id <= k[e].id)
<1> DEFINE day == [e \in ds |-> k[e].day]
<1>0. Today \in Nat
  BY DEF StockAssumption
<1>1. IsFiniteSet(ds)
  BY FS_Subset DEF StockAssumption
<1>2. \A e \in Docs : k[e].day \in Nat /\ k[e].id \in Nat
  BY <1>0 DEF Kardexes
<1>3. day \in [ds -> Int]
  BY <1>2
<1>4. PICK m \in ds : \A f \in ds : day[f] <= day[m]
  <2> HIDE DEF day
  <2> QED BY <1>1, <1>3, LastOfSet
<1> DEFINE es == {e \in ds : k[e].day = k[m].day}
           id == [e \in es |-> k[e].id]
<1>5. IsFiniteSet(es) /\ es # {}
  BY <1>1, FS_Subset
<1>6. id \in [es -> Int]
  BY <1>2
<1>7. PICK e \in es : \A f \in es : id[f] <= id[e]
  <2> HIDE DEF es, id
  <2> QED BY <1>5, <1>6, LastOfSet
<1>8. ASSUME NEW f \in ds PROVE k[f].day < k[e].day \/ (k[f].day = k[e].day /\ k[f].id <= k[e].id)
  <2>1. k[f].day <= k[m].day /\ k[e].day = k[m].day /\ k[f].day \in Nat /\ k[m].day \in Nat
    BY <1>2, <1>4, <1>7
  <2>2. CASE k[f].day = k[m].day
    <3>1. f \in es
      BY <2>2
    <3>2. id[f] <= id[e]
      BY <1>7, <3>1
    <3> QED BY <2>1, <2>2, <3>1, <3>2
  <2>3. CASE k[f].day # k[m].day
    BY <2>1, <2>3
  <2> QED BY <2>2, <2>3
<1> QED BY <1>7, <1>8

(* The values of finitely many elements are finitely many. *)
LEMMA FiniteImage ==
    ASSUME NEW S, IsFiniteSet(S), NEW f, f = [x \in S |-> f[x]]
    PROVE  IsFiniteSet({f[x] : x \in S})
<1> DEFINE T == {f[x] : x \in S}
<1>1. f \in [S -> T] /\ \A y \in T : \E x \in S : f[x] = y
  OBVIOUS
<1>2. f \in Surjection(S, T)
  BY <1>1 DEF Surjection
<1> HIDE DEF T
<1>3. IsFiniteSet(T)
  BY <1>2, FS_Surjection
<1> QED BY <1>3 DEF T

(* The day of an item's last movement, and the least it has from a day on. *)
LEMMA DaysAndMinima ==
    ASSUME StockAssumption, kardex \in Kardexes, NEW i \in Items, NEW w \in Warehouses, NEW day \in Nat
    PROVE  /\ \A e \in PostedIn(kardex) : i \in ItemsOf(kardex[e].lines) => kardex[e].day <= LastDay(i)
           /\ LastDay(i) \in Nat
           /\ MinimumFromDay(i, w, day) \in Int
           /\ MinimumFromDay(i, w, day) <= BalanceIn(kardex, {e \in PostedIn(kardex) : kardex[e].day <= day}, i, w)
           /\ \A e \in PostedIn(kardex) : kardex[e].day > day =>
                  MinimumFromDay(i, w, day) <= BalanceIn(kardex, {f \in PostedIn(kardex) : UpTo(f, e)}, i, w)
<1>0. Today \in Nat /\ IsFiniteSet(Docs)
  BY DEF StockAssumption
<1>a. \A e \in Docs : kardex[e].day \in Nat
  BY <1>0 DEF Kardexes
<1>b. Posted = PostedIn(kardex) /\ Posted \in SUBSET Docs /\ IsFiniteSet(Posted)
  BY <1>0, FS_Subset DEF Posted, PostedIn
<1>1. (\A e \in PostedIn(kardex) : i \in ItemsOf(kardex[e].lines) => kardex[e].day <= LastDay(i)) /\ LastDay(i) \in Nat
  <2> DEFINE S == {e \in Posted : i \in ItemsOf(kardex[e].lines)}
             f == [d \in S |-> kardex[d].day]
             days == {f[d] : d \in S}
             all == {0} \cup days
  <2>1. IsFiniteSet(S)
    BY <1>b, FS_Subset
  <2>2. f = [d \in S |-> f[d]]
    OBVIOUS
  <2>3. IsFiniteSet(days)
    <3> HIDE DEF S, f
    <3> QED BY <2>1, <2>2, FiniteImage
  <2>4. IsFiniteSet(all)
    <3> HIDE DEF days
    <3> QED BY <2>3, FS_Singleton, FS_Union
  <2>5. all \in SUBSET Int /\ all \in SUBSET Nat /\ all # {} /\ \A d \in S : kardex[d].day \in all
    BY <1>a, <1>b
  <2>6. days = {kardex[d].day : d \in S}
    OBVIOUS
  <2>7. LastDay(i) = Max(all)
    BY <2>6 DEF LastDay
  <2> HIDE DEF all
  <2>8. Max(all) \in all /\ \A n \in all : n <= Max(all)
    BY <2>4, <2>5, MaxOfFinite
  <2>9. \A d \in S : kardex[d].day <= LastDay(i)
    BY <2>5, <2>7, <2>8
  <2> QED BY <1>b, <2>5, <2>7, <2>8, <2>9
<1>2. \A ds \in SUBSET Docs : Balance(ds, i, w) = BalanceIn(kardex, ds, i, w) /\ BalanceIn(kardex, ds, i, w) \in Int
  BY BalanceOfMore DEF Balance, BalanceIn, Moves, Signed
<1> DEFINE late == {f \in Posted : kardex[f].day > day}
           g == [e \in late |-> BalanceAt(Posted, e, i, w)]
           early == Balance({e \in Posted : kardex[e].day <= day}, i, w)
           least == {early} \cup {g[e] : e \in late}
<1>3. IsFiniteSet(least)
  <2>1. IsFiniteSet(late)
    BY <1>b, FS_Subset
  <2>2. g = [e \in late |-> g[e]]
    OBVIOUS
  <2>3. IsFiniteSet({g[e] : e \in late})
    <3> HIDE DEF late, g
    <3> QED BY <2>1, <2>2, FiniteImage
  <2> HIDE DEF g, late, early
  <2> QED BY <2>3, FS_Singleton, FS_Union
<1>4. early = BalanceIn(kardex, {e \in PostedIn(kardex) : kardex[e].day <= day}, i, w) /\ early \in Int
  <2>1. {e \in Posted : kardex[e].day <= day} \in SUBSET Docs
    BY <1>b
  <2> QED BY <1>2, <1>b, <2>1
<1>5. \A e \in late : g[e] = BalanceIn(kardex, {f \in PostedIn(kardex) : UpTo(f, e)}, i, w) /\ g[e] \in Int
  <2>1. ASSUME NEW e \in late
        PROVE  g[e] = BalanceIn(kardex, {f \in PostedIn(kardex) : UpTo(f, e)}, i, w) /\ g[e] \in Int
    <3>1. {f \in Posted : UpTo(f, e)} \in SUBSET Docs
      BY <1>b
    <3>2. g[e] = Balance({f \in Posted : UpTo(f, e)}, i, w)
      BY DEF BalanceAt
    <3> QED BY <1>2, <1>b, <3>1, <3>2
  <2> QED BY <2>1
<1>6. MinimumFromDay(i, w, day) = Min(least)
  <2>1. {g[e] : e \in late} = {BalanceAt(Posted, e, i, w) : e \in {f \in Posted : kardex[f].day > day}}
    OBVIOUS
  <2> QED BY <2>1 DEF MinimumFromDay
<1>7. early \in least /\ \A e \in late : g[e] \in least
  OBVIOUS
<1>8. least \in SUBSET Int /\ least # {}
  BY <1>4, <1>5
<1>9. \A e \in PostedIn(kardex) : kardex[e].day > day => e \in late
  BY <1>b
<1> HIDE DEF early, late, g, least
<1>10. Min(least) \in least /\ \A n \in least : Min(least) <= n
  BY <1>3, <1>8, MinOfFinite
<1>11. Min(least) \in Int
  BY <1>8, <1>10
<1>12. Min(least) <= early /\ \A e \in late : Min(least) <= g[e]
  BY <1>7, <1>10
<1>13. \A e \in PostedIn(kardex) : kardex[e].day > day =>
           Min(least) <= BalanceIn(kardex, {f \in PostedIn(kardex) : UpTo(f, e)}, i, w)
  BY <1>5, <1>9, <1>12
<1>14. Min(least) <= BalanceIn(kardex, {e \in PostedIn(kardex) : kardex[e].day <= day}, i, w)
  BY <1>4, <1>12
<1> QED BY <1>1, <1>6, <1>11, <1>13, <1>14

(* A row is late enough for a cut, or it is not in it. *)
InCut(row, day, id) == row.day < day \/ (row.day = day /\ row.id <= id)

(* What the lines of a document add to the ledger. *)
Sign(d, lines, i, w) == IF Outgoing(d) THEN 0 - lines[i][w] ELSE lines[i][w]

(* What a row that comes or goes does to balances and cuts. *)
SetsWithout(d) == SUBSET (Docs \ {d})
SameWithout(k, m, d) ==
    \A ds \in SetsWithout(d), i \in Items, w \in Warehouses : BalanceIn(m, ds, i, w) = BalanceIn(k, ds, i, w)
With(k, d, lines) ==
    \A ds \in SetsWithout(d), i \in Items, w \in Warehouses :
        BalanceIn(k, ds \cup {d}, i, w) = BalanceIn(k, ds, i, w) + Sign(d, lines, i, w)
CutsGain(k, m, d, row) ==
    \A day, id \in Nat :
        Cut(m, day, id) = IF InCut(row, day, id) THEN Cut(k, day, id) \cup {d} ELSE Cut(k, day, id)
CutsLose(k, m, d) == \A day, id \in Nat : Cut(m, day, id) = Cut(k, day, id) \ {d}

(* What a new row does to the ledger. *)
LEMMA RowAdded ==
    ASSUME StockAssumption, NEW k \in Kardexes, NEW d \in Docs, k[d].id = 0,
           NEW row \in [id : Nat, day : 0..Today, lines : AnyLines], row.id # 0,
           NEW m \in Kardexes, m[d] = row, \A e \in Docs \ {d} : k[e] = m[e]
    PROVE  /\ d \notin PostedIn(k) /\ PostedIn(m) = PostedIn(k) \cup {d}
           /\ CutsGain(k, m, d, row) /\ SameWithout(k, m, d) /\ With(m, d, row.lines)
<1>3. d \notin PostedIn(k) /\ PostedIn(m) = PostedIn(k) \cup {d}
  BY DEF PostedIn
<1>4. ASSUME NEW day \in Nat, NEW id \in Nat
      PROVE  Cut(m, day, id) = IF InCut(row, day, id) THEN Cut(k, day, id) \cup {d} ELSE Cut(k, day, id)
  BY <1>3 DEF Cut, InCut, PostedIn
<1>5. ASSUME NEW ds \in SetsWithout(d), NEW i \in Items, NEW w \in Warehouses
      PROVE  /\ BalanceIn(m, ds, i, w) = BalanceIn(k, ds, i, w)
             /\ BalanceIn(m, ds \cup {d}, i, w) = BalanceIn(m, ds, i, w) + Sign(d, row.lines, i, w)
  <2>1. ds \in SUBSET Docs /\ d \in Docs \ ds /\ \A e \in ds : k[e] = m[e]
    BY DEF SetsWithout
  <2>2. BalanceIn(k, ds, i, w) = BalanceIn(m, ds, i, w)
    BY <2>1, BalanceSame
  <2>3. BalanceIn(m, ds \cup {d}, i, w) = BalanceIn(m, ds, i, w) + Moves(m, i, w)[d]
    BY <2>1, BalanceOfMore
  <2>4. Moves(m, i, w)[d] = Sign(d, row.lines, i, w)
    BY DEF Moves, Sign
  <2> QED BY <2>2, <2>3, <2>4
<1>6. CutsGain(k, m, d, row)
  BY <1>4 DEF CutsGain
<1>7. SameWithout(k, m, d)
  <2>1. ASSUME NEW ds \in SetsWithout(d), NEW i \in Items, NEW w \in Warehouses
        PROVE  BalanceIn(m, ds, i, w) = BalanceIn(k, ds, i, w)
    BY <1>5
  <2> QED BY <2>1 DEF SameWithout
<1>8. With(m, d, row.lines)
  BY <1>5 DEF With
<1> QED BY <1>3, <1>6, <1>7, <1>8

(* A row that leaves takes away what it moved. *)
LEMMA RowGone ==
    ASSUME StockAssumption, NEW k \in Kardexes, NEW d \in Docs,
           NEW m \in Kardexes, m[d] = NoRows, \A e \in Docs \ {d} : k[e] = m[e]
    PROVE  /\ PostedIn(m) = PostedIn(k) \ {d}
           /\ CutsLose(k, m, d) /\ SameWithout(k, m, d) /\ With(k, d, k[d].lines)
<1>2. NoRows.id = 0
  BY DEF NoRows
<1>3. PostedIn(m) = PostedIn(k) \ {d}
  BY <1>2 DEF PostedIn
<1>4. ASSUME NEW day \in Nat, NEW id \in Nat PROVE Cut(m, day, id) = Cut(k, day, id) \ {d}
  BY <1>2, <1>3 DEF Cut, PostedIn
<1>5. ASSUME NEW ds \in SetsWithout(d), NEW i \in Items, NEW w \in Warehouses
      PROVE  /\ BalanceIn(m, ds, i, w) = BalanceIn(k, ds, i, w)
             /\ BalanceIn(k, ds \cup {d}, i, w) = BalanceIn(k, ds, i, w) + Sign(d, k[d].lines, i, w)
  <2>1. ds \in SUBSET Docs /\ d \in Docs \ ds /\ \A e \in ds : k[e] = m[e]
    BY DEF SetsWithout
  <2>2. BalanceIn(k, ds, i, w) = BalanceIn(m, ds, i, w)
    BY <2>1, BalanceSame
  <2>3. BalanceIn(k, ds \cup {d}, i, w) = BalanceIn(k, ds, i, w) + Moves(k, i, w)[d]
    BY <2>1, BalanceOfMore
  <2>4. Moves(k, i, w)[d] = Sign(d, k[d].lines, i, w)
    BY DEF Moves, Sign
  <2> QED BY <2>2, <2>3, <2>4
<1>6. CutsLose(k, m, d)
  BY <1>4 DEF CutsLose
<1>7. SameWithout(k, m, d)
  <2>1. ASSUME NEW ds \in SetsWithout(d), NEW i \in Items, NEW w \in Warehouses
        PROVE  BalanceIn(m, ds, i, w) = BalanceIn(k, ds, i, w)
    BY <1>5
  <2> QED BY <2>1 DEF SameWithout
<1>8. With(k, d, k[d].lines)
  BY <1>5 DEF With
<1> QED BY <1>3, <1>6, <1>7, <1>8

(* The date check of an outgoing row: from its day on there is enough for  *)
(* its lines, whenever the ledger is read (assertStockMovementDate).       *)
LEMMA RoomFromDay ==
    ASSUME StockAssumption, kardex \in Kardexes, stock \in Quantities, StockIsLedger,
           NEW d \in Docs, Outgoing(d), NEW lines \in Quantities, NEW from \in Nat,
           DateAllowed(d, lines, from), InStock(lines),
           NEW i \in Items, NEW w \in Warehouses, lines[i][w] > 0,
           NEW day \in Nat, NEW id \in Nat, from < day \/ (from = day /\ NextId <= id)
    PROVE  BalanceIn(kardex, Cut(kardex, day, id), i, w) >= lines[i][w]
<1> DEFINE rows == PostedIn(kardex)
           cut == Cut(kardex, day, id)
<1>0. Today \in Nat
  BY DEF StockAssumption
<1>1. \A e \in Docs : kardex[e].day \in Nat /\ kardex[e].id \in Nat /\ kardex[e].id < NextId
  BY <1>0, NextIdType DEF Kardexes
<1>a. NextId \in Nat
  BY NextIdType DEF Kardexes
<1>b. rows \in SUBSET Docs /\ cut \in SUBSET rows /\ cut \in SUBSET Docs
  BY DEF PostedIn, Cut
<1>c. lines[i][w] \in Nat /\ i \in ItemsOf(lines)
  <2>1. lines[i][w] \in Nat
    BY DEF Quantities
  <2>2. i \in ItemsOf(lines)
    BY DEF ItemsOf
  <2> QED BY <2>1, <2>2
<1>d. BalanceIn(kardex, cut, i, w) \in Int
  BY <1>b, BalanceOfMore
<1>2. \A e \in rows : kardex[e].day <= from => e \in cut
  <2>1. \A e \in rows : kardex[e].day <= from => kardex[e].day < day \/ (kardex[e].day = day /\ kardex[e].id <= id)
    BY <1>1, <1>a, <1>b
  <2> QED BY <2>1 DEF Cut
<1>3. CASE from >= LastDay(i)
  <2>1. \A e \in rows : i \in ItemsOf(kardex[e].lines) => kardex[e].day <= LastDay(i)
    BY DaysAndMinima
  <2>2. LastDay(i) \in Nat
    BY DaysAndMinima
  <2>3. \A e \in rows \ cut : i \notin ItemsOf(kardex[e].lines)
    <3>1. ASSUME NEW e \in rows, i \in ItemsOf(kardex[e].lines) PROVE e \in cut
      <4>1. kardex[e].day <= LastDay(i) /\ kardex[e].day \in Nat
        BY <1>1, <1>b, <2>1, <3>1
      <4>2. kardex[e].day <= from
        BY <1>3, <2>2, <4>1
      <4> QED BY <1>2, <4>2
    <3> QED BY <3>1
  <2>4. BalanceIn(kardex, rows, i, w) = BalanceIn(kardex, cut, i, w)
    <3> HIDE DEF rows, cut
    <3> QED BY <1>b, <2>3, BalanceWithout
  <2>5. stock[i][w] = BalanceIn(kardex, rows, i, w)
    BY DEF StockIsLedger, Posted, PostedIn, Balance, BalanceIn, Moves, Signed
  <2>6. stock[i][w] >= lines[i][w]
    BY DEF InStock
  <2> QED BY <2>4, <2>5, <2>6
<1>4. CASE ~ (from >= LastDay(i))
  <2>1. MinimumFromDay(i, w, from) >= lines[i][w]
    BY <1>4, <1>c DEF DateAllowed
  <2>2. MinimumFromDay(i, w, from) \in Int
    BY DaysAndMinima
  <2>3. CASE \A e \in cut : kardex[e].day <= from
    <3>1. cut = {e \in rows : kardex[e].day <= from}
      BY <1>2, <1>b, <2>3
    <3>2. MinimumFromDay(i, w, from) <= BalanceIn(kardex, {e \in rows : kardex[e].day <= from}, i, w)
      BY DaysAndMinima
    <3>3. MinimumFromDay(i, w, from) <= BalanceIn(kardex, cut, i, w)
      BY <3>1, <3>2
    <3> QED BY <1>c, <1>d, <2>1, <2>2, <3>3
  <2>4. CASE ~ \A e \in cut : kardex[e].day <= from
    <3>1. PICK x \in cut : ~ (kardex[x].day <= from)
      BY <2>4
    <3>2. PICK e \in cut :
              \A f \in cut : kardex[f].day < kardex[e].day \/ (kardex[f].day = kardex[e].day /\ kardex[f].id <= kardex[e].id)
      <4> HIDE DEF cut
      <4> QED BY <1>b, <3>1, LastRow
    <3>3. kardex[e].day > from /\ e \in rows
      BY <1>1, <1>b, <3>1, <3>2
    <3>4. cut = {f \in rows : UpTo(f, e)}
      <4>1. \A f \in cut : UpTo(f, e)
        BY <3>2 DEF UpTo
      <4>2. ASSUME NEW f \in rows, UpTo(f, e) PROVE f \in cut
        <5>1. kardex[e].day < day \/ (kardex[e].day = day /\ kardex[e].id <= id)
          BY <3>2 DEF Cut
        <5>2. kardex[f].day < day \/ (kardex[f].day = day /\ kardex[f].id <= id)
          <6> HIDE DEF rows, cut
          <6> QED BY <1>1, <1>b, <3>2, <4>2, <5>1 DEF UpTo
        <5> QED BY <5>2 DEF Cut
      <4> HIDE DEF cut, rows
      <4> QED BY <1>b, <4>1, <4>2
    <3>5. MinimumFromDay(i, w, from) <= BalanceIn(kardex, {f \in rows : UpTo(f, e)}, i, w)
      <4>1. \A g \in rows : kardex[g].day > from =>
                MinimumFromDay(i, w, from) <= BalanceIn(kardex, {f \in rows : UpTo(f, g)}, i, w)
        BY DaysAndMinima
      <4> HIDE DEF rows, cut
      <4> QED BY <3>3, <4>1
    <3>6. MinimumFromDay(i, w, from) <= BalanceIn(kardex, cut, i, w)
      BY <3>4, <3>5
    <3> QED BY <1>c, <1>d, <2>1, <2>2, <3>6
  <2> QED BY <2>3, <2>4
<1> QED BY <1>3, <1>4

(* A cut of the ledger is what its last row has before it. *)
LEMMA CutOfLast ==
    ASSUME StockAssumption, kardex \in Kardexes, NEW day \in Nat, NEW id \in Nat, Cut(kardex, day, id) # {}
    PROVE  \E e \in Cut(kardex, day, id) : Cut(kardex, day, id) = {f \in PostedIn(kardex) : UpTo(f, e)}
<1> DEFINE rows == PostedIn(kardex)
           cut == Cut(kardex, day, id)
<1>0. Today \in Nat
  BY DEF StockAssumption
<1>1. \A e \in Docs : kardex[e].day \in Nat /\ kardex[e].id \in Nat
  BY <1>0 DEF Kardexes
<1>2. rows \in SUBSET Docs /\ cut \in SUBSET rows /\ cut \in SUBSET Docs /\ cut # {}
  BY DEF PostedIn, Cut
<1>3. PICK e \in cut :
          \A f \in cut : kardex[f].day < kardex[e].day \/ (kardex[f].day = kardex[e].day /\ kardex[f].id <= kardex[e].id)
  <2> HIDE DEF cut
  <2> QED BY <1>2, LastRow
<1>4. \A f \in cut : UpTo(f, e)
  BY <1>3 DEF UpTo
<1>5. ASSUME NEW f \in rows, UpTo(f, e) PROVE f \in cut
  <2>1. kardex[e].day < day \/ (kardex[e].day = day /\ kardex[e].id <= id)
    BY <1>3 DEF Cut
  <2>2. kardex[f].day < day \/ (kardex[f].day = day /\ kardex[f].id <= id)
    <3> HIDE DEF rows, cut
    <3> QED BY <1>1, <1>2, <1>3, <1>5, <2>1 DEF UpTo
  <2> QED BY <2>2 DEF Cut
<1>6. cut = {f \in rows : UpTo(f, e)}
  <2> HIDE DEF cut, rows
  <2> QED BY <1>2, <1>4, <1>5
<1> QED BY <1>3, <1>6

(* The balances of the model are those of its Kardex. *)
LEMMA BalanceIsIn ==
    /\ Posted = PostedIn(kardex)
    /\ \A ds, i, w : Balance(ds, i, w) = BalanceIn(kardex, ds, i, w)
BY DEF Posted, PostedIn, Balance, BalanceIn, Moves, Signed

(* A movement leaves every cut of the ledger at zero or above: stock that  *)
(* comes in only adds, and stock that goes out had room from its day on.   *)
LEMMA LedgerMove ==
    ASSUME StockAssumption, IInv, LedgerInv, NEW s \in Sessions, Move(s), kardex' \in Kardexes
    PROVE  /\ NeverBelowZero(kardex')
           /\ \A i \in Items, w \in Warehouses : stock'[i][w] = BalanceIn(kardex', PostedIn(kardex'), i, w)
<1> DEFINE d == session[s].doc
           lines == session[s].lines
           from == session[s].day
           row == [id |-> NextId, day |-> from, lines |-> lines]
<1>1. TypeOK /\ FinalIsPosted /\ Own(s) /\ kardex \in Kardexes /\ stock \in Quantities
  BY DEF IInv, SessionInv, TypeOK, Kardexes
<1>2. d \in Docs /\ doc[d].status # "final"
  <2>1. session[s].op \in {"none", "create", "finalize", "void"}
    BY <1>1 DEF TypeOK, SessionStates
  <2> QED BY <1>1, <2>1 DEF Own, Move, Editable
<1>3. kardex[d].id = 0
  BY <1>1, <1>2 DEF FinalIsPosted, NoRows
<1>4. NextId \in Nat \ {0}
  BY <1>1, NextIdType DEF Kardexes
<1>5. lines \in AnyLines /\ from \in 0..Today /\ lines \in Quantities /\ from \in Nat
  <2>1. lines \in AnyLines /\ from \in 0..Today
    BY <1>1, SessionFields DEF TypeOK
  <2>2. Today \in Nat
    BY DEF StockAssumption
  <2> QED BY <2>1, <2>2, LinesType
<1>6. row \in [id : Nat, day : 0..Today, lines : AnyLines] /\ row.id # 0
  BY <1>4, <1>5
<1>7. kardex'[d] = row /\ \A e \in Docs \ {d} : kardex[e] = kardex'[e]
  BY <1>1, <1>2 DEF Move, TypeOK
<1>8. row.id = NextId /\ row.day = from /\ row.lines = lines
  OBVIOUS
<1>a. DateAllowed(d, lines, from) /\ (Outgoing(d) => InStock(lines))
      /\ stock' = IF Outgoing(d) THEN Subtract(lines) ELSE Add(lines)
  BY DEF Move
<1>b. \A i \in Items, w \in Warehouses : lines[i][w] \in Nat /\ stock[i][w] \in Nat
  <2>1. \A i \in Items, w \in Warehouses : lines[i][w] \in Nat
    BY <1>5, QuantityType
  <2>2. \A i \in Items, w \in Warehouses : stock[i][w] \in Nat
    BY <1>1, QuantityType
  <2> QED BY <2>1, <2>2
<1>c. \A i \in Items, w \in Warehouses :
          stock'[i][w] = stock[i][w] + Sign(d, lines, i, w) /\ Sign(d, lines, i, w) \in Int
  <2> HIDE DEF d, lines, from, row
  <2>1. CASE Outgoing(d)
    BY <1>a, <1>b, <2>1 DEF Subtract, Sign
  <2>2. CASE ~Outgoing(d)
    BY <1>a, <1>b, <2>2 DEF Add, Sign
  <2> QED BY <2>1, <2>2
<1> HIDE DEF d, lines, from, row
<1>9. /\ d \notin PostedIn(kardex) /\ PostedIn(kardex') = PostedIn(kardex) \cup {d}
      /\ CutsGain(kardex, kardex', d, row) /\ SameWithout(kardex, kardex', d) /\ With(kardex', d, lines)
  BY <1>1, <1>2, <1>3, <1>6, <1>7, <1>8, RowAdded
<1>10. PostedIn(kardex) \in SUBSET (Docs \ {d})
  BY <1>9 DEF PostedIn
<1>11. ASSUME NEW i \in Items, NEW w \in Warehouses
       PROVE  stock'[i][w] = BalanceIn(kardex', PostedIn(kardex'), i, w)
  <2>1. stock[i][w] = BalanceIn(kardex, PostedIn(kardex), i, w)
    BY BalanceIsIn DEF LedgerInv, StockIsLedger
  <2>2. BalanceIn(kardex', PostedIn(kardex'), i, w) = BalanceIn(kardex, PostedIn(kardex), i, w) + Sign(d, lines, i, w)
    BY <1>9, <1>10 DEF With, SameWithout, SetsWithout
  <2> QED BY <1>c, <2>1, <2>2
<1>12. ASSUME NEW day \in Nat, NEW id \in Nat, NEW i \in Items, NEW w \in Warehouses
       PROVE  BalanceIn(kardex', Cut(kardex', day, id), i, w) >= 0
  <2> DEFINE cut == Cut(kardex, day, id)
  <2>1. cut \in SUBSET (Docs \ {d}) /\ cut \in SUBSET Docs
    BY <1>10 DEF Cut
  <2>2. BalanceIn(kardex, cut, i, w) >= 0 /\ BalanceIn(kardex, cut, i, w) \in Int
    <3>1. BalanceIn(kardex, cut, i, w) >= 0
      BY DEF LedgerInv, NeverBelowZero
    <3>2. BalanceIn(kardex, cut, i, w) \in Int
      BY <1>1, <2>1, BalanceOfMore
    <3> QED BY <3>1, <3>2
  <2>3. CASE ~ InCut(row, day, id)
    <3>1. Cut(kardex', day, id) = cut
      BY <1>9, <2>3 DEF CutsGain
    <3>2. BalanceIn(kardex', cut, i, w) = BalanceIn(kardex, cut, i, w)
      <4> HIDE DEF cut
      <4> QED BY <1>9, <2>1 DEF SameWithout, SetsWithout
    <3> QED BY <2>2, <3>1, <3>2
  <2>4. CASE InCut(row, day, id)
    <3>1. BalanceIn(kardex', Cut(kardex', day, id), i, w) = BalanceIn(kardex, cut, i, w) + Sign(d, lines, i, w)
      <4>1. Cut(kardex', day, id) = cut \cup {d}
        BY <1>9, <2>4 DEF CutsGain
      <4>2. BalanceIn(kardex', cut \cup {d}, i, w) = BalanceIn(kardex, cut, i, w) + Sign(d, lines, i, w)
        <5> HIDE DEF cut
        <5> QED BY <1>9, <2>1 DEF SameWithout, With, SetsWithout
      <4> QED BY <4>1, <4>2
    <3>2. lines[i][w] \in Nat
      BY <1>b
    <3>3. CASE ~ Outgoing(d) \/ lines[i][w] = 0
      BY <2>2, <3>1, <3>2, <3>3 DEF Sign
    <3>4. CASE Outgoing(d) /\ lines[i][w] > 0
      <4>1. from < day \/ (from = day /\ NextId <= id)
        BY <1>8, <2>4 DEF InCut
      <4>2. StockIsLedger
        BY DEF LedgerInv
      <4>3. BalanceIn(kardex, cut, i, w) >= lines[i][w]
        BY <1>1, <1>2, <1>5, <1>a, <3>4, <4>1, <4>2, RoomFromDay
      <4> QED BY <2>2, <3>1, <3>2, <3>4, <4>3 DEF Sign
    <3> QED BY <3>2, <3>3, <3>4
  <2> QED BY <2>3, <2>4
<1> QED BY <1>11, <1>12 DEF NeverBelowZero

(* A void takes its rows out of every cut: stock that went out comes back, *)
(* and stock that came in leaves only if no later balance goes below zero  *)
(* (assertVoidKeepsStockHistory).                                          *)
LEMMA LedgerVoid ==
    ASSUME StockAssumption, IInv, LedgerInv, NEW s \in Sessions, Void(s), kardex' \in Kardexes
    PROVE  /\ NeverBelowZero(kardex')
           /\ \A i \in Items, w \in Warehouses : stock'[i][w] = BalanceIn(kardex', PostedIn(kardex'), i, w)
<1> DEFINE d == session[s].doc
           rows == kardex[d].lines
<1>1. TypeOK /\ FinalIsPosted /\ Own(s) /\ kardex \in Kardexes /\ stock \in Quantities
  BY DEF IInv, SessionInv, TypeOK, Kardexes
<1>2. d \in Docs
  BY <1>1 DEF Own, Void
<1>3. kardex'[d] = NoRows /\ \A e \in Docs \ {d} : kardex[e] = kardex'[e]
  BY <1>1, <1>2 DEF Void, TypeOK
<1>4. \A i \in Items, w \in Warehouses : rows[i][w] \in Nat /\ stock[i][w] \in Nat
  <2> HIDE DEF d
  <2>1. \A i \in Items, w \in Warehouses : rows[i][w] \in Nat
    BY <1>1, <1>2, MovesType
  <2>2. \A i \in Items, w \in Warehouses : stock[i][w] \in Nat
    <3>1. stock \in Quantities
      BY <1>1
    <3> HIDE DEF rows
    <3> QED BY <3>1, QuantityType
  <2> HIDE DEF rows
  <2> QED BY <2>1, <2>2
<1>5. CASE doc[d].status # "final"
  <2>1. kardex[d] = NoRows
    BY <1>1, <1>2, <1>5 DEF FinalIsPosted
  <2>2. kardex' = kardex
    <3>1. kardex = [e \in Docs |-> kardex[e]] /\ kardex' = [e \in Docs |-> kardex'[e]]
      BY <1>1 DEF Kardexes
    <3>2. \A e \in Docs : kardex'[e] = kardex[e]
      BY <1>3, <2>1
    <3> QED BY <3>1, <3>2
  <2>3. stock' = stock
    BY <1>5 DEF Void
  <2> QED BY <2>2, <2>3, BalanceIsIn DEF LedgerInv, StockIsLedger
<1>6. CASE doc[d].status = "final"
  <2>1. /\ kardex[d].id # 0 /\ d \in PostedIn(kardex)
    BY <1>1, <1>2, <1>6 DEF FinalIsPosted, PostedIn
  <2>2. \A i \in Items, w \in Warehouses :
            stock'[i][w] = stock[i][w] - Sign(d, rows, i, w) /\ Sign(d, rows, i, w) \in Int
    <3>1. stock' = IF Outgoing(d) THEN Add(rows) ELSE Subtract(rows)
      BY <1>6 DEF Void
    <3> HIDE DEF d, rows
    <3> QED BY <1>4, <3>1 DEF Add, Subtract, Sign
  <2>3. KeepsHistory(d)
    BY DEF Void
  <2> HIDE DEF d, rows
  <2>4. /\ PostedIn(kardex') = PostedIn(kardex) \ {d}
        /\ CutsLose(kardex, kardex', d) /\ SameWithout(kardex, kardex', d) /\ With(kardex, d, rows)
    <3>1. rows = kardex[d].lines
      BY DEF rows
    <3> QED BY <1>1, <1>2, <1>3, <3>1, RowGone
  <2>5. \A ds \in SUBSET Docs, i \in Items, w \in Warehouses :
            /\ ds \ {d} \in SUBSET (Docs \ {d})
            /\ BalanceIn(kardex, ds, i, w) \in Int /\ BalanceIn(kardex, ds \ {d}, i, w) \in Int
            /\ d \in ds => BalanceIn(kardex, ds, i, w) = BalanceIn(kardex, ds \ {d}, i, w) + Sign(d, rows, i, w)
    <3>1. \A ds \in SUBSET Docs : ds \ {d} \in SUBSET (Docs \ {d}) /\ ds \ {d} \in SUBSET Docs
                                  /\ (d \in ds => ds = (ds \ {d}) \cup {d})
      BY <1>2
    <3>2. ASSUME NEW ds \in SUBSET Docs, NEW i \in Items, NEW w \in Warehouses
          PROVE  BalanceIn(kardex, ds, i, w) \in Int
      BY <1>1, BalanceOfMore
    <3>3. ASSUME NEW ds \in SUBSET Docs, NEW i \in Items, NEW w \in Warehouses, d \in ds
          PROVE  BalanceIn(kardex, ds, i, w) = BalanceIn(kardex, ds \ {d}, i, w) + Sign(d, rows, i, w)
      <4> DEFINE es == ds \ {d}
      <4>1. es \in SUBSET (Docs \ {d}) /\ ds = es \cup {d}
        BY <3>1, <3>3
      <4> HIDE DEF es
      <4>2. BalanceIn(kardex, es \cup {d}, i, w) = BalanceIn(kardex, es, i, w) + Sign(d, rows, i, w)
        BY <2>4, <4>1 DEF With, SetsWithout
      <4> QED BY <4>1, <4>2 DEF es
    <3> QED BY <3>1, <3>2, <3>3
  <2>6. PostedIn(kardex) \in SUBSET Docs
    BY DEF PostedIn
  <2>7. ASSUME NEW i \in Items, NEW w \in Warehouses
        PROVE  stock'[i][w] = BalanceIn(kardex', PostedIn(kardex'), i, w)
    <3>1. stock[i][w] = BalanceIn(kardex, PostedIn(kardex), i, w)
      BY BalanceIsIn DEF LedgerInv, StockIsLedger
    <3>2. BalanceIn(kardex', PostedIn(kardex'), i, w) = BalanceIn(kardex, PostedIn(kardex) \ {d}, i, w)
      BY <2>4, <2>5, <2>6 DEF SameWithout, SetsWithout
    <3>3. BalanceIn(kardex, PostedIn(kardex), i, w) = BalanceIn(kardex, PostedIn(kardex) \ {d}, i, w) + Sign(d, rows, i, w)
          /\ BalanceIn(kardex, PostedIn(kardex) \ {d}, i, w) \in Int
      BY <2>1, <2>5, <2>6
    <3>4. Sign(d, rows, i, w) \in Int /\ stock'[i][w] = stock[i][w] - Sign(d, rows, i, w)
      BY <2>2
    <3> QED BY <3>1, <3>2, <3>3, <3>4
  <2>8. ASSUME NEW day \in Nat, NEW id \in Nat, NEW i \in Items, NEW w \in Warehouses
        PROVE  BalanceIn(kardex', Cut(kardex', day, id), i, w) >= 0
    <3> DEFINE cut == Cut(kardex, day, id)
               without == BalanceIn(kardex, cut \ {d}, i, w)
    <3>1. cut \in SUBSET Docs /\ cut \in SUBSET PostedIn(kardex)
      BY <2>6 DEF Cut
    <3>2. BalanceIn(kardex', Cut(kardex', day, id), i, w) = without
      <4>1. Cut(kardex', day, id) = cut \ {d}
        BY <2>4 DEF CutsLose
      <4>2. cut \ {d} \in SUBSET (Docs \ {d})
        BY <2>5, <3>1
      <4>3. BalanceIn(kardex', cut \ {d}, i, w) = without
        BY <2>4, <4>2 DEF SameWithout, SetsWithout
      <4> QED BY <4>1, <4>3
    <3>3. BalanceIn(kardex, cut, i, w) >= 0
      BY DEF LedgerInv, NeverBelowZero
    <3>4. BalanceIn(kardex, cut, i, w) \in Int /\ without \in Int
      BY <2>5, <3>1
    <3>5. CASE d \notin cut
      <4>1. cut \ {d} = cut
        BY <3>5
      <4> QED BY <3>2, <3>3, <4>1
    <3>6. CASE d \in cut
      <4>1. BalanceIn(kardex, cut, i, w) = without + Sign(d, rows, i, w)
        BY <2>5, <3>1, <3>6
      <4>2. rows[i][w] \in Nat
        BY <1>4
      <4>3. CASE Outgoing(d) \/ rows[i][w] = 0
        BY <3>2, <3>3, <3>4, <4>1, <4>2, <4>3 DEF Sign
      <4>4. CASE ~ Outgoing(d) /\ rows[i][w] > 0
        <5>1. PICK e \in cut : cut = {f \in PostedIn(kardex) : UpTo(f, e)}
          <6> HIDE DEF cut
          <6>1. Cut(kardex, day, id) # {}
            BY <3>6 DEF cut
          <6> QED BY <1>1, <6>1, CutOfLast DEF cut
        <5>2. e \in Posted /\ UpTo(d, e)
          BY <3>1, <3>6, <5>1, BalanceIsIn
        <5>3. i \in ItemsOf(rows)
          BY <4>4 DEF ItemsOf
        <5>4. BalanceAt(Posted \ {d}, e, i, w) = without
          <6>1. {f \in Posted \ {d} : UpTo(f, e)} = cut \ {d}
            BY <5>1, BalanceIsIn
          <6> QED BY <6>1, BalanceIsIn DEF BalanceAt
        <5>5. BalanceAt(Posted, e, i, w) = BalanceIn(kardex, cut, i, w)
          <6>1. {f \in Posted : UpTo(f, e)} = cut
            BY <5>1, BalanceIsIn
          <6> QED BY <6>1, BalanceIsIn DEF BalanceAt
        <5>6. BalanceAt(Posted \ {d}, e, i, w) >= 0
              \/ BalanceAt(Posted \ {d}, e, i, w) >= BalanceAt(Posted, e, i, w)
          <6>1. rows = kardex[d].lines
            BY DEF rows
          <6> HIDE DEF cut
          <6> QED BY <2>3, <4>4, <5>2, <5>3, <6>1 DEF KeepsHistory
        <5> HIDE DEF cut, without
        <5> QED BY <3>2, <3>3, <3>4, <5>4, <5>5, <5>6
      <4> QED BY <4>2, <4>3, <4>4
    <3> QED BY <3>5, <3>6
  <2> QED BY <2>7, <2>8 DEF NeverBelowZero
<1> QED BY <1>5, <1>6

LEMMA LedgerStep ==
    ASSUME StockAssumption, IInv, TypeOK', LedgerInv, [Next]_vars
    PROVE  LedgerInv'
<1>1. kardex' \in Kardexes
  BY DEF TypeOK, Kardexes
<1>2. ASSUME NeverBelowZero(kardex'),
             \A i \in Items, w \in Warehouses : stock'[i][w] = BalanceIn(kardex', PostedIn(kardex'), i, w)
      PROVE  LedgerInv'
  BY <1>2 DEF LedgerInv, StockIsLedger, NeverBelowZero, Posted, PostedIn, Balance, BalanceIn, Moves, Signed, Cut
<1>3. ASSUME NEW s \in Sessions, Move(s) PROVE LedgerInv'
  BY <1>1, <1>2, <1>3, LedgerMove
<1>4. ASSUME NEW s \in Sessions, Void(s) PROVE LedgerInv'
  BY <1>1, <1>2, <1>4, LedgerVoid
<1>5. ASSUME kardex' = kardex, stock' = stock PROVE LedgerInv'
  <2>1. NeverBelowZero(kardex')
    BY <1>5 DEF LedgerInv
  <2>2. \A i \in Items, w \in Warehouses : stock[i][w] = BalanceIn(kardex, PostedIn(kardex), i, w)
    BY BalanceIsIn DEF LedgerInv, StockIsLedger
  <2>3. \A i \in Items, w \in Warehouses : stock'[i][w] = BalanceIn(kardex', PostedIn(kardex'), i, w)
    BY <1>5, <2>2
  <2> QED BY <1>2, <2>1, <2>3
<1>6. CASE UNCHANGED vars
  BY <1>5, <1>6 DEF vars
<1>7. ASSUME NEW s \in Sessions, SessionStep(s) PROVE LedgerInv'
  BY <1>3, <1>4, <1>5, <1>7 DEF SessionStep, PeekFinalize, PeekVoid, BeginFinal, BeginReturnDraft,
     InsertReturnDraft, LockItem, Checked, LockFinalize, LockVoid, LockMissing, CheckOutflow, CheckReturn, RollBack
<1>8. ASSUME NEW d \in Docs, CreateDraft(d) \/ Edit(d) PROVE LedgerInv'
  BY <1>5, <1>8 DEF CreateDraft, Edit
<1> QED BY <1>6, <1>7, <1>8 DEF Next

LEMMA LedgerInit == StockAssumption /\ Init => LedgerInv
<1> SUFFICES ASSUME StockAssumption, Init PROVE LedgerInv
  OBVIOUS
<1>1. Posted = {} /\ PostedIn(kardex) = {} /\ stock = Opening
  BY DEF Init, Posted, PostedIn, NoRows
<1>2. \A day, id \in Nat : Cut(kardex, day, id) = {}
  BY <1>1 DEF Cut
<1>3. \A i \in Items, w \in Warehouses : Opening[i][w] \in Nat
  BY DEF StockAssumption, Quantities
<1>4. \A i \in Items, w \in Warehouses : BalanceIn(kardex, {}, i, w) = Opening[i][w]
  <2>1. ASSUME NEW i \in Items, NEW w \in Warehouses PROVE BalanceIn(kardex, {}, i, w) = Opening[i][w]
    <3>1. SumFunctionOnSet(Moves(kardex, i, w), {}) = 0
      BY SumOfNone
    <3>2. BalanceIn(kardex, {}, i, w) = Opening[i][w] + SumFunctionOnSet(Moves(kardex, i, w), {})
      BY DEF BalanceIn
    <3> QED BY <1>3, <3>1, <3>2
  <2> QED BY <2>1
<1>5. StockIsLedger
  BY <1>1, <1>4, BalanceIsIn DEF StockIsLedger
<1>6. NeverBelowZero(kardex)
  <2>1. ASSUME NEW day \in Nat, NEW id \in Nat, NEW i \in Items, NEW w \in Warehouses
        PROVE  BalanceIn(kardex, Cut(kardex, day, id), i, w) >= 0
    <3>1. Cut(kardex, day, id) = {}
      BY <1>2
    <3>2. BalanceIn(kardex, Cut(kardex, day, id), i, w) = Opening[i][w]
      BY <1>4, <3>1
    <3>3. Opening[i][w] \in Nat
      BY <1>3
    <3> QED BY <3>2, <3>3
  <2> QED BY <2>1 DEF NeverBelowZero
<1> QED BY <1>5, <1>6 DEF LedgerInv

(* The stock of every warehouse is the sum of its Kardex rows, however     *)
(* finalizes, voids and edits of any documents overlap, and no cut of the  *)
(* ledger by day and id is below zero.                                     *)
THEOREM LedgerInvariant == Spec => []LedgerInv
<1>1. Init => LedgerInv
  BY StockAssumption, LedgerInit
<1>2. IInv /\ TypeOK' /\ LedgerInv /\ [Next]_vars => LedgerInv'
  BY StockAssumption, LedgerStep
<1> QED BY <1>1, <1>2, StockInvariant, TypeCorrect, PTL DEF Spec

THEOREM StockMatchesLedger == Spec => []StockIsLedger
<1>1. LedgerInv => StockIsLedger
  BY DEF LedgerInv
<1> QED BY <1>1, LedgerInvariant, PTL

(* Read by day and id, no warehouse was ever below zero.                   *)
THEOREM LedgerStaysNatural == Spec => []LedgerNeverNegative
<1>1. TypeOK /\ LedgerInv => LedgerNeverNegative
  <2> SUFFICES ASSUME TypeOK, LedgerInv, NEW d \in Posted, NEW i \in Items, NEW w \in Warehouses
               PROVE  BalanceAt(Posted, d, i, w) >= 0
    BY DEF LedgerNeverNegative, ItemsOf
  <2>1. Today \in Nat
    BY StockAssumption DEF StockAssumption
  <2>2. kardex[d].day \in Nat /\ kardex[d].id \in Nat
    BY <2>1 DEF TypeOK, Posted
  <2>3. {e \in Posted : UpTo(e, d)} = Cut(kardex, kardex[d].day, kardex[d].id)
    BY BalanceIsIn DEF Cut, UpTo
  <2>4. BalanceIn(kardex, Cut(kardex, kardex[d].day, kardex[d].id), i, w) >= 0
    BY <2>2 DEF LedgerInv, NeverBelowZero
  <2> QED BY <2>3, <2>4, BalanceIsIn DEF BalanceAt
<1> QED BY <1>1, LedgerInvariant, TypeCorrect, PTL

-----------------------------------------------------------------------------
(* Returns.  A return that passed its check holds its invoice's row until  *)
(* it moves: no other return of that invoice posts, and the invoice is not *)
(* voided.                                                                 *)

ReturnedIn(k, v, i) == SumFunctionOnSet([d \in Docs |-> Total(k[d].lines, i)], ReturnsOf(v))

HoldsInvoice(s) ==
    LET me == session[s]
        v == ReturnOf[me.doc] IN
    me.pc = "move" /\ Returning(me.doc) => docLock[v] = s /\ Returnable(v) /\ WithinSold(v, me.lines)

SoldInv == ReturnsWithinSold /\ \A s \in Sessions : HoldsInvoice(s)

LEMMA ReturnedIsIn == \A v, i : Returned(v, i) = ReturnedIn(kardex, v, i)
BY DEF Returned, ReturnedIn

(* The lines of an item add up to a natural number, and those of an item   *)
(* that is not on the document to nothing.                                 *)
LEMMA TotalType ==
    ASSUME StockAssumption, NEW lines \in Quantities, NEW i \in Items
    PROVE  Total(lines, i) \in Nat /\ (i \notin ItemsOf(lines) => Total(lines, i) = 0)
<1> DEFINE F == lines[i]
<1>1. IsFiniteSet(Warehouses) /\ \A w \in Warehouses : F[w] \in Nat
  BY DEF StockAssumption, Quantities
<1>2. ASSUME i \notin ItemsOf(lines) PROVE \A w \in Warehouses : F[w] = 0
  BY <1>1, <1>2 DEF ItemsOf
<1>3. Total(lines, i) = SumFunctionOnSet(F, Warehouses)
  BY DEF Total, InAll
<1> HIDE DEF F
<1>4. SumFunctionOnSet(F, Warehouses) \in Nat
  BY <1>1, SumOfNaturals
<1>5. ASSUME i \notin ItemsOf(lines) PROVE SumFunctionOnSet(F, Warehouses) = 0
  <2>1. {} \in SUBSET Warehouses /\ (\A w \in Warehouses : F[w] \in Int) /\ \A w \in Warehouses \ {} : F[w] = 0
    BY <1>1, <1>2, <1>5
  <2>2. SumFunctionOnSet(F, Warehouses) = SumFunctionOnSet(F, {})
    BY <1>1, <2>1, SumWithout
  <2> QED BY <2>2, SumOfNone
<1> QED BY <1>3, <1>4, <1>5

(* What has been returned of an invoice, when the rows of d change.        *)
LEMMA ReturnedChange ==
    ASSUME StockAssumption, NEW k \in Kardexes, NEW m \in Kardexes, NEW d \in Docs,
           \A e \in Docs \ {d} : k[e] = m[e], NEW v \in Docs, NEW i \in Items
    PROVE  /\ ReturnedIn(k, v, i) \in Nat /\ ReturnedIn(m, v, i) \in Nat
           /\ Total(k[d].lines, i) \in Nat /\ Total(m[d].lines, i) \in Nat
           /\ d \notin ReturnsOf(v) => ReturnedIn(m, v, i) = ReturnedIn(k, v, i)
           /\ d \in ReturnsOf(v) =>
                  ReturnedIn(m, v, i) + Total(k[d].lines, i) = ReturnedIn(k, v, i) + Total(m[d].lines, i)
<1> DEFINE F == [e \in Docs |-> Total(k[e].lines, i)]
           G == [e \in Docs |-> Total(m[e].lines, i)]
           S == ReturnsOf(v)
<1>1. \A e \in Docs : k[e].lines \in Quantities /\ m[e].lines \in Quantities
  BY LinesType DEF Kardexes
<1>2. \A e \in Docs : F[e] \in Nat /\ G[e] \in Nat
  BY <1>1, TotalType
<1>3. IsFiniteSet(S) /\ S \in SUBSET Docs /\ IsFiniteSet(S \ {d})
  <2>1. S \in SUBSET Docs /\ S \ {d} \in SUBSET Docs
    BY DEF ReturnsOf
  <2>2. IsFiniteSet(Docs)
    BY DEF StockAssumption
  <2> HIDE DEF S
  <2> QED BY <2>1, <2>2, FS_Subset
<1>4. \A e \in Docs \ {d} : F[e] = G[e]
  OBVIOUS
<1>5. F[d] = Total(k[d].lines, i) /\ G[d] = Total(m[d].lines, i)
  OBVIOUS
<1>6. ReturnedIn(k, v, i) = SumFunctionOnSet(F, S) /\ ReturnedIn(m, v, i) = SumFunctionOnSet(G, S)
  BY DEF ReturnedIn
<1> HIDE DEF F, G, S
<1>7. SumFunctionOnSet(F, S) \in Nat /\ SumFunctionOnSet(G, S) \in Nat
  BY <1>2, <1>3, SumOfNaturals
<1>8. SumFunctionOnSet(F, S \ {d}) = SumFunctionOnSet(G, S \ {d}) /\ SumFunctionOnSet(F, S \ {d}) \in Nat
  <2>1. \A e \in S \ {d} : F[e] = G[e] /\ F[e] \in Nat
    BY <1>2, <1>3, <1>4
  <2> QED BY <1>3, <2>1, SumSame, SumOfNaturals
<1>9. ASSUME d \notin S PROVE SumFunctionOnSet(F, S) = SumFunctionOnSet(G, S)
  <2>1. S \ {d} = S
    BY <1>9
  <2> QED BY <1>8, <2>1
<1>10. ASSUME d \in S PROVE SumFunctionOnSet(G, S) + F[d] = SumFunctionOnSet(F, S) + G[d]
  <2>1. \A e \in S : F[e] \in Int /\ G[e] \in Int
    BY <1>2, <1>3
  <2>2. SumFunctionOnSet(F, S) = F[d] + SumFunctionOnSet(F, S \ {d})
    BY <1>3, <1>10, <2>1, SumOfOne
  <2>3. SumFunctionOnSet(G, S) = G[d] + SumFunctionOnSet(G, S \ {d})
    BY <1>3, <1>10, <2>1, SumOfOne
  <2>4. F[d] \in Nat /\ G[d] \in Nat
    BY <1>2
  <2> QED BY <1>8, <2>2, <2>3, <2>4
<1> QED BY <1>2, <1>5, <1>6, <1>7, <1>9, <1>10 DEF S

(* The returns of an invoice that have no rows return nothing.             *)
LEMMA NothingReturned ==
    ASSUME StockAssumption, NEW k \in Kardexes, NEW v \in Docs, NEW i \in Items,
           \A e \in ReturnsOf(v) : k[e] = NoRows
    PROVE  ReturnedIn(k, v, i) = 0
<1> DEFINE F == [e \in Docs |-> Total(k[e].lines, i)]
           S == ReturnsOf(v)
<1>1. Nothing \in Quantities /\ i \notin ItemsOf(Nothing) /\ NoRows.lines = Nothing
  BY DEF Nothing, Quantities, ItemsOf, NoRows
<1>2. Total(Nothing, i) = 0
  BY <1>1, TotalType
<1>3. S \in SUBSET Docs /\ IsFiniteSet(S)
  <2>1. S \in SUBSET Docs
    BY DEF ReturnsOf
  <2> HIDE DEF S
  <2> QED BY <2>1, FS_Subset DEF StockAssumption
<1>4. \A e \in S : F[e] = 0
  BY <1>1, <1>2, <1>3
<1>5. ReturnedIn(k, v, i) = SumFunctionOnSet(F, S)
  BY DEF ReturnedIn
<1> HIDE DEF F, S
<1>6. {} \in SUBSET S /\ (\A e \in S : F[e] \in Int) /\ \A e \in S \ {} : F[e] = 0
  BY <1>4
<1>7. SumFunctionOnSet(F, S) = SumFunctionOnSet(F, {})
  BY <1>3, <1>6, SumWithout
<1> QED BY <1>5, <1>7, SumOfNone

(* What has been sold of an invoice. *)
LEMMA SoldType ==
    ASSUME StockAssumption, TypeOK, NEW v \in Docs, NEW i \in Items
    PROVE  Sold(v, i) \in Nat
<1>1. kardex[v].lines \in Quantities
  BY LinesType DEF TypeOK
<1>2. Total(kardex[v].lines, i) \in Nat
  BY <1>1, TotalType
<1> QED BY <1>2 DEF Sold

(* A step that leaves the rows and the final documents alone leaves what   *)
(* was sold and returned.                                                  *)
LEMMA SoldSteady ==
    ASSUME SoldInv, kardex' = kardex,
           \A v \in Docs : doc'[v] = doc[v] \/ (doc[v].status # "final" /\ doc'[v].status # "final")
    PROVE  /\ ReturnsWithinSold'
           /\ \A v \in Docs : Returnable(v) => Returnable(v)'
           /\ \A v \in Docs : \A lines : WithinSold(v, lines) => WithinSold(v, lines)'
<1>1. \A v \in Docs : \A i : Sold(v, i)' = Sold(v, i)
  BY DEF Sold, Total, InAll
<1>2. \A v, i : Returned(v, i)' = Returned(v, i)
  BY DEF Returned, Total, InAll, ReturnsOf, Returning
<1>3. ReturnsWithinSold'
  BY <1>1, <1>2 DEF SoldInv, ReturnsWithinSold, ReturnsOf, Returning
<1>4. \A v \in Docs : Returnable(v) => Returnable(v)'
  BY DEF Returnable
<1>5. \A v \in Docs : \A lines : WithinSold(v, lines) => WithinSold(v, lines)'
  BY <1>1, <1>2 DEF WithinSold, Total, InAll, ItemsOf
<1> QED BY <1>3, <1>4, <1>5

(* A session that has not moved keeps its invoice, when no other session   *)
(* takes the row from it.                                                  *)
LEMMA InvoiceKept ==
    ASSUME StockAssumption, TypeOK, NEW t \in Sessions, session[t].doc \in Docs \/ session[t].pc # "move",
           HoldsInvoice(t), session'[t] = session[t],
           \A v \in Docs : docLock[v] = t => docLock'[v] = t,
           \A v \in Docs : Returnable(v) /\ docLock[v] = t => Returnable(v)',
           \A v \in Docs, lines \in Quantities : WithinSold(v, lines) /\ docLock[v] = t /\ session[t].pc = "move" /\ Returning(session[t].doc)
                                     /\ v = ReturnOf[session[t].doc] => WithinSold(v, lines)'
    PROVE  HoldsInvoice(t)'
<1>0. session[t].lines \in Quantities
  BY SessionFields, LinesType DEF TypeOK
<1>1. CASE session[t].pc = "move" /\ Returning(session[t].doc)
  <2>1. ReturnOf[session[t].doc] \in Docs
    BY <1>1 DEF StockAssumption, Returning
  <2>2. docLock[ReturnOf[session[t].doc]] = t /\ Returnable(ReturnOf[session[t].doc])
        /\ WithinSold(ReturnOf[session[t].doc], session[t].lines)
    BY <1>1 DEF HoldsInvoice
  <2>3. docLock'[ReturnOf[session[t].doc]] = t /\ Returnable(ReturnOf[session[t].doc])'
        /\ WithinSold(ReturnOf[session[t].doc], session[t].lines)'
    BY <1>0, <1>1, <2>1, <2>2
  <2> QED BY <2>3 DEF HoldsInvoice, Returning
<1>2. CASE ~ (session[t].pc = "move" /\ Returning(session[t].doc))
  BY <1>2 DEF HoldsInvoice, Returning
<1> QED BY <1>1, <1>2

(* A step that leaves the rows and the final documents alone: what is left *)
(* to show is about the sessions that it moves.                            *)
LEMMA SoldQuiet ==
    ASSUME StockAssumption, IInv, SoldInv, kardex' = kardex,
           \A v \in Docs : doc'[v] = doc[v] \/ (doc[v].status # "final" /\ doc'[v].status # "final"),
           \A t \in Sessions : \/ HoldsInvoice(t)'
                               \/ /\ session'[t] = session[t]
                                  /\ \A v \in Docs : docLock[v] = t => docLock'[v] = t
    PROVE  SoldInv'
<1>1. /\ ReturnsWithinSold'
      /\ \A v \in Docs : Returnable(v) => Returnable(v)'
      /\ \A v \in Docs : \A lines : WithinSold(v, lines) => WithinSold(v, lines)'
  BY SoldSteady
<1>2. ASSUME NEW t \in Sessions, session'[t] = session[t], \A v \in Docs : docLock[v] = t => docLock'[v] = t
      PROVE  HoldsInvoice(t)'
  <2>1. TypeOK /\ (session[t].doc \in Docs \/ session[t].pc # "move")
    BY DEF IInv, SessionInv, Own
  <2>2. HoldsInvoice(t)
    BY DEF SoldInv
  <2> QED BY <1>1, <1>2, <2>1, <2>2, InvoiceKept
<1>3. \A t \in Sessions : HoldsInvoice(t)'
  BY <1>2
<1> QED BY <1>1, <1>3 DEF SoldInv

(* A step of s that ends in a state other than move holds no invoice.      *)
LEMMA NotMoving ==
    ASSUME NEW s \in Sessions, session'[s].pc # "move" \/ ~ Returning(session'[s].doc)
    PROVE  HoldsInvoice(s)'
BY DEF HoldsInvoice, Returning

(* A movement: only the return that holds the invoice adds to what has     *)
(* been returned of it, and what an invoice has sold only grows.           *)
LEMMA SoldMove ==
    ASSUME StockAssumption, IInv, IInv', SoldInv, NEW s \in Sessions, Move(s)
    PROVE  SoldInv'
<1> DEFINE d == session[s].doc
           lines == session[s].lines
<1>1. TypeOK /\ TypeOK' /\ FinalIsPosted /\ Own(s) /\ kardex \in Kardexes /\ kardex' \in Kardexes /\ HoldsInvoice(s)
  BY DEF IInv, SessionInv, TypeOK, Kardexes, SoldInv
<1>2. d \in Docs /\ doc[d].status # "final"
  <2>1. session[s].op \in {"none", "create", "finalize", "void"}
    BY <1>1 DEF TypeOK, SessionStates
  <2> QED BY <1>1, <2>1 DEF Own, Move, Editable
<1>3. kardex[d] = NoRows
  BY <1>1, <1>2 DEF FinalIsPosted
<1>4. /\ \A e \in Docs \ {d} : kardex[e] = kardex'[e]
      /\ \A e \in Docs \ {d} : doc'[e] = doc[e]
      /\ kardex'[d].lines = lines
  BY <1>1, <1>2 DEF Move, TypeOK
<1>5. lines \in Quantities /\ NoRows.lines = Nothing /\ Nothing \in Quantities
      /\ \A i \in Items : i \notin ItemsOf(Nothing)
  <2>1. lines \in AnyLines
    BY <1>1, SessionFields DEF TypeOK
  <2> QED BY <2>1, LinesType DEF NoRows, Nothing, ItemsOf
<1>6. \A i \in Items : Total(lines, i) \in Nat /\ Total(kardex[d].lines, i) = 0
                       /\ (i \notin ItemsOf(lines) => Total(lines, i) = 0)
  <2>1. \A i \in Items : Total(Nothing, i) = 0
    BY <1>5, TotalType
  <2>2. \A i \in Items : Total(lines, i) \in Nat /\ (i \notin ItemsOf(lines) => Total(lines, i) = 0)
    <3> HIDE DEF lines
    <3> QED BY <1>5, TotalType
  <2> HIDE DEF lines, d
  <2> QED BY <1>3, <1>5, <2>1, <2>2
<1>7. Returning(d) => ReturnOf[d] \in Docs /\ docLock[ReturnOf[d]] = s
                      /\ Returnable(ReturnOf[d]) /\ WithinSold(ReturnOf[d], lines)
  BY <1>1, <1>2 DEF Move, HoldsInvoice, Returning, StockAssumption
<1>8. /\ \A t \in Sessions \ {s} : session'[t] = session[t] /\ \A v \in Docs : docLock[v] = t => docLock'[v] = t
      /\ session'[s] = Idle
  BY <1>1 DEF Move, Release, TypeOK
<1> HIDE DEF d, lines
<1>9. ASSUME NEW v \in Docs, NEW i \in Items
      PROVE  /\ Returned(v, i) = ReturnedIn(kardex, v, i) /\ Returned(v, i)' = ReturnedIn(kardex', v, i)
             /\ Returned(v, i) \in Nat /\ Returned(v, i)' \in Nat
             /\ d \notin ReturnsOf(v) => Returned(v, i)' = Returned(v, i)
             /\ d \in ReturnsOf(v) => Returned(v, i)' = Returned(v, i) + Total(lines, i)
  <2>1. Returned(v, i) = ReturnedIn(kardex, v, i)
    BY ReturnedIsIn
  <2>2. Returned(v, i)' = ReturnedIn(kardex', v, i)
    BY DEF Returned, ReturnedIn, ReturnsOf, Returning, Total, InAll
  <2>3. /\ ReturnedIn(kardex, v, i) \in Nat /\ ReturnedIn(kardex', v, i) \in Nat
        /\ d \notin ReturnsOf(v) => ReturnedIn(kardex', v, i) = ReturnedIn(kardex, v, i)
        /\ d \in ReturnsOf(v) =>
               ReturnedIn(kardex', v, i) + Total(kardex[d].lines, i) = ReturnedIn(kardex, v, i) + Total(kardex'[d].lines, i)
    <3>1. kardex \in Kardexes /\ kardex' \in Kardexes /\ d \in Docs /\ \A e \in Docs \ {d} : kardex[e] = kardex'[e]
      BY <1>1, <1>2, <1>4
    <3> QED BY <3>1, ReturnedChange
  <2>4. Total(kardex[d].lines, i) = 0 /\ Total(kardex'[d].lines, i) = Total(lines, i) /\ Total(lines, i) \in Nat
    BY <1>4, <1>6
  <2> QED BY <2>1, <2>2, <2>3, <2>4
<1>10. ASSUME NEW v \in Docs, NEW i \in Items
       PROVE  /\ Sold(v, i) \in Nat /\ Sold(v, i)' \in Nat
              /\ v # d => Sold(v, i)' = Sold(v, i)
              /\ v = d => Sold(v, i) = 0
  <2>1. Sold(v, i) \in Nat
    BY <1>1, SoldType
  <2>2. v # d => Sold(v, i)' = Sold(v, i)
    BY <1>4 DEF Sold, Total, InAll
  <2>3. v = d => Sold(v, i) = 0
    BY <1>2 DEF Sold
  <2>4. Sold(v, i)' \in Nat
    <3>1. kardex'[v].lines \in Quantities
      BY <1>1, LinesType DEF Kardexes
    <3>2. Total(kardex'[v].lines, i) \in Nat
      BY <3>1, TotalType
    <3> QED BY <3>2 DEF Sold, Total, InAll
  <2> QED BY <2>1, <2>2, <2>3, <2>4
<1>11. ASSUME NEW v \in Docs, d \in ReturnsOf(v)
       PROVE  Returning(d) /\ ReturnOf[d] = v /\ v # d
  BY <1>2, <1>7, <1>11 DEF ReturnsOf, Returnable, Returning
<1>12. ReturnsWithinSold'
  <2>1. SUFFICES ASSUME NEW v \in Docs, NEW i \in Items, ReturnsOf(v) # {}
                 PROVE  Returned(v, i)' <= Sold(v, i)'
    BY DEF ReturnsWithinSold, ReturnsOf, Returning
  <2>2. Returned(v, i) <= Sold(v, i)
    BY <2>1 DEF SoldInv, ReturnsWithinSold
  <2>3. CASE d \notin ReturnsOf(v)
    BY <1>9, <1>10, <2>2, <2>3
  <2>4. CASE d \in ReturnsOf(v)
    <3>1. v # d /\ WithinSold(v, lines)
      BY <1>7, <1>11, <2>4
    <3>2. CASE i \in ItemsOf(lines)
      <4>1. Total(lines, i) <= Sold(v, i) - Returned(v, i)
        BY <3>1, <3>2 DEF WithinSold
      <4>2. Returned(v, i)' = Returned(v, i) + Total(lines, i) /\ Sold(v, i)' = Sold(v, i)
        BY <1>9, <1>10, <2>4, <3>1
      <4>3. Returned(v, i) \in Nat /\ Sold(v, i) \in Nat /\ Total(lines, i) \in Nat
        BY <1>6, <1>9, <1>10
      <4> QED BY <4>1, <4>2, <4>3
    <3>3. CASE i \notin ItemsOf(lines)
      <4>1. Returned(v, i)' = Returned(v, i) + Total(lines, i) /\ Sold(v, i)' = Sold(v, i)
        BY <1>9, <1>10, <2>4, <3>1
      <4>2. Total(lines, i) = 0 /\ Returned(v, i) \in Nat
        BY <1>6, <1>9, <3>3
      <4> QED BY <2>2, <4>1, <4>2
    <3> QED BY <3>2, <3>3
  <2> QED BY <2>3, <2>4
<1>13. ASSUME NEW t \in Sessions \ {s} PROVE HoldsInvoice(t)'
  <2>1. TypeOK /\ (session[t].doc \in Docs \/ session[t].pc # "move")
    BY DEF IInv, SessionInv, Own
  <2>2. HoldsInvoice(t)
    BY DEF SoldInv
  <2>3. \A v \in Docs : Returnable(v) => Returnable(v)'
    <3>1. ASSUME NEW v \in Docs, Returnable(v) PROVE Returnable(v)'
      <4>1. v # d
        BY <1>2, <3>1 DEF Returnable
      <4>2. doc'[v] = doc[v]
        BY <1>4, <4>1
      <4> QED BY <3>1, <4>2 DEF Returnable
    <3> QED BY <3>1
  <2>4. ASSUME NEW v \in Docs, NEW its \in Quantities, WithinSold(v, its), docLock[v] = t, session[t].pc = "move",
               Returning(session[t].doc), v = ReturnOf[session[t].doc]
        PROVE  WithinSold(v, its)'
    <3>1. Returnable(v)
      BY <2>2, <2>4 DEF HoldsInvoice
    <3>2. v # d
      BY <1>2, <3>1 DEF Returnable
    <3>3. d \notin ReturnsOf(v)
      BY <1>7, <1>11, <2>4
    <3>4. \A i \in Items : Returned(v, i)' = Returned(v, i) /\ Sold(v, i)' = Sold(v, i)
      BY <1>9, <1>10, <3>2, <3>3
    <3> QED BY <2>4, <3>4 DEF WithinSold, Total, InAll, ItemsOf
  <2> QED BY <1>8, <2>1, <2>2, <2>3, <2>4, InvoiceKept
<1>14. HoldsInvoice(s)'
  BY <1>8, NotMoving DEF Idle
<1> QED BY <1>12, <1>13, <1>14 DEF SoldInv

(* A void: an invoice with live returns is not voided, and the void of a   *)
(* return only gives back.                                                 *)
LEMMA SoldVoid ==
    ASSUME StockAssumption, IInv, IInv', SoldInv, NEW s \in Sessions, Void(s)
    PROVE  SoldInv'
<1> DEFINE d == session[s].doc
<1>1. TypeOK /\ TypeOK' /\ FinalIsPosted /\ Own(s) /\ kardex \in Kardexes /\ kardex' \in Kardexes
  BY DEF IInv, SessionInv, TypeOK, Kardexes
<1>2. d \in Docs /\ docLock[d] = s /\ ~ HasLiveReturns(d)
  BY <1>1 DEF Own, Void
<1>3. /\ \A e \in Docs \ {d} : kardex[e] = kardex'[e] /\ doc'[e] = doc[e]
      /\ kardex'[d] = NoRows /\ doc'[d].status # "final"
  BY <1>1, <1>2 DEF Void, Voided, TypeOK
<1>4. /\ \A t \in Sessions \ {s} : session'[t] = session[t] /\ \A v \in Docs : docLock[v] = t => docLock'[v] = t
      /\ session'[s] = Idle
  BY <1>1 DEF Void, Release, TypeOK
<1> HIDE DEF d
<1>5. ASSUME NEW v \in Docs, NEW i \in Items
      PROVE  /\ Returned(v, i) \in Nat /\ Returned(v, i)' \in Nat /\ Returned(v, i)' <= Returned(v, i)
             /\ v = d => Returned(v, i)' = 0
  <2>1. Returned(v, i) = ReturnedIn(kardex, v, i)
    BY ReturnedIsIn
  <2>2. Returned(v, i)' = ReturnedIn(kardex', v, i)
    BY DEF Returned, ReturnedIn, ReturnsOf, Returning, Total, InAll
  <2>3. /\ ReturnedIn(kardex, v, i) \in Nat /\ ReturnedIn(kardex', v, i) \in Nat
        /\ Total(kardex[d].lines, i) \in Nat
        /\ d \notin ReturnsOf(v) => ReturnedIn(kardex', v, i) = ReturnedIn(kardex, v, i)
        /\ d \in ReturnsOf(v) =>
               ReturnedIn(kardex', v, i) + Total(kardex[d].lines, i) = ReturnedIn(kardex, v, i) + Total(kardex'[d].lines, i)
    BY <1>1, <1>2, <1>3, ReturnedChange
  <2>4. Total(kardex'[d].lines, i) = 0
    <3>1. Nothing \in Quantities /\ i \notin ItemsOf(Nothing) /\ kardex'[d].lines = Nothing
      BY <1>3 DEF NoRows, Nothing, Quantities, ItemsOf
    <3> QED BY <3>1, TotalType
  <2>5. ASSUME v = d PROVE ReturnedIn(kardex', v, i) = 0
    <3>1. ASSUME NEW e \in ReturnsOf(d) PROVE kardex'[e] = NoRows
      <4>1. doc[e].status \in {"absent", "void"} /\ e \in Docs
        BY <1>2 DEF HasLiveReturns, ReturnsOf
      <4>2. kardex[e] = NoRows
        BY <1>1, <4>1 DEF FinalIsPosted
      <4> QED BY <1>3, <4>1, <4>2
    <3> QED BY <1>1, <2>5, <3>1, NothingReturned
  <2> QED BY <2>1, <2>2, <2>3, <2>4, <2>5
<1>6. ASSUME NEW v \in Docs, NEW i \in Items
      PROVE  /\ Sold(v, i) \in Nat /\ Sold(v, i)' \in Nat
             /\ v # d => Sold(v, i)' = Sold(v, i)
  <2>1. Sold(v, i) \in Nat
    BY <1>1, SoldType
  <2>2. v # d => Sold(v, i)' = Sold(v, i)
    BY <1>3 DEF Sold, Total, InAll
  <2>3. v = d => Sold(v, i)' = 0
    BY <1>3 DEF Sold
  <2> QED BY <2>1, <2>2, <2>3
<1>7. ReturnsWithinSold'
  <2>1. SUFFICES ASSUME NEW v \in Docs, NEW i \in Items, ReturnsOf(v) # {}
                 PROVE  Returned(v, i)' <= Sold(v, i)'
    BY DEF ReturnsWithinSold, ReturnsOf, Returning
  <2>2. Returned(v, i) <= Sold(v, i)
    BY <2>1 DEF SoldInv, ReturnsWithinSold
  <2> QED BY <1>5, <1>6, <2>2
<1>8. ASSUME NEW t \in Sessions \ {s} PROVE HoldsInvoice(t)'
  <2>1. TypeOK /\ (session[t].doc \in Docs \/ session[t].pc # "move")
    BY DEF IInv, SessionInv, Own
  <2>2. HoldsInvoice(t)
    BY DEF SoldInv
  <2>3. \A v \in Docs : docLock[v] = t => v # d
    BY <1>2
  <2>4. \A v \in Docs : Returnable(v) /\ docLock[v] = t => Returnable(v)'
    <3>1. ASSUME NEW v \in Docs, Returnable(v), docLock[v] = t PROVE Returnable(v)'
      <4>1. doc'[v] = doc[v]
        BY <1>3, <2>3, <3>1
      <4> QED BY <3>1, <4>1 DEF Returnable
    <3> QED BY <3>1
  <2>5. ASSUME NEW v \in Docs, NEW its \in Quantities, WithinSold(v, its), docLock[v] = t
        PROVE  WithinSold(v, its)'
    <3>1. \A i \in Items : Returned(v, i)' <= Returned(v, i) /\ Sold(v, i)' = Sold(v, i)
                           /\ Returned(v, i) \in Nat /\ Returned(v, i)' \in Nat /\ Sold(v, i) \in Nat
      BY <1>5, <1>6, <2>3, <2>5
    <3>2. \A i \in Items : (i \in ItemsOf(its))' <=> i \in ItemsOf(its)
      BY DEF ItemsOf
    <3>3. ASSUME NEW i \in ItemsOf(its) PROVE Total(its, i) <= Sold(v, i)' - Returned(v, i)'
      <4>1. i \in Items /\ Total(its, i) <= Sold(v, i) - Returned(v, i)
        BY <2>5 DEF WithinSold, ItemsOf
      <4>2. Total(its, i) \in Nat
        BY <4>1, TotalType
      <4> QED BY <3>1, <4>1, <4>2
    <3> QED BY <3>3 DEF WithinSold, Total, InAll, ItemsOf
  <2> QED BY <1>4, <2>1, <2>2, <2>4, <2>5, InvoiceKept
<1>9. HoldsInvoice(s)'
  BY <1>4, NotMoving DEF Idle
<1> QED BY <1>7, <1>8, <1>9 DEF SoldInv

LEMMA SoldStep ==
    ASSUME StockAssumption, IInv, IInv', SoldInv, Next
    PROVE  SoldInv'
<1>1. TypeOK /\ NoSession \notin Sessions /\ FinalIsPosted
  BY DEF IInv, StockAssumption
<1>2. ASSUME NEW s \in Sessions, kardex' = kardex, doc' = doc,
             \A t \in Sessions \ {s} : session'[t] = session[t],
             \A v \in Docs : docLock'[v] # docLock[v] => docLock[v] = NoSession \/ docLock[v] = s,
             HoldsInvoice(s)'
      PROVE  SoldInv'
  <2>1. \A t \in Sessions \ {s} : \A v \in Docs : docLock[v] = t => docLock'[v] = t
    BY <1>1, <1>2
  <2> QED BY <1>2, <2>1, SoldQuiet
<1>3. ASSUME NEW s \in Sessions, NEW pc, pc # "move", kardex' = kardex, doc' = doc,
             NEW me, session' = [session EXCEPT ![s] = me], me.pc = pc,
             \A v \in Docs : docLock'[v] # docLock[v] => docLock[v] = NoSession
      PROVE  SoldInv'
  <2>1. session'[s].pc # "move" /\ \A t \in Sessions \ {s} : session'[t] = session[t]
    BY <1>1, <1>3 DEF TypeOK
  <2>2. HoldsInvoice(s)'
    BY <2>1, NotMoving
  <2> QED BY <1>2, <1>3, <2>1, <2>2
<1>4. ASSUME NEW s \in Sessions, NEW d \in Docs, PeekFinalize(s, d) \/ PeekVoid(s, d) PROVE SoldInv'
  <2>1. kardex' = kardex /\ doc' = doc /\ docLock' = docLock
    BY <1>4 DEF PeekFinalize, PeekVoid
  <2>2. ASSUME NEW op, NEW its, Begin(s, op, d, its) PROVE SoldInv'
    <3>1. [Idle EXCEPT !.pc = "items", !.op = op, !.doc = d, !.todo = its].pc = "items"
      BY DEF Idle
    <3> QED BY <1>3, <2>1, <2>2, <3>1 DEF Begin
  <2> QED BY <1>4, <2>2 DEF PeekFinalize, PeekVoid
<1>5. ASSUME NEW s \in Sessions, NEW d \in Docs, BeginFinal(s, d) PROVE SoldInv'
  <2>1. PICK e \in Entries[d] :
            session' = [session EXCEPT ![s] = [pc |-> "items", op |-> "create", doc |-> d, todo |-> ItemsOf(e.lines),
                                               missing |-> {}, lines |-> e.lines, day |-> e.day]]
    BY <1>5 DEF BeginFinal
  <2> QED BY <1>3, <1>5, <2>1 DEF BeginFinal
<1>6. ASSUME NEW s \in Sessions, NEW d \in Docs, BeginReturnDraft(s, d) PROVE SoldInv'
  <2>1. PICK e \in Entries[d] :
            session' = [session EXCEPT ![s] = [Idle EXCEPT !.pc = "insert", !.op = "create", !.doc = d,
                                                           !.lines = e.lines, !.day = e.day]]
    BY <1>6 DEF BeginReturnDraft
  <2>2. [Idle EXCEPT !.pc = "insert", !.op = "create", !.doc = d, !.lines = e.lines, !.day = e.day].pc = "insert"
    BY DEF Idle
  <2> QED BY <1>3, <1>6, <2>1, <2>2 DEF BeginReturnDraft
<1>7. ASSUME NEW s \in Sessions, LockItem(s) PROVE SoldInv'
  <2>1. session'[s].pc = "items" /\ \A t \in Sessions \ {s} : session'[t] = session[t]
    BY <1>1, <1>7 DEF LockItem, TypeOK, SessionStates
  <2> QED BY <1>2, <1>7, <2>1, NotMoving DEF LockItem
<1>8. ASSUME NEW s \in Sessions, LockMissing(s) PROVE SoldInv'
  <2>1. HoldsInvoice(s) /\ session' = session /\ docLock' = docLock /\ kardex' = kardex /\ doc' = doc
    BY <1>8 DEF LockMissing, SoldInv
  <2> QED BY <2>1, SoldQuiet
<1>9. ASSUME NEW s \in Sessions, NEW d \in Docs, session'[s].pc = AfterItems(d), session'[s].doc = d
      PROVE  HoldsInvoice(s)'
  <2>1. session'[s].pc # "move" \/ ~ Returning(session'[s].doc)
    BY <1>9 DEF AfterItems
  <2> QED BY <2>1, NotMoving
<1>10. ASSUME NEW s \in Sessions, Checked(s) PROVE SoldInv'
  <2>1. session[s].doc \in Docs
    BY <1>10 DEF Checked, IInv, SessionInv, Own
  <2>2. /\ session'[s].pc = AfterItems(session[s].doc) /\ session'[s].doc = session[s].doc
        /\ \A t \in Sessions \ {s} : session'[t] = session[t]
    BY <1>1, <1>10 DEF Checked, TypeOK, SessionStates
  <2>3. HoldsInvoice(s)'
    BY <1>9, <2>1, <2>2
  <2> QED BY <1>2, <1>10, <2>2, <2>3 DEF Checked
<1>11. ASSUME NEW s \in Sessions, LockFinalize(s) PROVE SoldInv'
  <2>1. session[s].doc \in Docs
    BY <1>11 DEF LockFinalize, IInv, SessionInv, Own
  <2>2. /\ session'[s].pc = AfterItems(session[s].doc) /\ session'[s].doc = session[s].doc
        /\ \A t \in Sessions \ {s} : session'[t] = session[t]
    BY <1>1, <1>11 DEF LockFinalize, TypeOK, SessionStates
  <2>3. HoldsInvoice(s)'
    BY <1>9, <2>1, <2>2
  <2>4. \A v \in Docs : docLock'[v] # docLock[v] => docLock[v] = NoSession
    BY <1>1, <1>11 DEF LockFinalize, TypeOK
  <2> QED BY <1>2, <1>11, <2>2, <2>3, <2>4 DEF LockFinalize
<1>12. ASSUME NEW s \in Sessions, LockVoid(s) PROVE SoldInv'
  <2>1. session'[s].pc = "check" /\ \A t \in Sessions \ {s} : session'[t] = session[t]
    BY <1>1, <1>12 DEF LockVoid, TypeOK, SessionStates
  <2>2. \A v \in Docs : docLock'[v] # docLock[v] => docLock[v] = NoSession
    BY <1>1, <1>12 DEF LockVoid, TypeOK
  <2> QED BY <1>2, <1>12, <2>1, <2>2, NotMoving DEF LockVoid
<1>13. ASSUME NEW s \in Sessions, CheckOutflow(s) PROVE SoldInv'
  <2>1. session'[s].doc = session[s].doc /\ \A t \in Sessions \ {s} : session'[t] = session[t]
    BY <1>1, <1>13 DEF CheckOutflow, TypeOK, SessionStates
  <2>2. ~ Returning(session'[s].doc)
    BY <1>13, <2>1 DEF CheckOutflow, Outgoing, Returning
  <2> QED BY <1>2, <1>13, <2>1, <2>2, NotMoving DEF CheckOutflow
<1>14. ASSUME NEW s \in Sessions, CheckReturn(s) PROVE SoldInv'
  <2>0. PICK v : v = ReturnOf[session[s].doc]
    OBVIOUS
  <2>1. session[s].doc \in Docs /\ Returning(session[s].doc)
    BY <1>14 DEF CheckReturn, IInv, SessionInv, Own
  <2>2. v \in Docs
    BY <2>0, <2>1 DEF StockAssumption, Returning
  <2>3. /\ session'[s].doc = session[s].doc /\ session'[s].lines = session[s].lines
        /\ \A t \in Sessions \ {s} : session'[t] = session[t]
    BY <1>1, <1>14 DEF CheckReturn, TypeOK, SessionStates
  <2>4. docLock'[v] = s /\ \A u \in Docs : docLock'[u] # docLock[u] => docLock[u] = NoSession
    BY <1>1, <1>14, <2>0, <2>2 DEF CheckReturn, TypeOK
  <2>5. Returnable(v) /\ WithinSold(v, session[s].lines) /\ kardex' = kardex /\ doc' = doc
    BY <1>14, <2>0 DEF CheckReturn
  <2>6. Returnable(v)' /\ WithinSold(v, session[s].lines)'
    <3>1. /\ \A u \in Docs : Returnable(u) => Returnable(u)'
          /\ \A u \in Docs : \A its : WithinSold(u, its) => WithinSold(u, its)'
      BY <2>5, SoldSteady
    <3>2. Returnable(v)'
      BY <2>2, <2>5 DEF Returnable
    <3>3. WithinSold(v, session[s].lines)'
      BY <2>5, <2>3 DEF WithinSold, Sold, Returned, ReturnsOf, Returning, Total, InAll, ItemsOf
    <3> QED BY <3>2, <3>3
  <2>7. HoldsInvoice(s)'
    BY <2>0, <2>3, <2>4, <2>6 DEF HoldsInvoice, Returnable, WithinSold, Sold, Returned, ReturnsOf, Returning, Total, InAll, ItemsOf
  <2> QED BY <1>2, <2>3, <2>4, <2>5, <2>7
<1>15. ASSUME NEW s \in Sessions, Release(s)
       PROVE  /\ HoldsInvoice(s)'
              /\ \A t \in Sessions \ {s} :
                     session'[t] = session[t] /\ \A v \in Docs : docLock[v] = t => docLock'[v] = t
  <2>1. session'[s] = Idle /\ \A t \in Sessions \ {s} : session'[t] = session[t]
    BY <1>1, <1>15 DEF Release, TypeOK
  <2>2. \A t \in Sessions \ {s} : \A v \in Docs : docLock[v] = t => docLock'[v] = t
    BY <1>15 DEF Release
  <2>3. HoldsInvoice(s)'
    BY <2>1, NotMoving DEF Idle
  <2> QED BY <2>1, <2>2, <2>3
<1>16. ASSUME NEW s \in Sessions, RollBack(s) PROVE SoldInv'
  BY <1>15, <1>16, SoldQuiet DEF RollBack
<1>17. ASSUME NEW s \in Sessions, InsertReturnDraft(s) PROVE SoldInv'
  <2>1. session[s].doc \in Docs /\ doc[session[s].doc].status = "absent"
    BY <1>17 DEF InsertReturnDraft, IInv, SessionInv, Own
  <2>2. \A v \in Docs : doc'[v] = doc[v] \/ (doc[v].status # "final" /\ doc'[v].status # "final")
    BY <1>1, <1>17, <2>1 DEF InsertReturnDraft, TypeOK
  <2> QED BY <1>15, <1>17, <2>2, SoldQuiet DEF InsertReturnDraft
<1>18. ASSUME NEW d \in Docs, CreateDraft(d) \/ Edit(d) PROVE SoldInv'
  <2>1. doc[d].status # "final"
    BY <1>18 DEF CreateDraft, Fresh, Edit, Editable
  <2>2. PICK e \in Entries[d], status \in {"draft", "proforma"} :
            doc' = [doc EXCEPT ![d] = [status |-> status, day |-> e.day, lines |-> e.lines]]
    BY <1>18 DEF CreateDraft, Edit
  <2>3. \A v \in Docs : doc'[v] = doc[v] \/ (doc[v].status # "final" /\ doc'[v].status # "final")
    BY <1>1, <2>1, <2>2 DEF TypeOK
  <2>4. session' = session /\ docLock' = docLock /\ kardex' = kardex
    BY <1>18 DEF CreateDraft, Edit
  <2> QED BY <2>3, <2>4, SoldQuiet
<1>19. ASSUME NEW s \in Sessions, SessionStep(s) PROVE SoldInv'
  BY <1>4, <1>5, <1>6, <1>7, <1>8, <1>10, <1>11, <1>12, <1>13, <1>14, <1>16, <1>17, <1>19, SoldMove, SoldVoid DEF SessionStep
<1> QED BY <1>18, <1>19 DEF Next

(* The final returns of an invoice never exceed what it still sells, even  *)
(* when two of them, or a return and the void of the invoice, overlap: the *)
(* row lock on the invoice (assertReturnWithinSold) is enough.             *)
THEOREM ReturnsStayWithinSold == Spec => []ReturnsWithinSold
<1>1. Init => SoldInv
  <2> SUFFICES ASSUME Init PROVE SoldInv
    OBVIOUS
  <2>1. kardex \in Kardexes
    BY StockAssumption, LinesType DEF Init, NoRows, Kardexes, StockAssumption
  <2>2. ASSUME NEW v \in Docs, NEW i \in Items PROVE Returned(v, i) <= Sold(v, i)
    <3>1. \A e \in ReturnsOf(v) : kardex[e] = NoRows
      BY DEF Init, ReturnsOf
    <3>2. Returned(v, i) = 0
      BY <2>1, <3>1, StockAssumption, NothingReturned, ReturnedIsIn
    <3>3. Sold(v, i) = 0
      BY DEF Init, Sold
    <3> QED BY <3>2, <3>3
  <2>3. \A s \in Sessions : HoldsInvoice(s)
    BY DEF Init, HoldsInvoice, Idle
  <2> QED BY <2>2, <2>3 DEF SoldInv, ReturnsWithinSold
<1>2. IInv /\ IInv' /\ SoldInv /\ [Next]_vars => SoldInv'
  <2>1. ASSUME SoldInv, UNCHANGED vars PROVE SoldInv'
    BY <2>1 DEF SoldInv, ReturnsWithinSold, HoldsInvoice, Returnable, WithinSold, Sold, Returned, ReturnsOf, Returning,
       Total, InAll, ItemsOf, vars
  <2> QED BY <2>1, StockAssumption, SoldStep
<1>3. SoldInv => ReturnsWithinSold
  BY DEF SoldInv
<1> QED BY <1>1, <1>2, <1>3, StockInvariant, PTL DEF Spec

-----------------------------------------------------------------------------
(* Waiting.  Items are taken in ascending order before any document, and   *)
(* who holds a document waits at most for an invoice, whose holder waits   *)
(* for nothing.  So sessions that wait in a circle would all wait for      *)
(* items, and the one that waits for the greatest is blocked by one that   *)
(* waits for a greater.                                                    *)

ForInvoice(d) == Returning(d) => Kind[ReturnOf[d]] = "invoice"

Locks(s) ==
    LET me == session[s] IN
    /\ me.pc \in {"idle", "insert"} => HeldItems(s) = {}
    /\ me.pc = "items" => \A i \in HeldItems(s), j \in me.todo : i < j
    /\ \A d \in Docs : docLock[d] = s =>
           /\ me.pc \in {"check", "move"}
           /\ me.pc = "check" => d = me.doc /\ me.op # "create"
    /\ me.pc = "insert" => ForInvoice(me.doc)

LockInv == (\A s \in Sessions : Locks(s)) /\ \A d \in Docs : Editable(d) => ForInvoice(d)

LEMMA SomeItems ==
    ASSUME StockAssumption, NEW its \in SUBSET Items
    PROVE  its \in SUBSET Int /\ IsFiniteSet(its)
<1>1. Items \subseteq Nat /\ IsFiniteSet(Items)
  BY DEF StockAssumption
<1>2. IsFiniteSet(its)
  BY <1>1, FS_Subset
<1> QED BY <1>1, <1>2

(* A session that takes no lock and stays as it is. *)
LEMMA LocksKept ==
    ASSUME NEW t \in Sessions, Locks(t), session'[t] = session[t],
           \A i \in Items : itemLock'[i] = t => itemLock[i] = t,
           \A d \in Docs : docLock'[d] = t => docLock[d] = t
    PROVE  Locks(t)'
BY DEF Locks, HeldItems, ForInvoice, Returning

(* A step of s under which the others take no lock: what is left to show   *)
(* is about s and the drafts.                                              *)
LEMMA OneLocks ==
    ASSUME LockInv, NEW s \in Sessions, Locks(s)',
           \A t \in Sessions \ {s} :
               /\ session'[t] = session[t]
               /\ \A i \in Items : itemLock'[i] = t => itemLock[i] = t
               /\ \A d \in Docs : docLock'[d] = t => docLock[d] = t,
           \A d \in Docs : doc'[d] = doc[d] \/ (doc'[d].status \in {"draft", "proforma"} => ForInvoice(d))
    PROVE  LockInv'
<1>1. ASSUME NEW t \in Sessions \ {s} PROVE Locks(t)'
  <2>1. Locks(t)
    BY DEF LockInv
  <2> QED BY <2>1, LocksKept
<1>2. ASSUME NEW d \in Docs, Editable(d)' PROVE ForInvoice(d)'
  <2>1. CASE doc'[d] = doc[d]
    BY <1>2, <2>1 DEF LockInv, Editable, ForInvoice, Returning
  <2>2. CASE doc'[d].status \in {"draft", "proforma"} => ForInvoice(d)
    BY <1>2, <2>2 DEF Editable, ForInvoice, Returning
  <2> QED BY <2>1, <2>2
<1> QED BY <1>1, <1>2 DEF LockInv

LEMMA LockStep ==
    ASSUME StockAssumption, TypeOK, SessionInv, LockInv, Next
    PROVE  LockInv'
<1>1. NoSession \notin Sessions /\ Items \subseteq Nat /\ IsFiniteSet(Items)
  BY DEF StockAssumption
<1>2. ASSUME NEW s \in Sessions PROVE Locks(s) /\ Own(s)
  BY DEF LockInv, SessionInv
<1>3. ASSUME NEW s \in Sessions, NEW me, session' = [session EXCEPT ![s] = me], doc' = doc, Locks(s)',
             \A t \in Sessions \ {s} : /\ \A i \in Items : itemLock'[i] = t => itemLock[i] = t
                                       /\ \A d \in Docs : docLock'[d] = t => docLock[d] = t
      PROVE  LockInv'
  <2>1. \A t \in Sessions \ {s} : session'[t] = session[t]
    BY <1>3 DEF TypeOK
  <2> QED BY <1>3, <2>1, OneLocks
<1>4. ASSUME NEW s \in Sessions, session[s].pc = "idle", NEW me, session' = [session EXCEPT ![s] = me],
             me.pc = "items" \/ (me.pc = "insert" /\ ForInvoice(me.doc)),
             itemLock' = itemLock, docLock' = docLock, doc' = doc
      PROVE  LockInv'
  <2>1. session'[s] = me
    BY <1>4 DEF TypeOK
  <2>2. HeldItems(s) = {} /\ \A d \in Docs : docLock[d] # s
    BY <1>2, <1>4 DEF Locks
  <2>3. HeldItems(s)' = {} /\ \A d \in Docs : docLock'[d] # s
    BY <1>4, <2>2 DEF HeldItems
  <2>4. Locks(s)'
    BY <1>4, <2>1, <2>3 DEF Locks, ForInvoice, Returning
  <2> QED BY <1>3, <1>4, <2>4
<1>5. ASSUME NEW s \in Sessions, NEW d \in Docs, PeekFinalize(s, d) \/ PeekVoid(s, d) PROVE LockInv'
  <2>1. doc' = doc /\ docLock' = docLock /\ itemLock' = itemLock
    BY <1>5 DEF PeekFinalize, PeekVoid
  <2>2. ASSUME NEW op, NEW its, Begin(s, op, d, its) PROVE LockInv'
    <3>1. [Idle EXCEPT !.pc = "items", !.op = op, !.doc = d, !.todo = its].pc = "items"
      BY DEF Idle
    <3> QED BY <1>4, <2>1, <2>2, <3>1 DEF Begin
  <2> QED BY <1>5, <2>2 DEF PeekFinalize, PeekVoid
<1>6. ASSUME NEW s \in Sessions, NEW d \in Docs, BeginFinal(s, d) PROVE LockInv'
  <2>1. PICK e \in Entries[d] :
            session' = [session EXCEPT ![s] = [pc |-> "items", op |-> "create", doc |-> d, todo |-> ItemsOf(e.lines),
                                               missing |-> {}, lines |-> e.lines, day |-> e.day]]
    BY <1>6 DEF BeginFinal
  <2> QED BY <1>4, <1>6, <2>1 DEF BeginFinal
<1>7. ASSUME NEW s \in Sessions, NEW d \in Docs, BeginReturnDraft(s, d) PROVE LockInv'
  <2>1. PICK e \in Entries[d] :
            session' = [session EXCEPT ![s] = [Idle EXCEPT !.pc = "insert", !.op = "create", !.doc = d,
                                                           !.lines = e.lines, !.day = e.day]]
    BY <1>7 DEF BeginReturnDraft
  <2> DEFINE me == [Idle EXCEPT !.pc = "insert", !.op = "create", !.doc = d, !.lines = e.lines, !.day = e.day]
  <2>2. me.pc = "insert" /\ me.doc = d
    BY DEF Idle
  <2>3. ForInvoice(d)
    BY <1>7 DEF BeginReturnDraft, Returnable, ForInvoice
  <2> HIDE DEF me
  <2>4. session' = [session EXCEPT ![s] = me]
    BY <2>1 DEF me
  <2> QED BY <1>4, <1>7, <2>2, <2>3, <2>4 DEF BeginReturnDraft
<1>8. ASSUME NEW s \in Sessions, LockItem(s) PROVE LockInv'
  <2>0. PICK i : i = Min(session[s].todo)
    OBVIOUS
  <2>1. session[s].todo \in SUBSET Items /\ session[s].todo # {} /\ session[s].pc = "items"
    BY <1>8, SessionFields DEF LockItem, TypeOK
  <2>2. i \in session[s].todo /\ \A j \in session[s].todo : i <= j
    <3>1. session[s].todo \in SUBSET Int /\ IsFiniteSet(session[s].todo)
      BY <2>1, SomeItems
    <3> QED BY <2>0, <2>1, <3>1, MinOfFinite
  <2>3. /\ session' = [session EXCEPT ![s].todo = @ \ {i}] /\ itemLock' = [itemLock EXCEPT ![i] = s]
        /\ itemLock[i] = NoSession /\ docLock' = docLock /\ doc' = doc
    BY <1>8, <2>0 DEF LockItem
  <2>4. session'[s].pc = "items" /\ session'[s].todo = session[s].todo \ {i}
        /\ \A t \in Sessions \ {s} : session'[t] = session[t]
    BY <2>1, <2>3 DEF TypeOK, SessionStates
  <2>5. HeldItems(s)' = HeldItems(s) \cup {i}
    BY <2>1, <2>2, <2>3 DEF TypeOK, HeldItems
  <2>6. \A h \in HeldItems(s), j \in session[s].todo : h < j
    BY <1>2, <2>1 DEF Locks
  <2>7. ASSUME NEW j \in session[s].todo \ {i} PROVE i < j
    <3>1. i \in Items /\ j \in Items
      BY <2>1, <2>2
    <3>2. i \in Nat /\ j \in Nat /\ i <= j /\ i # j
      BY <1>1, <2>2, <3>1
    <3> QED BY <3>2
  <2>8. \A h \in HeldItems(s)', j \in session'[s].todo : h < j
    BY <2>4, <2>5, <2>6, <2>7
  <2>9. \A d \in Docs : docLock'[d] # s
    BY <1>2, <2>1, <2>3 DEF Locks
  <2>10. Locks(s)'
    BY <2>4, <2>8, <2>9 DEF Locks
  <2>11. \A t \in Sessions \ {s} : \A j \in Items : itemLock'[j] = t => itemLock[j] = t
    BY <2>3 DEF TypeOK
  <2> QED BY <2>3, <2>4, <2>10, <2>11, OneLocks
<1>9. ASSUME NEW s \in Sessions, session'[s].pc \in {"check", "move"},
             \A d \in Docs : docLock'[d] = s =>
                 (session'[s].pc = "check" => d = session'[s].doc /\ session'[s].op # "create")
      PROVE  Locks(s)'
  BY <1>9 DEF Locks
<1>10. ASSUME NEW d PROVE AfterItems(d) \in {"check", "move"}
  BY DEF AfterItems
<1>11. ASSUME NEW s \in Sessions, Checked(s) PROVE LockInv'
  <2>1. session'[s].pc = AfterItems(session[s].doc) /\ \A t \in Sessions \ {s} : session'[t] = session[t]
    BY <1>11 DEF Checked, TypeOK, SessionStates
  <2>2. \A d \in Docs : docLock'[d] # s
    BY <1>2, <1>11 DEF Checked, Locks
  <2>3. Locks(s)'
    BY <1>9, <1>10, <2>1, <2>2
  <2> QED BY <1>11, <2>1, <2>3, OneLocks DEF Checked
<1>12. ASSUME NEW s \in Sessions, LockFinalize(s) \/ LockVoid(s) PROVE LockInv'
  <2>1. /\ session'[s].pc \in {"check", "move"} /\ session'[s].doc = session[s].doc /\ session'[s].op # "create"
        /\ \A t \in Sessions \ {s} : session'[t] = session[t]
    <3>1. CASE LockFinalize(s)
      <4>1. session'[s].pc = AfterItems(session[s].doc) /\ session'[s].doc = session[s].doc /\ session'[s].op = session[s].op
            /\ \A t \in Sessions \ {s} : session'[t] = session[t]
        BY <3>1 DEF LockFinalize, TypeOK, SessionStates
      <4> QED BY <1>10, <3>1, <4>1 DEF LockFinalize
    <3>2. CASE LockVoid(s)
      BY <3>2 DEF LockVoid, TypeOK, SessionStates
    <3> QED BY <1>12, <3>1, <3>2
  <2>2. \A d \in Docs : docLock[d] # s
    BY <1>2, <1>12 DEF LockFinalize, LockVoid, Locks
  <2>3. /\ \A d \in Docs : docLock'[d] = s => d = session[s].doc
        /\ \A t \in Sessions \ {s}, d \in Docs : docLock'[d] = t => docLock[d] = t
        /\ itemLock' = itemLock /\ doc' = doc
    BY <1>12, <2>2 DEF LockFinalize, LockVoid, TypeOK
  <2>4. Locks(s)'
    BY <1>9, <2>1, <2>3
  <2> QED BY <2>1, <2>3, <2>4, OneLocks
<1>13. ASSUME NEW s \in Sessions, LockMissing(s) PROVE LockInv'
  <2>1. session' = session /\ docLock' = docLock /\ doc' = doc /\ session[s].pc \in {"check", "move"}
    BY <1>13 DEF LockMissing
  <2>2. \A t \in Sessions \ {s}, i \in Items : itemLock'[i] = t => itemLock[i] = t
    BY <1>13 DEF LockMissing, TypeOK
  <2>3. Locks(s)'
    BY <1>2, <2>1 DEF Locks
  <2> QED BY <2>1, <2>2, <2>3, OneLocks
<1>14. ASSUME NEW s \in Sessions, CheckOutflow(s) \/ CheckReturn(s) PROVE LockInv'
  <2>1. session'[s].pc = "move" /\ \A t \in Sessions \ {s} : session'[t] = session[t]
    BY <1>14 DEF CheckOutflow, CheckReturn, TypeOK, SessionStates
  <2>2. /\ \A t \in Sessions \ {s}, d \in Docs : docLock'[d] = t => docLock[d] = t
        /\ itemLock' = itemLock /\ doc' = doc
    BY <1>14 DEF CheckOutflow, CheckReturn, TypeOK
  <2>3. Locks(s)'
    BY <1>9, <2>1
  <2> QED BY <2>1, <2>2, <2>3, OneLocks
<1>15. ASSUME NEW s \in Sessions, Release(s),
              \A d \in Docs : doc'[d] = doc[d] \/ (doc'[d].status \in {"draft", "proforma"} => ForInvoice(d))
       PROVE  LockInv'
  <2>1. session'[s] = Idle /\ \A t \in Sessions \ {s} : session'[t] = session[t]
    BY <1>15 DEF Release, TypeOK
  <2>2. /\ \A t \in Sessions \ {s} : /\ \A i \in Items : itemLock'[i] = t => itemLock[i] = t
                                     /\ \A d \in Docs : docLock'[d] = t => docLock[d] = t
        /\ \A i \in Items : itemLock'[i] # s
        /\ \A d \in Docs : docLock'[d] # s
    BY <1>1, <1>15 DEF Release
  <2>3. Locks(s)'
    <3>1. session'[s].pc = "idle"
      BY <2>1 DEF Idle
    <3>2. HeldItems(s)' = {}
      BY <2>2 DEF HeldItems
    <3> QED BY <2>2, <3>1, <3>2 DEF Locks
  <2> QED BY <1>15, <2>1, <2>2, <2>3, OneLocks
<1>16. ASSUME NEW s \in Sessions, RollBack(s) PROVE LockInv'
  BY <1>15, <1>16 DEF RollBack
<1>17. ASSUME NEW s \in Sessions, InsertReturnDraft(s) PROVE LockInv'
  <2>1. session[s].doc \in Docs /\ ForInvoice(session[s].doc)
    BY <1>2, <1>17 DEF InsertReturnDraft, Own, Locks
  <2>2. \A d \in Docs : doc'[d] = doc[d] \/ (doc'[d].status \in {"draft", "proforma"} => ForInvoice(d))
    BY <1>17, <2>1 DEF InsertReturnDraft, TypeOK
  <2> QED BY <1>15, <1>17, <2>2 DEF InsertReturnDraft
<1>18. ASSUME NEW s \in Sessions, Move(s) \/ Void(s) PROVE LockInv'
  <2>1. session[s].doc \in Docs
    BY <1>2, <1>18 DEF Move, Void, Own
  <2>2. \A d \in Docs : doc'[d] = doc[d] \/ doc'[d].status \in {"final", "void"}
    BY <1>18, <2>1 DEF Move, Void, Voided, TypeOK, DocStates
  <2> QED BY <1>15, <1>18, <2>2 DEF Move, Void
<1>19. ASSUME NEW d \in Docs, CreateDraft(d) \/ Edit(d) PROVE LockInv'
  <2>1. ForInvoice(d)
    BY <1>19 DEF CreateDraft, Edit, Returnable, ForInvoice
  <2>2. session' = session /\ docLock' = docLock /\ itemLock' = itemLock
    BY <1>19 DEF CreateDraft, Edit
  <2>3. \A e \in Docs \ {d} : doc'[e] = doc[e]
    BY <1>19 DEF CreateDraft, Edit, TypeOK
  <2>4. \A s \in Sessions : Locks(s)'
    BY <1>2, <2>2 DEF Locks, HeldItems, ForInvoice, Returning
  <2>5. \A e \in Docs : Editable(e)' => ForInvoice(e)'
    BY <2>1, <2>3 DEF LockInv, Editable, ForInvoice, Returning
  <2> QED BY <2>4, <2>5 DEF LockInv
<1>20. ASSUME NEW s \in Sessions, SessionStep(s) PROVE LockInv'
  BY <1>5, <1>6, <1>7, <1>8, <1>11, <1>12, <1>13, <1>14, <1>16, <1>17, <1>18, <1>20 DEF SessionStep
<1> QED BY <1>19, <1>20 DEF Next

(* Who holds an invoice waits for nothing, and who holds a document at     *)
(* most for an invoice.                                                    *)
LEMMA HoldersWait ==
    ASSUME StockAssumption, TypeOK, SessionInv, LockInv, NEW s \in Sessions, NEW d \in Docs, docLock[d] = s
    PROVE  /\ Kind[d] = "invoice" => Blockers(s) = {}
           /\ Blockers(s) # {} =>
                  \E v \in Docs : Kind[v] = "invoice" /\ Blockers(s) = {docLock[v]}
<1>1. Locks(s) /\ Own(s)
  BY DEF LockInv, SessionInv
<1>2. session[s].pc \in {"check", "move"}
      /\ (session[s].pc = "check" => d = session[s].doc /\ session[s].op # "create")
  BY <1>1 DEF Locks
<1>3. CASE session[s].pc = "move" \/ ~ Returning(session[s].doc) \/ session[s].op = "void"
  BY <1>2, <1>3 DEF Blockers
<1>4. CASE session[s].pc = "check" /\ Returning(session[s].doc) /\ session[s].op # "void"
  <2>1. d = session[s].doc /\ session[s].op = "finalize"
    BY <1>1, <1>2, <1>4 DEF Own, TypeOK, SessionStates
  <2>2. Editable(d) /\ Returning(d)
    BY <1>1, <1>4, <2>1 DEF Own
  <2>3. ReturnOf[d] \in Docs /\ Kind[ReturnOf[d]] = "invoice"
    BY <2>2 DEF LockInv, ForInvoice, Returning, StockAssumption
  <2>4. Blockers(s) = {docLock[ReturnOf[d]]}
    BY <1>4, <2>1 DEF Blockers
  <2>5. Kind[d] # "invoice"
    BY <2>2 DEF Returning
  <2> QED BY <2>3, <2>4, <2>5
<1> QED BY <1>2, <1>3, <1>4

(* In a circle, nobody waits for a document. *)
LEMMA CirclesWaitForItems ==
    ASSUME StockAssumption, TypeOK, SessionInv, LockInv, NEW circle \in SUBSET Sessions,
           \A s \in circle : Blockers(s) \cap circle # {}, NEW s \in circle
    PROVE  session[s].pc = "items" /\ session[s].todo # {} /\ itemLock[Min(session[s].todo)] \in circle
<1>1. ASSUME NEW t \in circle, NEW d \in Docs, Blockers(t) = {docLock[d]} PROVE FALSE
  <2>1. PICK u \in circle : docLock[d] = u
    BY <1>1
  <2>2. Blockers(u) # {}
    OBVIOUS
  <2>3. PICK v \in Docs : Kind[v] = "invoice" /\ Blockers(u) = {docLock[v]}
    BY <2>1, <2>2, HoldersWait
  <2>4. PICK x \in circle : docLock[v] = x
    BY <2>3
  <2>5. Blockers(x) = {}
    BY <2>3, <2>4, HoldersWait
  <2> QED BY <2>5
<1>2. CASE session[s].pc = "items" /\ session[s].todo # {}
  <2>1. Blockers(s) = {itemLock[Min(session[s].todo)]}
    BY <1>2 DEF Blockers
  <2> QED BY <1>2, <2>1
<1>3. CASE ~ (session[s].pc = "items" /\ session[s].todo # {})
  <2>1. Blockers(s) # {}
    OBVIOUS
  <2>2. session[s].doc \in Docs
    BY <1>3, <2>1 DEF Blockers, SessionInv, Own
  <2>3. \E d \in Docs : Blockers(s) = {docLock[d]}
    <3>1. CASE session[s].pc = "items"
      BY <1>3, <2>1, <2>2, <3>1 DEF Blockers
    <3>2. CASE session[s].pc # "items"
      <4>1. Returning(session[s].doc) /\ Blockers(s) = {docLock[ReturnOf[session[s].doc]]}
        BY <2>1, <3>2 DEF Blockers
      <4>2. ReturnOf[session[s].doc] \in Docs
        BY <2>2, <4>1 DEF Returning, StockAssumption
      <4> QED BY <4>1, <4>2
    <3> QED BY <3>1, <3>2
  <2> QED BY <1>1, <2>3
<1> QED BY <1>2, <1>3

(* lib/lockOrder.ts: transactions never wait for each other in a circle,   *)
(* however many they are, unless one of them locks an item that an edit    *)
(* brought into its document.                                              *)
THEOREM NobodyWaitsInCircles == Spec => []NoCircularWait
<1>1. Init => LockInv
  BY StockAssumption DEF Init, LockInv, Locks, HeldItems, Idle, Editable, StockAssumption
<1>2. IInv /\ LockInv /\ [Next]_vars => LockInv'
  <2>1. ASSUME LockInv, UNCHANGED vars PROVE LockInv'
    BY <2>1 DEF LockInv, Locks, HeldItems, Editable, ForInvoice, Returning, vars
  <2> QED BY <2>1, StockAssumption, LockStep DEF IInv
<1>3. IInv /\ LockInv => NoCircularWait
  <2> SUFFICES ASSUME TypeOK, SessionInv, LockInv, NEW circle \in SUBSET Sessions, circle # {},
                      \A s \in circle : Blockers(s) \cap circle # {}
               PROVE  FALSE
    BY DEF IInv, NoCircularWait
  <2>1. Items \subseteq Nat /\ IsFiniteSet(Items) /\ StockAssumption
    BY StockAssumption DEF StockAssumption
  <2> DEFINE waits(s) == Min(session[s].todo)
  <2>2. ASSUME NEW s \in circle
        PROVE  /\ session[s].pc = "items" /\ itemLock[waits(s)] \in circle
               /\ waits(s) \in session[s].todo /\ waits(s) \in Items
    <3>1. session[s].pc = "items" /\ session[s].todo # {} /\ itemLock[waits(s)] \in circle
      BY <2>1, CirclesWaitForItems
    <3>2. session[s].todo \in SUBSET Items
      BY SessionFields DEF TypeOK
    <3>3. session[s].todo \in SUBSET Int /\ IsFiniteSet(session[s].todo)
      BY <2>1, <3>2, SomeItems
    <3>4. waits(s) \in session[s].todo
      BY <3>1, <3>3, MinOfFinite
    <3> QED BY <3>1, <3>2, <3>4
  <2> DEFINE waited == {waits(s) : s \in circle}
  <2>3. waited \in SUBSET Items /\ waited # {}
    BY <2>2
  <2>4. waited \in SUBSET Int /\ IsFiniteSet(waited)
    <3> HIDE DEF waited
    <3> QED BY <2>1, <2>3, SomeItems
  <2>5. Max(waited) \in waited /\ \A i \in waited : i <= Max(waited)
    <3> HIDE DEF waited
    <3> QED BY <2>3, <2>4, MaxOfFinite
  <2>6. PICK s \in circle : waits(s) = Max(waited)
    BY <2>5
  <2>7. PICK t \in circle : itemLock[waits(s)] = t
    BY <2>2
  <2>8. waits(s) < waits(t)
    <3>1. Locks(t) /\ session[t].pc = "items" /\ waits(t) \in session[t].todo
      BY <2>2 DEF LockInv
    <3>2. waits(s) \in HeldItems(t)
      BY <2>2, <2>7 DEF HeldItems
    <3> HIDE DEF waits
    <3> QED BY <3>1, <3>2 DEF Locks
  <2>9. waits(t) <= waits(s) /\ waits(t) \in Nat /\ waits(s) \in Nat
    <3>1. waits(t) \in waited
      OBVIOUS
    <3>2. waits(t) <= Max(waited)
      BY <2>5, <3>1
    <3> QED BY <2>1, <2>2, <2>6, <3>2
  <2> HIDE DEF waits
  <2> QED BY <2>8, <2>9
<1> QED BY <1>1, <1>2, <1>3, StockInvariant, PTL DEF Spec
=============================================================================
