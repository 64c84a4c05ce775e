---------------------------- MODULE SumTheorems ----------------------------
(***************************************************************************)
(* Facts about SumFunctionOnSet, the sum of a function over a finite set   *)
(* of indices.  The ledgers of the program are sums of this kind: the      *)
(* claims of a mint, the receipts of a category, the payments of a cycle,  *)
(* what the cycles of a reserve still owe.                                 *)
(*                                                                         *)
(* The library defines the sum by recursion over the subsets of the index  *)
(* set.  That the recursion has a solution, and what it computes, is       *)
(* proved by induction over those subsets.  The induction is stated with a *)
(* set of subsets instead of a predicate (FiniteSetInduction), which keeps *)
(* it first-order.                                                         *)
(***************************************************************************)
EXTENDS Integers, FiniteSetsExt, FiniteSetTheorems, TLAPS

-----------------------------------------------------------------------------
(* Of the subsets of a finite set that lie in T one has no proper subset   *)
(* in T.                                                                   *)
LEMMA MinimalSubset ==
    ASSUME NEW S, IsFiniteSet(S), NEW T, T \subseteq SUBSET S, T # {}
    PROVE  \E x \in T : \A y \in T : ~(y \subseteq x /\ y # x)
<1>1. IsWellFoundedOn(StrictSubsetOrdering(S), SUBSET S)
  <2>1. IsWellFoundedOn(StrictSubsetOrdering(S), FiniteSubsetsOf(S))
    BY FS_StrictSubsetOrderingWellFounded
  <2>2. FiniteSubsetsOf(S) = SUBSET S
    BY FS_FiniteSubsetsOfFinite
  <2> QED BY <2>1, <2>2
<1>2. PICK x \in T : \A y \in T : ~ (<<y, x>> \in StrictSubsetOrdering(S))
  BY <1>1, WFMin
<1> QED BY <1>2 DEF StrictSubsetOrdering

(* A set of subsets that contains a subset of S whenever it contains all   *)
(* its proper subsets contains S.                                          *)
LEMMA FiniteSetInduction ==
    ASSUME NEW S, IsFiniteSet(S), NEW G,
           \A T \in SUBSET S : (\A U \in SUBSET T : U # T => U \in G) => T \in G
    PROVE  \A T \in SUBSET S : T \in G
<1> DEFINE Bad == {T \in SUBSET S : T \notin G}
<1>1. SUFFICES ASSUME Bad # {} PROVE FALSE
  OBVIOUS
<1>2. Bad \subseteq SUBSET S
  OBVIOUS
<1> HIDE DEF Bad
<1>3. PICK T \in Bad : \A U \in Bad : ~(U \subseteq T /\ U # T)
  BY <1>1, <1>2, MinimalSubset
<1>4. \A U \in SUBSET T : U # T => U \in G
  BY <1>3 DEF Bad
<1> QED BY <1>3, <1>4 DEF Bad

-----------------------------------------------------------------------------
(* The recursion of the library, on the subsets of S.                      *)
Chosen(T) == CHOOSE x \in T : TRUE

SumRecursion(f, S, g) ==
    g = [T \in SUBSET S |->
            IF T = {} THEN 0 ELSE f[Chosen(T)] + g[T \ {Chosen(T)}]]

(* The index the recursion takes off lies in the set.                      *)
LEMMA ChosenIn == ASSUME NEW T, T # {} PROVE Chosen(T) \in T
BY DEF Chosen

(* The sum over S is what a solution of the recursion gives S.             *)
LEMMA SumIsRecursion ==
    ASSUME NEW f, NEW S
    PROVE  SumFunctionOnSet(f, S) = (CHOOSE g : SumRecursion(f, S, g))[S]
BY DEF SumFunctionOnSet, FoldFunctionOnSet, MapThenFoldSet, SumRecursion, Chosen

(* Two solutions on the subsets of one set agree.                          *)
LEMMA RecursionUnique ==
    ASSUME NEW f, NEW S, IsFiniteSet(S), NEW g, NEW h,
           SumRecursion(f, S, g), SumRecursion(f, S, h)
    PROVE  g = h
<1> DEFINE G == {T \in SUBSET S : g[T] = h[T]}
<1>1. ASSUME NEW T \in SUBSET S, \A U \in SUBSET T : U # T => U \in G
      PROVE  T \in G
  <2>1. CASE T = {}
    BY <2>1 DEF SumRecursion
  <2>2. CASE T # {}
    <3>1. Chosen(T) \in T
      BY <2>2, ChosenIn
    <3>2. T \ {Chosen(T)} \in G
      BY <1>1, <3>1
    <3>3. /\ g[T] = f[Chosen(T)] + g[T \ {Chosen(T)}]
          /\ h[T] = f[Chosen(T)] + h[T \ {Chosen(T)}]
      BY <2>2 DEF SumRecursion
    <3> QED BY <3>2, <3>3
  <2> QED BY <2>1, <2>2
<1> HIDE DEF G
<1>2. \A T \in SUBSET S : T \in G
  BY <1>1, FiniteSetInduction
<1>3. \A T \in SUBSET S : g[T] = h[T]
  BY <1>2 DEF G
<1>4. /\ g = [T \in SUBSET S |-> g[T]]
      /\ h = [T \in SUBSET S |-> h[T]]
  BY DEF SumRecursion
<1> QED BY <1>3, <1>4

(* A solution solves the recursion on the subsets of a subset too.         *)
LEMMA RecursionRestricted ==
    ASSUME NEW f, NEW S, NEW g, SumRecursion(f, S, g), NEW T \in SUBSET S
    PROVE  SumRecursion(f, T, [U \in SUBSET T |-> g[U]])
<1> DEFINE h == [U \in SUBSET T |-> g[U]]
<1>1. ASSUME NEW U \in SUBSET T
      PROVE  h[U] = IF U = {} THEN 0 ELSE f[Chosen(U)] + h[U \ {Chosen(U)}]
  <2>1. h[U] = g[U] /\ h[U \ {Chosen(U)}] = g[U \ {Chosen(U)}]
    OBVIOUS
  <2>2. g[U] = IF U = {} THEN 0 ELSE f[Chosen(U)] + g[U \ {Chosen(U)}]
    BY DEF SumRecursion
  <2> QED BY <2>1, <2>2
<1>2. h = [U \in SUBSET T |-> IF U = {} THEN 0 ELSE f[Chosen(U)] + h[U \ {Chosen(U)}]]
  BY <1>1
<1> QED BY <1>2 DEF SumRecursion

(* The value that the recursion on the subsets of T gives T.               *)
Solution(f, T) == (CHOOSE g : SumRecursion(f, T, g))[T]

(* A solution on the subsets of S gives each of them its own value.        *)
LEMMA SolutionOfSubset ==
    ASSUME NEW f, NEW S, IsFiniteSet(S), NEW g, SumRecursion(f, S, g), NEW T \in SUBSET S
    PROVE  Solution(f, T) = g[T]
<1> DEFINE h == [U \in SUBSET T |-> g[U]]
           c == CHOOSE e : SumRecursion(f, T, e)
<1>1. SumRecursion(f, T, h)
  BY RecursionRestricted
<1>2. h[T] = g[T]
  OBVIOUS
<1> HIDE DEF h
<1>3. SumRecursion(f, T, c)
  BY <1>1
<1>4. IsFiniteSet(T)
  BY FS_Subset
<1> HIDE DEF c
<1>5. c = h
  BY <1>1, <1>3, <1>4, RecursionUnique
<1> QED BY <1>2, <1>5 DEF Solution, c

(* The recursion has a solution on the subsets of every finite set.        *)
LEMMA RecursionExists ==
    ASSUME NEW f, NEW S, IsFiniteSet(S)
    PROVE  \E g : SumRecursion(f, S, g)
<1> DEFINE G == {T \in SUBSET S : \E g : SumRecursion(f, T, g)}
<1>1. ASSUME NEW T \in SUBSET S, \A U \in SUBSET T : U # T => U \in G
      PROVE  T \in G
  <2> DEFINE Value(U) == IF U = {} THEN 0 ELSE f[Chosen(U)] + Solution(f, U \ {Chosen(U)})
             g == [U \in SUBSET T |-> Value(U)]
  <2>1. ASSUME NEW U \in SUBSET T, U # T
        PROVE  Value(U) = Solution(f, U)
    <3>1. PICK e : SumRecursion(f, U, e)
      BY <1>1, <2>1
    <3>2. IsFiniteSet(U)
      <4>1. U \in SUBSET S
        OBVIOUS
      <4> QED BY <4>1, FS_Subset
    <3>3. Solution(f, U) = e[U] /\ Solution(f, U \ {Chosen(U)}) = e[U \ {Chosen(U)}]
      BY <3>1, <3>2, SolutionOfSubset
    <3>4. e[U] = IF U = {} THEN 0 ELSE f[Chosen(U)] + e[U \ {Chosen(U)}]
      BY <3>1 DEF SumRecursion
    <3> QED BY <3>3, <3>4
  <2>2. ASSUME NEW U \in SUBSET T, U # {}
        PROVE  g[U] = f[Chosen(U)] + g[U \ {Chosen(U)}]
    <3> DEFINE W == U \ {Chosen(U)}
    <3>1. W \in SUBSET T /\ W # T
      BY <2>2, ChosenIn
    <3>2. g[W] = Value(W)
      BY <3>1
    <3>3. Value(W) = Solution(f, W)
      BY <3>1, <2>1
    <3>4. g[U] = f[Chosen(U)] + Solution(f, W)
      BY <2>2
    <3> QED BY <3>2, <3>3, <3>4
  <2>3. \A U \in SUBSET T : g[U] = IF U = {} THEN 0 ELSE f[Chosen(U)] + g[U \ {Chosen(U)}]
    BY <2>2
  <2>4. DOMAIN g = SUBSET T /\ g = [U \in SUBSET T |-> g[U]]
    OBVIOUS
  <2> HIDE DEF g
  <2>5. SumRecursion(f, T, g)
    BY <2>3, <2>4 DEF SumRecursion
  <2> QED BY <2>5
<1> HIDE DEF G
<1>2. \A T \in SUBSET S : T \in G
  BY <1>1, FiniteSetInduction
<1> QED BY <1>2 DEF G

-----------------------------------------------------------------------------
(* What the sum computes: nothing, for nothing.                            *)
LEMMA SumEmpty == ASSUME NEW f PROVE SumFunctionOnSet(f, {}) = 0
<1>1. IsFiniteSet({})
  BY FS_EmptySet
<1> DEFINE g == CHOOSE e : SumRecursion(f, {}, e)
<1>2. SumRecursion(f, {}, g)
  BY <1>1, RecursionExists
<1> HIDE DEF g
<1>3. g[{}] = 0
  BY <1>2 DEF SumRecursion
<1> QED BY <1>3, SumIsRecursion DEF g

(* The recursion, read as an equation between sums.                        *)
LEMMA SumOfChosen ==
    ASSUME NEW f, NEW S, IsFiniteSet(S), S # {}
    PROVE  SumFunctionOnSet(f, S) =
               f[Chosen(S)] + SumFunctionOnSet(f, S \ {Chosen(S)})
<1> DEFINE g == CHOOSE e : SumRecursion(f, S, e)
           T == S \ {Chosen(S)}
<1>1. SumRecursion(f, S, g)
  BY RecursionExists
<1>2. SumFunctionOnSet(f, S) = g[S] /\ SumFunctionOnSet(f, T) = Solution(f, T)
  BY SumIsRecursion DEF Solution
<1> HIDE DEF g
<1>3. g[S] = f[Chosen(S)] + g[T]
  BY <1>1 DEF SumRecursion
<1>4. Solution(f, T) = g[T]
  BY <1>1, SolutionOfSubset
<1> QED BY <1>2, <1>3, <1>4

(* A sum of integers is an integer, one of naturals a natural.             *)
LEMMA SumType ==
    ASSUME NEW f, NEW S, IsFiniteSet(S)
    PROVE  /\ (\A x \in S : f[x] \in Int) => SumFunctionOnSet(f, S) \in Int
           /\ (\A x \in S : f[x] \in Nat) => SumFunctionOnSet(f, S) \in Nat
<1> DEFINE G == {T \in SUBSET S :
                    /\ (\A x \in T : f[x] \in Int) => SumFunctionOnSet(f, T) \in Int
                    /\ (\A x \in T : f[x] \in Nat) => SumFunctionOnSet(f, T) \in Nat}
<1>1. ASSUME NEW T \in SUBSET S, \A U \in SUBSET T : U # T => U \in G
      PROVE  T \in G
  <2>1. CASE T = {}
    BY <2>1, SumEmpty
  <2>2. CASE T # {}
    <3> DEFINE x == Chosen(T)
               U == T \ {x}
    <3>1. x \in T
      BY <2>2, ChosenIn
    <3>2. IsFiniteSet(T)
      BY FS_Subset
    <3>3. SumFunctionOnSet(f, T) = f[x] + SumFunctionOnSet(f, U)
      BY <2>2, <3>2, SumOfChosen
    <3>4. U \in G
      BY <1>1, <3>1
    <3> QED BY <3>1, <3>3, <3>4
  <2> QED BY <2>1, <2>2
<1> HIDE DEF G
<1>2. S \in G
  BY <1>1, FiniteSetInduction
<1> QED BY <1>2 DEF G

(* Any element can be taken out of the sum, not only the chosen one.       *)
LEMMA SumRemove ==
    ASSUME NEW f, NEW S, IsFiniteSet(S), \A x \in S : f[x] \in Int, NEW x \in S
    PROVE  SumFunctionOnSet(f, S) = f[x] + SumFunctionOnSet(f, S \ {x})
<1> DEFINE G == {T \in SUBSET S : \A y \in T :
                    SumFunctionOnSet(f, T) = f[y] + SumFunctionOnSet(f, T \ {y})}
<1>1. ASSUME NEW T \in SUBSET S, \A U \in SUBSET T : U # T => U \in G
      PROVE  T \in G
  <2> SUFFICES ASSUME NEW y \in T
               PROVE  SumFunctionOnSet(f, T) = f[y] + SumFunctionOnSet(f, T \ {y})
    OBVIOUS
  <2> DEFINE z == Chosen(T)
  <2>1. z \in T /\ IsFiniteSet(T)
    BY ChosenIn, FS_Subset
  <2>2. SumFunctionOnSet(f, T) = f[z] + SumFunctionOnSet(f, T \ {z})
    BY <2>1, SumOfChosen
  <2> HIDE DEF z
  <2>3. CASE y = z
    BY <2>2, <2>3
  <2>4. CASE y # z
    <3> DEFINE U == T \ {z}
               V == T \ {y}
               W == (T \ {y}) \ {z}
    <3>1. U \ {y} = W /\ U \in SUBSET T /\ U # T /\ V \in SUBSET T /\ V # T
      BY <2>1
    <3>2. SumFunctionOnSet(f, U) = f[y] + SumFunctionOnSet(f, W)
      BY <1>1, <2>4, <3>1
    <3>3. SumFunctionOnSet(f, V) = f[z] + SumFunctionOnSet(f, W)
      BY <1>1, <2>1, <2>4, <3>1
    <3>4. SumFunctionOnSet(f, W) \in Int
      <4>1. IsFiniteSet(W) /\ \A w \in W : f[w] \in Int
        BY FS_Subset
      <4> HIDE DEF W
      <4> QED BY <4>1, SumType
    <3>5. f[y] \in Int /\ f[z] \in Int
      BY <2>1
    <3> HIDE DEF U, V, W
    <3>6. SumFunctionOnSet(f, T) = f[z] + SumFunctionOnSet(f, U)
      BY <2>2 DEF U
    <3>7. SumFunctionOnSet(f, T) = f[y] + SumFunctionOnSet(f, V)
      BY <3>2, <3>3, <3>4, <3>5, <3>6
    <3> QED BY <3>7 DEF V
  <2> QED BY <2>3, <2>4
<1> HIDE DEF G
<1>2. S \in G
  BY <1>1, FiniteSetInduction
<1> QED BY <1>2 DEF G

(* The sum depends on nothing but the values on the index set.             *)
LEMMA SumSame ==
    ASSUME NEW f, NEW g, NEW S, IsFiniteSet(S), \A x \in S : f[x] = g[x]
    PROVE  SumFunctionOnSet(f, S) = SumFunctionOnSet(g, S)
<1> DEFINE G == {T \in SUBSET S : SumFunctionOnSet(f, T) = SumFunctionOnSet(g, T)}
<1>1. ASSUME NEW T \in SUBSET S, \A U \in SUBSET T : U # T => U \in G
      PROVE  T \in G
  <2>1. CASE T = {}
    BY <2>1, SumEmpty
  <2>2. CASE T # {}
    <3> DEFINE x == Chosen(T)
               U == T \ {x}
    <3>1. x \in T /\ IsFiniteSet(T)
      BY <2>2, ChosenIn, FS_Subset
    <3>2. /\ SumFunctionOnSet(f, T) = f[x] + SumFunctionOnSet(f, U)
          /\ SumFunctionOnSet(g, T) = g[x] + SumFunctionOnSet(g, U)
      BY <2>2, <3>1, SumOfChosen
    <3>3. U \in G
      BY <1>1, <3>1
    <3> QED BY <3>1, <3>2, <3>3
  <2> QED BY <2>1, <2>2
<1> HIDE DEF G
<1>2. S \in G
  BY <1>1, FiniteSetInduction
<1> QED BY <1>2 DEF G

(* Sums add up index by index.                                             *)
LEMMA SumAdd ==
    ASSUME NEW f, NEW g, NEW h, NEW S, IsFiniteSet(S),
           \A x \in S : f[x] \in Int /\ g[x] \in Int /\ h[x] = f[x] + g[x]
    PROVE  SumFunctionOnSet(h, S) = SumFunctionOnSet(f, S) + SumFunctionOnSet(g, S)
<1> DEFINE G == {T \in SUBSET S :
                    SumFunctionOnSet(h, T) = SumFunctionOnSet(f, T) + SumFunctionOnSet(g, T)}
<1>1. ASSUME NEW T \in SUBSET S, \A U \in SUBSET T : U # T => U \in G
      PROVE  T \in G
  <2>1. CASE T = {}
    BY <2>1, SumEmpty
  <2>2. CASE T # {}
    <3> DEFINE x == Chosen(T)
               U == T \ {x}
    <3>1. x \in T /\ IsFiniteSet(T) /\ IsFiniteSet(U)
      BY <2>2, ChosenIn, FS_Subset
    <3>2. /\ SumFunctionOnSet(f, T) = f[x] + SumFunctionOnSet(f, U)
          /\ SumFunctionOnSet(g, T) = g[x] + SumFunctionOnSet(g, U)
          /\ SumFunctionOnSet(h, T) = h[x] + SumFunctionOnSet(h, U)
      BY <2>2, <3>1, SumOfChosen
    <3>3. U \in G
      BY <1>1, <3>1
    <3> HIDE DEF x
    <3>4. SumFunctionOnSet(f, U) \in Int /\ SumFunctionOnSet(g, U) \in Int
      BY <3>1, SumType
    <3>5. f[x] \in Int /\ g[x] \in Int /\ h[x] = f[x] + g[x]
      BY <3>1
    <3>6. SumFunctionOnSet(h, U) = SumFunctionOnSet(f, U) + SumFunctionOnSet(g, U)
      BY <3>3
    <3> HIDE DEF U
    <3>7. SumFunctionOnSet(h, T) = SumFunctionOnSet(f, T) + SumFunctionOnSet(g, T)
      BY <3>2, <3>4, <3>5, <3>6
    <3> QED BY <3>7
  <2> QED BY <2>1, <2>2
<1> HIDE DEF G
<1>2. S \in G
  BY <1>1, FiniteSetInduction
<1> QED BY <1>2 DEF G

(* Two functions that differ at one index have sums that differ by that    *)
(* much: an entry of a ledger is written.                                  *)
LEMMA SumChange ==
    ASSUME NEW f, NEW g, NEW S, IsFiniteSet(S), NEW x \in S,
           \A y \in S : f[y] \in Int /\ g[y] \in Int,
           \A y \in S \ {x} : g[y] = f[y]
    PROVE  SumFunctionOnSet(g, S) = SumFunctionOnSet(f, S) + (g[x] - f[x])
<1> DEFINE T == S \ {x}
           rest == SumFunctionOnSet(f, T)
<1>1. IsFiniteSet(T)
  BY FS_Subset
<1>2. SumFunctionOnSet(g, T) = rest
  BY <1>1, SumSame
<1>3. rest \in Int
  BY <1>1, SumType
<1>4. /\ SumFunctionOnSet(f, S) = f[x] + rest
      /\ SumFunctionOnSet(g, S) = g[x] + SumFunctionOnSet(g, T)
  BY SumRemove
<1> HIDE DEF rest, T
<1> QED BY <1>2, <1>3, <1>4

(* A new index adds its value.                                             *)
LEMMA SumInsert ==
    ASSUME NEW f, NEW S, IsFiniteSet(S), NEW x, x \notin S,
           \A y \in S \cup {x} : f[y] \in Int
    PROVE  SumFunctionOnSet(f, S \cup {x}) = SumFunctionOnSet(f, S) + f[x]
<1>1. IsFiniteSet(S \cup {x}) /\ (S \cup {x}) \ {x} = S
  BY FS_AddElement
<1>2. SumFunctionOnSet(f, S \cup {x}) = f[x] + SumFunctionOnSet(f, S)
  BY <1>1, SumRemove
<1>3. SumFunctionOnSet(f, S) \in Int /\ f[x] \in Int
  BY SumType
<1> QED BY <1>2, <1>3

(* Zeros add up to zero.                                                   *)
LEMMA SumZero ==
    ASSUME NEW f, NEW S, IsFiniteSet(S), \A x \in S : f[x] = 0
    PROVE  SumFunctionOnSet(f, S) = 0
<1> DEFINE G == {T \in SUBSET S : SumFunctionOnSet(f, T) = 0}
<1>1. ASSUME NEW T \in SUBSET S, \A U \in SUBSET T : U # T => U \in G
      PROVE  T \in G
  <2>1. CASE T = {}
    BY <2>1, SumEmpty
  <2>2. CASE T # {}
    <3> DEFINE x == Chosen(T)
               U == T \ {x}
    <3>1. x \in T /\ IsFiniteSet(T)
      BY <2>2, ChosenIn, FS_Subset
    <3>2. SumFunctionOnSet(f, T) = f[x] + SumFunctionOnSet(f, U)
      BY <2>2, <3>1, SumOfChosen
    <3>3. U \in G
      BY <1>1, <3>1
    <3> QED BY <3>1, <3>2, <3>3
  <2> QED BY <2>1, <2>2
<1> HIDE DEF G
<1>2. S \in G
  BY <1>1, FiniteSetInduction
<1> QED BY <1>2 DEF G

(* Indices whose value is 0 can be left out.                               *)
LEMMA SumSupport ==
    ASSUME NEW f, NEW S, IsFiniteSet(S), NEW T \in SUBSET S,
           \A x \in S : f[x] \in Int,
           \A x \in S \ T : f[x] = 0
    PROVE  SumFunctionOnSet(f, S) = SumFunctionOnSet(f, T)
<1> DEFINE G == {R \in SUBSET S : SumFunctionOnSet(f, R) = SumFunctionOnSet(f, R \cap T)}
<1>1. ASSUME NEW R \in SUBSET S, \A U \in SUBSET R : U # R => U \in G
      PROVE  R \in G
  <2>1. CASE R = {}
    <3>1. R \cap T = R
      BY <2>1
    <3> QED BY <3>1
  <2>2. CASE R # {}
    <3> DEFINE x == Chosen(R)
               U == R \ {x}
    <3>1. x \in R /\ IsFiniteSet(R) /\ IsFiniteSet(U) /\ IsFiniteSet(R \cap T)
      BY <2>2, ChosenIn, FS_Subset
    <3>2. SumFunctionOnSet(f, R) = f[x] + SumFunctionOnSet(f, U)
      BY <2>2, <3>1, SumOfChosen
    <3>3. U \in G
      BY <1>1, <3>1
    <3> HIDE DEF x
    <3>4. SumFunctionOnSet(f, U) \in Int
      BY <3>1, SumType
    <3>5. CASE x \in T
      <4>1. (R \cap T) \ {x} = U \cap T
        OBVIOUS
      <4>2. SumFunctionOnSet(f, R \cap T) = f[x] + SumFunctionOnSet(f, U \cap T)
        BY <3>1, <3>5, <4>1, SumRemove
      <4> QED BY <3>2, <3>3, <4>2
    <3>6. CASE x \notin T
      <4>1. R \cap T = U \cap T /\ f[x] = 0
        BY <3>1, <3>6
      <4> HIDE DEF U
      <4>2. SumFunctionOnSet(f, R \cap T) = SumFunctionOnSet(f, U \cap T)
        BY <4>1
      <4>3. SumFunctionOnSet(f, R) = f[x] + SumFunctionOnSet(f, U)
        BY <3>2
      <4> QED BY <3>3, <3>4, <4>1, <4>2, <4>3
    <3> QED BY <3>5, <3>6
  <2> QED BY <2>1, <2>2
<1> HIDE DEF G
<1>2. S \in G
  BY <1>1, FiniteSetInduction
<1>3. S \cap T = T
  OBVIOUS
<1> QED BY <1>2, <1>3 DEF G

(* Fewer indices, or an index less, of naturals sum to no more.            *)
LEMMA SumSubset ==
    ASSUME NEW f, NEW S, IsFiniteSet(S), \A x \in S : f[x] \in Nat, NEW T \in SUBSET S
    PROVE  SumFunctionOnSet(f, T) <= SumFunctionOnSet(f, S)
<1> DEFINE G == {R \in SUBSET S : SumFunctionOnSet(f, R \cap T) <= SumFunctionOnSet(f, R)}
<1>1. ASSUME NEW R \in SUBSET S, \A U \in SUBSET R : U # R => U \in G
      PROVE  R \in G
  <2>1. CASE R = {}
    <3>1. R \cap T = R /\ SumFunctionOnSet(f, R) = 0
      BY <2>1, SumEmpty
    <3> QED BY <3>1
  <2>2. CASE R # {}
    <3> DEFINE x == Chosen(R)
               U == R \ {x}
    <3>1. x \in R /\ IsFiniteSet(R) /\ IsFiniteSet(U) /\ IsFiniteSet(R \cap T)
          /\ IsFiniteSet(U \cap T)
      BY <2>2, ChosenIn, FS_Subset
    <3>2. SumFunctionOnSet(f, R) = f[x] + SumFunctionOnSet(f, U)
      BY <2>2, <3>1, SumOfChosen
    <3>3. U \in G
      BY <1>1, <3>1
    <3> HIDE DEF x
    <3>4. /\ SumFunctionOnSet(f, U) \in Nat
          /\ SumFunctionOnSet(f, U \cap T) \in Nat
          /\ f[x] \in Nat
      BY <3>1, SumType
    <3>5. CASE x \in T
      <4>1. (R \cap T) \ {x} = U \cap T
        OBVIOUS
      <4>2. SumFunctionOnSet(f, R \cap T) = f[x] + SumFunctionOnSet(f, U \cap T)
        BY <3>1, <3>5, <4>1, SumRemove
      <4> QED BY <3>2, <3>3, <3>4, <4>2
    <3>6. CASE x \notin T
      <4>1. R \cap T = U \cap T
        BY <3>1, <3>6
      <4> HIDE DEF U
      <4>2. SumFunctionOnSet(f, R \cap T) = SumFunctionOnSet(f, U \cap T)
        BY <4>1
      <4>3. SumFunctionOnSet(f, R) = f[x] + SumFunctionOnSet(f, U)
        BY <3>2
      <4> QED BY <3>3, <3>4, <4>1, <4>2, <4>3
    <3> QED BY <3>5, <3>6
  <2> QED BY <2>1, <2>2
<1> HIDE DEF G
<1>2. S \in G
  BY <1>1, FiniteSetInduction
<1>3. S \cap T = T
  OBVIOUS
<1> QED BY <1>2, <1>3 DEF G

(* No value exceeds a sum of naturals that it is part of.                  *)
LEMMA SumContains ==
    ASSUME NEW f, NEW S, IsFiniteSet(S), \A x \in S : f[x] \in Nat, NEW x \in S
    PROVE  f[x] <= SumFunctionOnSet(f, S)
<1>1. SumFunctionOnSet(f, S) = f[x] + SumFunctionOnSet(f, S \ {x})
  BY SumRemove
<1>2. IsFiniteSet(S \ {x})
  BY FS_Subset
<1>3. SumFunctionOnSet(f, S \ {x}) \in Nat
  BY <1>2, SumType
<1> QED BY <1>1, <1>3

(* When every index of S is matched with an index of T of its own that is  *)
(* worth at least as much, S sums to no more than T.                       *)
LEMMA SumMatched ==
    ASSUME NEW f, NEW S, IsFiniteSet(S), \A x \in S : f[x] \in Nat,
           NEW g, NEW T, IsFiniteSet(T), \A y \in T : g[y] \in Nat,
           NEW m \in [S -> T],
           \A x, y \in S : m[x] = m[y] => x = y,
           \A x \in S : f[x] <= g[m[x]]
    PROVE  SumFunctionOnSet(f, S) <= SumFunctionOnSet(g, T)
<1> DEFINE Matched(R) == {m[x] : x \in R}
           G == {R \in SUBSET S : SumFunctionOnSet(f, R) <= SumFunctionOnSet(g, Matched(R))}
<1>1. ASSUME NEW R \in SUBSET S, \A U \in SUBSET R : U # R => U \in G
      PROVE  R \in G
  <2>1. CASE R = {}
    <3>1. Matched(R) = {}
      BY <2>1
    <3>2. SumFunctionOnSet(f, R) = 0 /\ SumFunctionOnSet(g, Matched(R)) = 0
      BY <2>1, <3>1, SumEmpty
    <3> QED BY <3>2
  <2>2. CASE R # {}
    <3> DEFINE x == Chosen(R)
               U == R \ {x}
    <3>1. x \in R /\ IsFiniteSet(R) /\ IsFiniteSet(U)
      BY <2>2, ChosenIn, FS_Subset
    <3>2. SumFunctionOnSet(f, R) = f[x] + SumFunctionOnSet(f, U)
      BY <2>2, <3>1, SumOfChosen
    <3>3. SumFunctionOnSet(f, U) <= SumFunctionOnSet(g, Matched(U))
      BY <1>1, <3>1
    <3> HIDE DEF x
    <3>4. /\ Matched(R) \ {m[x]} = Matched(U)
          /\ m[x] \in Matched(R)
      BY <3>1
    <3>5. Matched(R) \in SUBSET T /\ Matched(U) \in SUBSET T
      OBVIOUS
    <3>6. IsFiniteSet(Matched(R)) /\ IsFiniteSet(Matched(U))
      BY <3>5, FS_Subset
    <3>7. SumFunctionOnSet(g, Matched(R)) = g[m[x]] + SumFunctionOnSet(g, Matched(U))
      <4> DEFINE M == Matched(R)
                 N == Matched(U)
      <4>1. /\ \A y \in M : g[y] \in Int
            /\ M \ {m[x]} = N /\ m[x] \in M /\ IsFiniteSet(M)
        BY <3>4, <3>5, <3>6
      <4> HIDE DEF M, N
      <4>2. SumFunctionOnSet(g, M) = g[m[x]] + SumFunctionOnSet(g, M \ {m[x]})
        BY <4>1, SumRemove
      <4>3. SumFunctionOnSet(g, M) = g[m[x]] + SumFunctionOnSet(g, N)
        BY <4>1, <4>2
      <4> QED BY <4>3 DEF M, N
    <3>8. SumFunctionOnSet(f, U) \in Nat
      BY <3>1, SumType
    <3>9. SumFunctionOnSet(g, Matched(U)) \in Nat
      <4> HIDE DEF Matched
      <4>1. \A y \in Matched(U) : g[y] \in Nat
        BY <3>5
      <4> QED BY <3>6, <4>1, SumType
    <3>10. f[x] \in Nat /\ g[m[x]] \in Nat /\ f[x] <= g[m[x]]
      BY <3>1
    <3> HIDE DEF U, Matched
    <3>11. SumFunctionOnSet(f, R) <= SumFunctionOnSet(g, Matched(R))
      BY <3>2, <3>3, <3>7, <3>8, <3>9, <3>10
    <3> QED BY <3>11 DEF Matched
  <2> QED BY <2>1, <2>2
<1> HIDE DEF G
<1>2. S \in G
  BY <1>1, FiniteSetInduction
<1> DEFINE I == {m[x] : x \in S}
<1>3. SumFunctionOnSet(f, S) <= SumFunctionOnSet(g, I)
  BY <1>2 DEF G
<1>4. I \in SUBSET T
  OBVIOUS
<1> HIDE DEF I
<1>5. IsFiniteSet(I) /\ \A y \in I : g[y] \in Nat
  BY <1>4, FS_Subset
<1>6. SumFunctionOnSet(g, I) <= SumFunctionOnSet(g, T)
  BY <1>4, SumSubset
<1>7. /\ SumFunctionOnSet(f, S) \in Nat /\ SumFunctionOnSet(g, I) \in Nat
      /\ SumFunctionOnSet(g, T) \in Nat
  BY <1>5, SumType
<1> QED BY <1>3, <1>6, <1>7
=============================================================================
