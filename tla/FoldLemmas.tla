----------------------------- MODULE FoldLemmas -----------------------------
(***************************************************************************)
(* Lemmas about the folds of the community modules the other modules use:   *)
(* SumFunctionOnSet, and FoldLeft where it selects from a sequence.         *)
(*                                                                         *)
(* The library's induction rules take a predicate; the two here are about   *)
(* the members of a set, and a proof by induction forms the set of those    *)
(* that have the property.                                                 *)
(***************************************************************************)
EXTENDS Integers, FiniteSets, SequencesExt, FiniteSetTheorems, SequenceTheorems, TLAPS

LEMMA Smallest ==
    ASSUME NEW S \in SUBSET Nat, S # {}
    PROVE  \E m \in S : \A k \in S : m <= k
<1> DEFINE R == {ss \in Nat \X Nat : ss[1] < ss[2]}
<1>1. IsWellFoundedOn(R, Nat)
  BY NatLessThanWellFounded DEF OpToRel
<1> HIDE DEF R
<1>2. PICK x \in S : \A y \in S : ~ (<<y, x>> \in R)
  BY <1>1, WFMin
<1>3. ASSUME NEW k \in S PROVE x <= k
  <2>1. ~ (<<k, x>> \in R) /\ k \in Nat /\ x \in Nat
    BY <1>2
  <2>2. ~ (k < x)
    BY <2>1 DEF R
  <2> QED
    BY <2>1, <2>2
<1> QED
  BY <1>3

\* Induction over the numbers up to n.
LEMMA UpTo ==
    ASSUME NEW n \in Nat, NEW G, 0 \in G, \A k \in 0..(n - 1) : k \in G => k + 1 \in G
    PROVE  n \in G
<1> DEFINE Bad == {k \in 0..n : k \notin G}
<1> SUFFICES ASSUME Bad # {} PROVE FALSE
  OBVIOUS
<1>1. PICK m \in Bad : \A k \in Bad : m <= k
  <2>1. Bad \in SUBSET Nat
    OBVIOUS
  <2> HIDE DEF Bad
  <2> QED
    BY <2>1, Smallest
<1>2. m \in 0..n /\ m \notin G /\ m # 0
  OBVIOUS
<1>3. m - 1 \in 0..(n - 1) /\ m - 1 \notin Bad /\ m - 1 \in 0..n
  BY <1>1, <1>2
<1> QED
  BY <1>2, <1>3

\* Induction over the subsets of a finite set, an element at a time.
LEMMA SetByElements ==
    ASSUME NEW S, IsFiniteSet(S), NEW G, {} \in G,
           \A T \in SUBSET S, x \in S : T \in G /\ x \notin T => T \cup {x} \in G
    PROVE  S \in G
<1> DEFINE Bad == {T \in SUBSET S : T \notin G}
<1> SUFFICES ASSUME Bad # {} PROVE FALSE
  OBVIOUS
<1>1. IsWellFoundedOn(StrictSubsetOrdering(S), SUBSET S)
  BY FS_StrictSubsetOrderingWellFounded, FS_FiniteSubsetsOfFinite
<1>2. PICK T \in Bad : \A U \in Bad : ~ (<<U, T>> \in StrictSubsetOrdering(S))
  <2>1. Bad \subseteq SUBSET S
    OBVIOUS
  <2> HIDE DEF Bad
  <2> QED
    BY <1>1, <2>1, WFMin
<1>3. PICK x \in T : TRUE
  OBVIOUS
<1>4. T \ {x} \in SUBSET S /\ T \ {x} \subseteq T /\ T \ {x} # T
  BY <1>3
<1>5. T \ {x} \in G
  <2>1. <<T \ {x}, T>> \in StrictSubsetOrdering(S)
    BY <1>4 DEF StrictSubsetOrdering
  <2> QED
    BY <1>2, <1>4, <2>1
<1>6. (T \ {x}) \cup {x} = T
  BY <1>3
<1> QED
  BY <1>3, <1>4, <1>5, <1>6

-----------------------------------------------------------------------------
(* Sums.                                                                    *)

\* h[T] is the sum of f over T, for the subsets T of S.
IsSum(h, f, S) ==
    /\ h \in [SUBSET S -> Int]
    /\ h[{}] = 0
    /\ \A T \in SUBSET S, x \in S : x \notin T => h[T \cup {x}] = h[T] + f[x]

LEMMA SumExists ==
    ASSUME NEW S, IsFiniteSet(S), NEW f, \A x \in S : f[x] \in Int
    PROVE  \E h : IsSum(h, f, S)
<1> DEFINE G == {T \in SUBSET S : \E h : IsSum(h, f, T)}
<1>1. {} \in G
  <2>1. IsSum([T \in SUBSET {} |-> 0], f, {})
    BY DEF IsSum
  <2> QED
    BY <2>1
<1>2. ASSUME NEW T \in SUBSET S, NEW x \in S, T \in G, x \notin T
      PROVE  T \cup {x} \in G
  <2>1. PICK h : IsSum(h, f, T)
    BY <1>2
  <2> DEFINE Q == T \cup {x}
             g == [U \in SUBSET Q |-> IF x \in U THEN h[U \ {x}] + f[x] ELSE h[U]]
  <2>2. ASSUME NEW U \in SUBSET Q
        PROVE  /\ x \in U => U \ {x} \in SUBSET T /\ g[U] = h[U \ {x}] + f[x]
               /\ x \notin U => U \in SUBSET T /\ g[U] = h[U]
               /\ g[U] \in Int
    BY <2>1 DEF IsSum
  <2>3. g \in [SUBSET Q -> Int]
    BY <2>2
  <2>4. g[{}] = 0
    BY <2>1, <2>2 DEF IsSum
  <2>5. ASSUME NEW U \in SUBSET Q, NEW y \in Q, y \notin U
        PROVE  g[U \cup {y}] = g[U] + f[y]
    <3> DEFINE W == U \cup {y}
    <3>0. W \in SUBSET Q /\ f[y] \in Int /\ f[x] \in Int
      OBVIOUS
    <3>1. CASE y = x
      <4>1. W \ {x} = U /\ x \in W /\ x \notin U
        BY <2>5, <3>1
      <4> HIDE DEF W, g, Q
      <4> QED
        BY <2>2, <3>0, <3>1, <4>1 DEF W
    <3>2. CASE y # x /\ x \in U
      <4>1. /\ W \ {x} = (U \ {x}) \cup {y} /\ x \in W
            /\ y \in T /\ y \notin U \ {x} /\ U \ {x} \in SUBSET T
        BY <2>5, <3>2
      <4>2. h[(U \ {x}) \cup {y}] = h[U \ {x}] + f[y] /\ h[U \ {x}] \in Int
        BY <2>1, <4>1 DEF IsSum
      <4>3. g[W] = h[W \ {x}] + f[x] /\ g[U] = h[U \ {x}] + f[x]
        BY <2>2, <3>0, <3>2, <4>1
      <4> HIDE DEF W, g, Q
      <4>4. g[W] = h[U \ {x}] + f[y] + f[x]
        BY <4>1, <4>2, <4>3
      <4> QED
        BY <3>0, <4>2, <4>3, <4>4 DEF W
    <3>3. CASE y # x /\ x \notin U
      <4>1. x \notin W /\ y \in T /\ U \in SUBSET T
        BY <2>5, <3>3
      <4>2. h[W] = h[U] + f[y]
        BY <2>1, <2>5, <4>1 DEF IsSum
      <4> QED
        BY <2>2, <3>0, <3>3, <4>1, <4>2
    <3> QED
      BY <3>1, <3>2, <3>3
  <2>6. IsSum(g, f, Q)
    <3> HIDE DEF g, Q
    <3> QED
      BY <2>3, <2>4, <2>5 DEF IsSum
  <2> QED
    BY <2>6
<1> HIDE DEF G
<1>3. S \in G
  BY <1>1, <1>2, SetByElements
<1> QED
  BY <1>3 DEF G

\* The fold is the sum: its recursion picks some element first, and the sum
\* does not depend on which.
LEMMA SumIs ==
    ASSUME NEW S, IsFiniteSet(S), NEW f, \A x \in S : f[x] \in Int,
           NEW h, IsSum(h, f, S)
    PROVE  SumFunctionOnSet(f, S) = h[S]
<1> DEFINE some(T) == CHOOSE x \in T : TRUE
           body(g) == [T \in SUBSET S |->
                          IF T = {} THEN 0 ELSE f[some(T)] + g[T \ {some(T)}]]
           iter == CHOOSE g : g = body(g)
<1>1. SumFunctionOnSet(f, S) = iter[S]
  BY Zenon DEF SumFunctionOnSet, FoldFunctionOnSet, MapThenFoldSet
<1> HIDE DEF iter
<1>2. ASSUME NEW T \in SUBSET S, T # {}
      PROVE  /\ some(T) \in T /\ T \ {some(T)} \in SUBSET S /\ T \ {some(T)} # T
             /\ T \ {some(T)} \subseteq T
             /\ h[T] = h[T \ {some(T)}] + f[some(T)]
  <2>1. some(T) \in T
    BY <1>2
  <2> DEFINE x == some(T)
             U == T \ {x}
  <2> HIDE DEF x
  <2>2. x \in T /\ x \notin U /\ U \in SUBSET S /\ U \cup {x} = T /\ U # T
    BY <2>1 DEF x
  <2>3. h[T] = h[U] + f[x]
    BY <2>2 DEF IsSum
  <2> QED
    BY <2>2, <2>3 DEF x
<1> HIDE DEF some
<1>3. h = body(h)
  <2>1. ASSUME NEW T \in SUBSET S, T # {}
        PROVE  h[T] = f[some(T)] + h[T \ {some(T)}]
    <3>1. h[T] = h[T \ {some(T)}] + f[some(T)] /\ h[T \ {some(T)}] \in Int /\ h[T] \in Int
      BY <1>2, <2>1 DEF IsSum
    <3>2. f[some(T)] \in Int
      BY <1>2, <2>1
    <3> QED
      BY <3>1, <3>2
  <2> QED
    BY <2>1 DEF IsSum
<1>4. iter = body(iter)
  BY <1>3 DEF iter
<1> DEFINE G == {T \in SUBSET S : iter[T] = h[T]}
<1>5. SUBSET S \subseteq G
  <2> SUFFICES ASSUME NEW B, B = (SUBSET S) \ G, B # {} PROVE FALSE
    OBVIOUS
  <2>1. IsWellFoundedOn(StrictSubsetOrdering(S), SUBSET S)
    BY FS_StrictSubsetOrderingWellFounded, FS_FiniteSubsetsOfFinite
  <2>2. PICK T \in B : \A U \in B : ~ (<<U, T>> \in StrictSubsetOrdering(S))
    BY <2>1, WFMin
  <2>3. T \in SUBSET S /\ iter[T] # h[T]
    OBVIOUS
  <2>4. CASE T = {}
    BY <1>4, <2>3, <2>4 DEF IsSum
  <2>5. CASE T # {}
    <3> DEFINE x == some(T)
               U == T \ {x}
    <3>1. U \in SUBSET S /\ U # T /\ U \subseteq T
      BY <1>2, <2>3, <2>5
    <3>2. <<U, T>> \in StrictSubsetOrdering(S)
      BY <2>3, <3>1 DEF StrictSubsetOrdering
    <3>3. iter[U] = h[U]
      BY <2>2, <3>1, <3>2
    <3>4. iter[T] = f[x] + iter[U]
      BY <1>4, <2>3, <2>5
    <3>5. h[T] = f[x] + h[U]
      BY <1>3, <2>3, <2>5
    <3> QED
      BY <2>3, <3>3, <3>4, <3>5
  <2> QED
    BY <2>4, <2>5
<1> QED
  BY <1>1, <1>5

LEMMA SumEmpty == ASSUME NEW f PROVE SumFunctionOnSet(f, {}) = 0
<1>1. IsFiniteSet({})
  BY FS_EmptySet
<1>2. PICK h : IsSum(h, f, {})
  BY <1>1, SumExists
<1> QED
  BY <1>1, <1>2, SumIs DEF IsSum

LEMMA SumType ==
    ASSUME NEW S, IsFiniteSet(S), NEW f, \A x \in S : f[x] \in Int
    PROVE  SumFunctionOnSet(f, S) \in Int
<1>1. PICK h : IsSum(h, f, S)
  BY SumExists
<1>2. SumFunctionOnSet(f, S) = h[S]
  BY <1>1, SumIs
<1> QED
  BY <1>1, <1>2 DEF IsSum

LEMMA SumAdd ==
    ASSUME NEW S, IsFiniteSet(S), NEW x, x \notin S,
           NEW f, \A y \in S \cup {x} : f[y] \in Int
    PROVE  SumFunctionOnSet(f, S \cup {x}) = SumFunctionOnSet(f, S) + f[x]
<1> DEFINE T == S \cup {x}
<1>1. IsFiniteSet(T)
  BY FS_AddElement
<1>2. PICK h : IsSum(h, f, T)
  BY <1>1, SumExists
<1> DEFINE g == [U \in SUBSET S |-> h[U]]
<1>3. IsSum(g, f, S)
  BY <1>2 DEF IsSum
<1>4. SumFunctionOnSet(f, S) = g[S] /\ SumFunctionOnSet(f, T) = h[T]
  BY <1>1, <1>2, <1>3, SumIs
<1>5. h[S \cup {x}] = h[S] + f[x]
  BY <1>2 DEF IsSum
<1> QED
  BY <1>4, <1>5

LEMMA SumTake ==
    ASSUME NEW S, IsFiniteSet(S), NEW x \in S, NEW f, \A y \in S : f[y] \in Int
    PROVE  SumFunctionOnSet(f, S) = SumFunctionOnSet(f, S \ {x}) + f[x]
<1>1. IsFiniteSet(S \ {x}) /\ (S \ {x}) \cup {x} = S
  BY FS_RemoveElement
<1> DEFINE R == S \ {x}
<1>2. x \notin R /\ \A y \in R \cup {x} : f[y] \in Int
  OBVIOUS
<1> HIDE DEF R
<1>3. SumFunctionOnSet(f, R \cup {x}) = SumFunctionOnSet(f, R) + f[x]
  BY <1>1, <1>2, SumAdd DEF R
<1> QED
  BY <1>1, <1>3 DEF R

LEMMA SumSame ==
    ASSUME NEW S, IsFiniteSet(S), NEW f, NEW g,
           \A x \in S : f[x] \in Int /\ g[x] = f[x]
    PROVE  SumFunctionOnSet(g, S) = SumFunctionOnSet(f, S)
<1>1. PICK h : IsSum(h, f, S)
  BY SumExists
<1>2. IsSum(h, g, S)
  BY <1>1 DEF IsSum
<1> QED
  BY <1>1, <1>2, SumIs

\* One term changes.
LEMMA SumChange ==
    ASSUME NEW S, IsFiniteSet(S), NEW x \in S, NEW f, NEW g,
           \A y \in S : f[y] \in Int, g[x] \in Int,
           \A y \in S \ {x} : g[y] = f[y]
    PROVE  SumFunctionOnSet(g, S) = SumFunctionOnSet(f, S) - f[x] + g[x]
<1>1. IsFiniteSet(S \ {x})
  BY FS_RemoveElement
<1>2. SumFunctionOnSet(g, S \ {x}) = SumFunctionOnSet(f, S \ {x})
  BY <1>1, SumSame
<1>3. SumFunctionOnSet(f, S \ {x}) \in Int
  BY <1>1, SumType
<1>4. SumFunctionOnSet(f, S) = SumFunctionOnSet(f, S \ {x}) + f[x]
  BY SumTake
<1>5. SumFunctionOnSet(g, S) = SumFunctionOnSet(g, S \ {x}) + g[x]
  <2>1. \A y \in S : g[y] \in Int
    OBVIOUS
  <2> QED
    BY <2>1, SumTake
<1> QED
  BY <1>2, <1>3, <1>4, <1>5

LEMMA SumNat ==
    ASSUME NEW S, IsFiniteSet(S), NEW f, \A x \in S : f[x] \in Nat
    PROVE  SumFunctionOnSet(f, S) \in Nat
<1> DEFINE G == {T \in SUBSET S : SumFunctionOnSet(f, T) \in Nat}
<1>1. {} \in G
  BY SumEmpty
<1>2. ASSUME NEW T \in SUBSET S, NEW x \in S, T \in G, x \notin T
      PROVE  T \cup {x} \in G
  <2>1. SumFunctionOnSet(f, T \cup {x}) = SumFunctionOnSet(f, T) + f[x]
    <3>1. IsFiniteSet(T) /\ \A y \in T \cup {x} : f[y] \in Int
      BY FS_Subset
    <3> QED
      BY <1>2, <3>1, SumAdd
  <2> QED
    BY <1>2, <2>1
<1> HIDE DEF G
<1>3. S \in G
  BY <1>1, <1>2, SetByElements
<1> QED
  BY <1>3 DEF G

LEMMA SumUnion ==
    ASSUME NEW S, IsFiniteSet(S), NEW T, IsFiniteSet(T), S \cap T = {},
           NEW f, \A x \in S \cup T : f[x] \in Int
    PROVE  SumFunctionOnSet(f, S \cup T) = SumFunctionOnSet(f, S) + SumFunctionOnSet(f, T)
<1> DEFINE G == {U \in SUBSET T :
                    SumFunctionOnSet(f, S \cup U)
                      = SumFunctionOnSet(f, S) + SumFunctionOnSet(f, U)}
<1>1. {} \in G
  BY SumEmpty, SumType
<1>2. ASSUME NEW U \in SUBSET T, NEW x \in T, U \in G, x \notin U
      PROVE  U \cup {x} \in G
  <2>1. IsFiniteSet(U) /\ IsFiniteSet(S \cup U)
    BY FS_Subset, FS_Union
  <2>2. SumFunctionOnSet(f, U \cup {x}) = SumFunctionOnSet(f, U) + f[x]
    BY <1>2, <2>1, SumAdd
  <2>3. SumFunctionOnSet(f, (S \cup U) \cup {x}) = SumFunctionOnSet(f, S \cup U) + f[x]
    <3> DEFINE Q == S \cup U
    <3>1. x \notin Q /\ \A y \in Q \cup {x} : f[y] \in Int
      BY <1>2
    <3> HIDE DEF Q
    <3>2. IsFiniteSet(Q)
      BY <2>1 DEF Q
    <3>3. SumFunctionOnSet(f, Q \cup {x}) = SumFunctionOnSet(f, Q) + f[x]
      BY <3>1, <3>2, SumAdd
    <3> QED
      BY <3>3 DEF Q
  <2>4. (S \cup U) \cup {x} = S \cup (U \cup {x})
    OBVIOUS
  <2>5. SumFunctionOnSet(f, S) \in Int /\ SumFunctionOnSet(f, U) \in Int /\ f[x] \in Int
    BY <2>1, SumType
  <2>6. SumFunctionOnSet(f, S \cup (U \cup {x}))
          = SumFunctionOnSet(f, S) + SumFunctionOnSet(f, U \cup {x})
    <3>1. SumFunctionOnSet(f, S \cup U) = SumFunctionOnSet(f, S) + SumFunctionOnSet(f, U)
      BY <1>2
    <3>2. SumFunctionOnSet(f, S \cup (U \cup {x})) = SumFunctionOnSet(f, S \cup U) + f[x]
      BY <2>3, <2>4
    <3> HIDE DEF G
    <3> QED
      BY <2>2, <2>5, <3>1, <3>2
  <2> QED
    BY <2>6
<1> HIDE DEF G
<1>3. T \in G
  BY <1>1, <1>2, SetByElements
<1> QED
  BY <1>3 DEF G

LEMMA SumConstant ==
    ASSUME NEW S, IsFiniteSet(S), NEW c \in Int, NEW f, \A x \in S : f[x] = c
    PROVE  SumFunctionOnSet(f, S) = c * Cardinality(S)
<1> DEFINE G == {T \in SUBSET S : SumFunctionOnSet(f, T) = c * Cardinality(T)}
<1>1. {} \in G
  BY SumEmpty, FS_EmptySet
<1>2. ASSUME NEW T \in SUBSET S, NEW x \in S, T \in G, x \notin T
      PROVE  T \cup {x} \in G
  <2>1. IsFiniteSet(T) /\ Cardinality(T) \in Nat /\ Cardinality(T \cup {x}) = Cardinality(T) + 1
    BY <1>2, FS_Subset, FS_AddElement, FS_CardinalityType
  <2>2. SumFunctionOnSet(f, T \cup {x}) = SumFunctionOnSet(f, T) + c
    BY <1>2, <2>1, SumAdd
  <2>3. c * (Cardinality(T) + 1) = c * Cardinality(T) + c
    <3> DEFINE n == Cardinality(T)
    <3> HIDE DEF n
    <3>1. n \in Nat
      BY <2>1 DEF n
    <3>2. c * (n + 1) = c * n + c
      BY <3>1
    <3> QED
      BY <3>2 DEF n
  <2> QED
    BY <1>2, <2>1, <2>2, <2>3
<1> HIDE DEF G
<1>3. S \in G
  BY <1>1, <1>2, SetByElements
<1> QED
  BY <1>3 DEF G

\* Terms are taken out of a sum.
LEMMA SumClear ==
    ASSUME NEW S, IsFiniteSet(S), NEW T \in SUBSET S,
           NEW f, \A x \in S : f[x] \in Int,
           NEW g, \A x \in S : g[x] = IF x \in T THEN 0 ELSE f[x]
    PROVE  SumFunctionOnSet(g, S) = SumFunctionOnSet(f, S) - SumFunctionOnSet(f, T)
<1> DEFINE R == S \ T
<1>1. /\ IsFiniteSet(T) /\ IsFiniteSet(R) /\ T \cap R = {} /\ T \cup R = S
      /\ \A x \in T : g[x] = 0 /\ f[x] \in Int
      /\ \A x \in R : g[x] = f[x] /\ f[x] \in Int
      /\ \A x \in T \cup R : g[x] \in Int /\ f[x] \in Int
  BY FS_Subset
<1> HIDE DEF R
<1>2. /\ SumFunctionOnSet(f, T \cup R) = SumFunctionOnSet(f, T) + SumFunctionOnSet(f, R)
      /\ SumFunctionOnSet(g, T \cup R) = SumFunctionOnSet(g, T) + SumFunctionOnSet(g, R)
  BY <1>1, SumUnion
<1>3. SumFunctionOnSet(g, R) = SumFunctionOnSet(f, R)
  BY <1>1, SumSame
<1>4. SumFunctionOnSet(g, T) = 0
  <2>1. Cardinality(T) \in Nat /\ SumFunctionOnSet(g, T) = 0 * Cardinality(T)
    BY <1>1, FS_CardinalityType, SumConstant
  <2> QED
    BY <2>1
<1>5. SumFunctionOnSet(f, T) \in Int /\ SumFunctionOnSet(f, R) \in Int
  BY <1>1, SumType
<1>6. /\ SumFunctionOnSet(f, S) = SumFunctionOnSet(f, T) + SumFunctionOnSet(f, R)
      /\ SumFunctionOnSet(g, S) = SumFunctionOnSet(g, T) + SumFunctionOnSet(g, R)
  BY <1>1, <1>2
<1> QED
  BY <1>3, <1>4, <1>5, <1>6

-----------------------------------------------------------------------------
(* Sequences built by appending.                                            *)

LEMMA MaxIs ==
    ASSUME NEW m \in Nat, NEW U \in SUBSET (1..m), m \in U
    PROVE  Max(U) = m
<1>1. Max(U) = CHOOSE x \in U : \A y \in U : x >= y
  BY Zenon DEF Max
<1>2. \A x \in U : (\A y \in U : x >= y) => x = m
  OBVIOUS
<1>3. \A y \in U : m >= y
  OBVIOUS
<1>4. \E x \in U : \A y \in U : x >= y
  BY <1>3
<1>5. (CHOOSE x \in U : \A y \in U : x >= y) \in U
      /\ \A y \in U : (CHOOSE x \in U : \A y2 \in U : x >= y2) >= y
  BY <1>4, Zenon
<1> QED
  BY <1>1, <1>2, <1>5

LEMMA AppendKeeps ==
    ASSUME NEW T, NEW w \in Seq(T), NEW x \in T, IsInjective(w), x \notin ToSet(w)
    PROVE  /\ Append(w, x) \in Seq(T) /\ IsInjective(Append(w, x))
           /\ ToSet(Append(w, x)) = ToSet(w) \cup {x}
<1>1. /\ Append(w, x) \in Seq(T) /\ DOMAIN w = 1..Len(w) /\ Len(w) \in Nat
      /\ DOMAIN Append(w, x) = 1..(Len(w) + 1)
      /\ \A i \in 1..Len(w) : Append(w, x)[i] = w[i]
      /\ Append(w, x)[Len(w) + 1] = x
  BY AppendProperties
<1>2. IsInjective(Append(w, x))
  BY <1>1 DEF IsInjective, ToSet
<1>3. ToSet(Append(w, x)) \subseteq ToSet(w) \cup {x}
  BY <1>1 DEF ToSet
<1>4. \A y \in ToSet(w) : y \in ToSet(Append(w, x))
  BY <1>1 DEF ToSet
<1>5. x \in ToSet(Append(w, x))
  BY <1>1 DEF ToSet
<1> QED
  BY <1>1, <1>2, <1>3, <1>4, <1>5

LEMMA PrependKeeps ==
    ASSUME NEW T, NEW w \in Seq(T), NEW x \in T, IsInjective(w), x \notin ToSet(w)
    PROVE  /\ <<x>> \o w \in Seq(T) /\ IsInjective(<<x>> \o w)
           /\ ToSet(<<x>> \o w) = ToSet(w) \cup {x}
<1> DEFINE v == <<x>> \o w
<1>1. /\ v \in Seq(T) /\ DOMAIN w = 1..Len(w) /\ Len(w) \in Nat
      /\ DOMAIN v = 1..(Len(w) + 1)
      /\ v[1] = x /\ \A i \in 1..Len(w) : v[i + 1] = w[i]
  OBVIOUS
<1> HIDE DEF v
<1>2. \A i \in DOMAIN v : i # 1 => i - 1 \in DOMAIN w /\ v[i] = w[i - 1]
  BY <1>1
<1>3. IsInjective(v)
  BY <1>1, <1>2 DEF IsInjective, ToSet
<1>4. ToSet(v) \subseteq ToSet(w) \cup {x}
  BY <1>1, <1>2 DEF ToSet
<1>5. \A y \in ToSet(w) : y \in ToSet(v)
  BY <1>1 DEF ToSet
<1>6. x \in ToSet(v)
  BY <1>1 DEF ToSet
<1> QED
  BY <1>1, <1>3, <1>4, <1>5, <1>6 DEF v
=============================================================================
