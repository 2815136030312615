------------------------------ MODULE SumProofs ------------------------------
(***************************************************************************)
(* Sums over finite sets: what MapThenSumSet, with which the amounts of    *)
(* the transaction decoder are added up, returns and respects.             *)
(*                                                                         *)
(* The library's induction theorems take the property as an operator,      *)
(* which no prover here can instantiate.  NatInduct and SetInduct take it  *)
(* as the set of the values that have it.                                  *)
(***************************************************************************)
EXTENDS Integers, FiniteSets, FiniteSetsExt, FiniteSetTheorems, NaturalsInduction,
        WellFoundedInduction, TLAPS

\* The sum of f[x] for all x in S.
SumOf(f, S) == MapThenSumSet(LAMBDA x : f[x], S)

------------------------------------------------------------------------------
(* Induction. *)

LEMMA NatInduct ==
    ASSUME NEW C \in SUBSET Nat, 0 \in C, \A n \in C : n + 1 \in C
    PROVE  C = Nat
<1>1. SUFFICES ASSUME Nat \ C # {} PROVE FALSE
  OBVIOUS
<1>2. IsWellFoundedOn(OpToRel(<, Nat), Nat)
  BY NatLessThanWellFounded
<1>3. PICK n \in Nat \ C : \A m \in Nat \ C : ~(<<m, n>> \in OpToRel(<, Nat))
  BY <1>1, <1>2, WFMin
<1>4. n \in Nat /\ n \notin C
  OBVIOUS
<1>5. n # 0
  BY <1>4
<1>6. n - 1 \in Nat /\ n - 1 < n /\ (n - 1) + 1 = n
  BY <1>4, <1>5
<1>7. n - 1 \in C
  BY <1>3, <1>6 DEF OpToRel
<1> QED BY <1>4, <1>6, <1>7

LEMMA SetInduct ==
    ASSUME NEW U, IsFiniteSet(U), NEW C \in SUBSET (SUBSET U), {} \in C,
           \A T \in C : \A x \in U \ T : T \cup {x} \in C
    PROVE  U \in C
<1> DEFINE N == {n \in Nat : \A T \in SUBSET U : Cardinality(T) = n => T \in C}
<1>1. 0 \in N
  <2>1. \A T \in SUBSET U : Cardinality(T) = 0 => T = {}
    BY FS_Subset, FS_EmptySet
  <2> QED BY <2>1
<1>2. ASSUME NEW n \in N PROVE n + 1 \in N
  <2> SUFFICES ASSUME NEW T \in SUBSET U, Cardinality(T) = n + 1 PROVE T \in C
    OBVIOUS
  <2>1. IsFiniteSet(T) /\ T # {}
    BY FS_Subset, FS_EmptySet
  <2>2. PICK x : x \in T
    BY <2>1
  <2>3. Cardinality(T \ {x}) = n
    <3>1. Cardinality(T \ {x}) = Cardinality(T) - 1
      BY <2>1, <2>2, FS_RemoveElement
    <3> QED BY <3>1
  <2>4. T \ {x} \in C
    BY <2>3
  <2>5. T = (T \ {x}) \cup {x} /\ x \in U \ (T \ {x})
    BY <2>2
  <2> QED BY <2>4, <2>5
<1> HIDE DEF N
<1>3. N = Nat
  <2>1. N \in SUBSET Nat
    BY DEF N
  <2> QED BY <1>1, <1>2, <2>1, NatInduct
<1>4. Cardinality(U) \in Nat
  BY FS_CardinalityType
<1> QED BY <1>3, <1>4 DEF N

------------------------------------------------------------------------------
(* The function that MapThenSumSet iterates. *)

Some(s) == CHOOSE x \in s : TRUE

Iterates(it, f, D) ==
    it = [s \in D |-> IF s = {} THEN 0 ELSE f[Some(s)] + it[s \ {Some(s)}]]

LEMMA SomeElement ==
    ASSUME NEW s, s # {}
    PROVE  Some(s) \in s
  BY DEF Some

LEMMA SumUnfolds ==
    ASSUME NEW f, NEW S
    PROVE  SumOf(f, S) = (CHOOSE it : Iterates(it, f, SUBSET S))[S]
  BY DEF SumOf, MapThenSumSet, MapThenFoldSet, Iterates, Some

\* There is one ...
LEMMA IterateExists ==
    ASSUME NEW S, IsFiniteSet(S), NEW f \in [S -> Int]
    PROVE  \E it \in [SUBSET S -> Int] : Iterates(it, f, SUBSET S)
<1> DEFINE D(n) == {s \in SUBSET S : Cardinality(s) <= n}
           C == {n \in Nat : \E it \in [D(n) -> Int] : Iterates(it, f, D(n))}
<1>a. \A s \in SUBSET S : IsFiniteSet(s) /\ Cardinality(s) \in Nat
  BY FS_Subset, FS_CardinalityType
<1>1. 0 \in C
  <2>1. \A s : s \in D(0) <=> s = {}
    BY <1>a, FS_EmptySet
  <2> DEFINE it == [s \in D(0) |-> 0]
  <2>2. it \in [D(0) -> Int] /\ Iterates(it, f, D(0))
    BY <2>1 DEF Iterates
  <2> HIDE DEF it
  <2> QED BY <2>2
<1>2. ASSUME NEW n \in C PROVE n + 1 \in C
  <2>1. PICK it \in [D(n) -> Int] : Iterates(it, f, D(n))
    OBVIOUS
  <2> DEFINE next == [s \in D(n + 1) |->
                        IF s = {} THEN 0 ELSE f[Some(s)] + it[s \ {Some(s)}]]
  <2>2. ASSUME NEW s \in D(n + 1), s # {}
        PROVE  /\ Some(s) \in S
               /\ s \ {Some(s)} \in D(n)
    <3>1. Some(s) \in s
      BY <2>2, SomeElement
    <3>2. Cardinality(s \ {Some(s)}) = Cardinality(s) - 1
      BY <3>1, <1>a, FS_RemoveElement
    <3> QED BY <3>1, <3>2, <1>a
  <2>3. next \in [D(n + 1) -> Int]
    BY <2>2
  <2>4. \A s \in D(n) : s \in D(n + 1)
    BY <1>a
  <2>5. \A s \in D(n) : next[s] = it[s]
    BY <2>1, <2>4 DEF Iterates
  <2>6. Iterates(next, f, D(n + 1))
    BY <2>2, <2>5 DEF Iterates
  <2> HIDE DEF next
  <2>7. n + 1 \in Nat
    OBVIOUS
  <2> QED BY <2>3, <2>6, <2>7
<1>3. Cardinality(S) \in C
  <2> HIDE DEF C
  <2>1. C \in SUBSET Nat
    BY DEF C
  <2> QED BY <1>1, <1>2, <1>a, <2>1, NatInduct
<1>4. D(Cardinality(S)) = SUBSET S
  BY <1>a, FS_Subset
<1> QED BY <1>3, <1>4

\* ... and only one.
LEMMA IterateUnique ==
    ASSUME NEW S, IsFiniteSet(S), NEW f \in [S -> Int], NEW i, NEW j,
           Iterates(i, f, SUBSET S), Iterates(j, f, SUBSET S)
    PROVE  i = j
<1> DEFINE C == {n \in Nat : \A s \in SUBSET S : Cardinality(s) = n => i[s] = j[s]}
<1>a. \A s \in SUBSET S : IsFiniteSet(s) /\ Cardinality(s) \in Nat
  BY FS_Subset, FS_CardinalityType
<1>1. 0 \in C
  <2>1. \A s \in SUBSET S : Cardinality(s) = 0 => s = {}
    BY <1>a, FS_EmptySet
  <2> QED BY <2>1 DEF Iterates
<1>2. ASSUME NEW n \in C PROVE n + 1 \in C
  <2> SUFFICES ASSUME NEW s \in SUBSET S, Cardinality(s) = n + 1 PROVE i[s] = j[s]
    OBVIOUS
  <2>1. s # {}
    <3>1. n + 1 # 0
      OBVIOUS
    <3> QED BY <3>1, FS_EmptySet
  <2>2. Some(s) \in s /\ s \ {Some(s)} \in SUBSET S
    BY <2>1, SomeElement
  <2>3. Cardinality(s \ {Some(s)}) = n
    <3>1. Cardinality(s \ {Some(s)}) = Cardinality(s) - 1
      BY <2>2, <1>a, FS_RemoveElement
    <3> QED BY <3>1
  <2>4. i[s \ {Some(s)}] = j[s \ {Some(s)}]
    BY <2>2, <2>3
  <2> HIDE DEF C
  <2>5. /\ i[s] = f[Some(s)] + i[s \ {Some(s)}]
        /\ j[s] = f[Some(s)] + j[s \ {Some(s)}]
    BY <2>1 DEF Iterates
  <2> QED BY <2>4, <2>5
<1> HIDE DEF C
<1>3. C = Nat
  <2>1. C \in SUBSET Nat
    BY DEF C
  <2> QED BY <1>1, <1>2, <2>1, NatInduct
<1>4. \A s \in SUBSET S : i[s] = j[s]
  BY <1>3, <1>a DEF C
<1> QED BY <1>4 DEF Iterates

\* A subset is summed by the same function.
LEMMA SumIterates ==
    ASSUME NEW U, IsFiniteSet(U), NEW f \in [U -> Int]
    PROVE  \E it \in [SUBSET U -> Int] :
              /\ Iterates(it, f, SUBSET U)
              /\ \A S \in SUBSET U : SumOf(f, S) = it[S]
<1>1. PICK it \in [SUBSET U -> Int] : Iterates(it, f, SUBSET U)
  BY IterateExists
<1>2. ASSUME NEW S \in SUBSET U PROVE SumOf(f, S) = it[S]
  <2> DEFINE g == [x \in S |-> f[x]]
             sub == [s \in SUBSET S |-> it[s]]
             own == CHOOSE k : Iterates(k, f, SUBSET S)
  <2>1. IsFiniteSet(S) /\ g \in [S -> Int]
    BY FS_Subset
  <2>2. \A k : Iterates(k, f, SUBSET S) <=> Iterates(k, g, SUBSET S)
    <3>1. \A s \in SUBSET S : s # {} => g[Some(s)] = f[Some(s)]
      BY SomeElement
    <3> HIDE DEF g
    <3>2. \A k : [s \in SUBSET S |-> IF s = {} THEN 0 ELSE f[Some(s)] + k[s \ {Some(s)}]]
                 = [s \in SUBSET S |-> IF s = {} THEN 0 ELSE g[Some(s)] + k[s \ {Some(s)}]]
      BY <3>1
    <3> QED BY <3>2 DEF Iterates
  <2>3. Iterates(sub, f, SUBSET S)
    BY <1>1 DEF Iterates
  <2>4. Iterates(own, f, SUBSET S)
    BY <2>3
  <2>5. own = sub
    BY <2>1, <2>2, <2>3, <2>4, IterateUnique
  <2>6. sub[S] = it[S]
    OBVIOUS
  <2> HIDE DEF own, sub
  <2>7. SumOf(f, S) = own[S]
    BY SumUnfolds DEF own
  <2> QED BY <2>5, <2>6, <2>7
<1> QED BY <1>1, <1>2

------------------------------------------------------------------------------
(* What a sum is. *)

\* Only the values on the set count.
LEMMA SumAgrees ==
    ASSUME NEW S, IsFiniteSet(S), NEW f, NEW g,
           \A x \in S : f[x] = g[x] /\ g[x] \in Int
    PROVE  SumOf(f, S) = SumOf(g, S)
<1> DEFINE h == [x \in S |-> g[x]]
<1>1. h \in [S -> Int] /\ \A x \in S : h[x] = f[x] /\ h[x] = g[x]
  OBVIOUS
<1> HIDE DEF h
<1>2. PICK it \in [SUBSET S -> Int] : Iterates(it, h, SUBSET S)
  BY <1>1, IterateExists
<1>3. ASSUME NEW k, \A x \in S : h[x] = k[x]
      PROVE  SumOf(k, S) = it[S]
  <2> DEFINE own == CHOOSE j : Iterates(j, k, SUBSET S)
  <2>1. \A j : Iterates(j, k, SUBSET S) <=> Iterates(j, h, SUBSET S)
    <3>1. \A s \in SUBSET S : s # {} => h[Some(s)] = k[Some(s)]
      BY <1>3, SomeElement
    <3>2. \A j : [s \in SUBSET S |-> IF s = {} THEN 0 ELSE k[Some(s)] + j[s \ {Some(s)}]]
                 = [s \in SUBSET S |-> IF s = {} THEN 0 ELSE h[Some(s)] + j[s \ {Some(s)}]]
      BY <3>1
    <3> QED BY <3>2 DEF Iterates
  <2>2. Iterates(own, k, SUBSET S)
    BY <1>2, <2>1
  <2>3. own = it
    BY <1>1, <1>2, <2>1, <2>2, IterateUnique
  <2> HIDE DEF own
  <2>4. SumOf(k, S) = own[S]
    BY SumUnfolds DEF own
  <2> QED BY <2>3, <2>4
<1> QED BY <1>1, <1>3

LEMMA SumType ==
    ASSUME NEW S, IsFiniteSet(S), NEW f, \A x \in S : f[x] \in Int
    PROVE  SumOf(f, S) \in Int
<1> DEFINE h == [x \in S |-> f[x]]
<1>1. h \in [S -> Int] /\ \A x \in S : f[x] = h[x] /\ h[x] \in Int
  OBVIOUS
<1> HIDE DEF h
<1>2. SumOf(f, S) = SumOf(h, S)
  BY <1>1, SumAgrees
<1>3. PICK it \in [SUBSET S -> Int] : \A T \in SUBSET S : SumOf(h, T) = it[T]
  BY <1>1, SumIterates
<1> QED BY <1>2, <1>3

LEMMA SumEmpty ==
    ASSUME NEW f
    PROVE  SumOf(f, {}) = 0
<1> DEFINE h == [x \in {} |-> 0]
<1>1. h \in [{} -> Int]
  OBVIOUS
<1> HIDE DEF h
<1>2. IsFiniteSet({})
  BY FS_EmptySet
<1>3. PICK it \in [SUBSET {} -> Int] :
         /\ Iterates(it, h, SUBSET {})
         /\ \A T \in SUBSET {} : SumOf(h, T) = it[T]
  BY <1>1, <1>2, SumIterates
<1>4. SumOf(h, {}) = 0
  <2>1. it[{}] = 0
    BY <1>3 DEF Iterates
  <2> QED BY <1>3, <2>1
<1> QED BY <1>2, <1>4, SumAgrees

\* One element more.
LEMMA SumInsert ==
    ASSUME NEW S, IsFiniteSet(S), NEW x, x \notin S, NEW f,
           \A y \in S \cup {x} : f[y] \in Int
    PROVE  SumOf(f, S \cup {x}) = f[x] + SumOf(f, S)
<1> DEFINE U == S \cup {x}
           h == [y \in U |-> f[y]]
<1>1. h \in [U -> Int] /\ \A y \in U : f[y] = h[y] /\ h[y] \in Int
  OBVIOUS
<1>2. IsFiniteSet(U) /\ S \in SUBSET U /\ x \in U
  BY FS_AddElement
<1> HIDE DEF h
<1>3. PICK it \in [SUBSET U -> Int] :
         /\ Iterates(it, h, SUBSET U)
         /\ \A T \in SUBSET U : SumOf(h, T) = it[T]
  BY <1>1, <1>2, SumIterates
<1> HIDE DEF U
<1> DEFINE Adds(T, y) == it[T \cup {y}] = h[y] + it[T]
           C == {n \in Nat : \A T \in SUBSET U : \A y \in U \ T :
                   Cardinality(T) = n => Adds(T, y)}
<1>4. ASSUME NEW T \in SUBSET U
      PROVE  /\ it[T] \in Int
             /\ T # {} => Some(T) \in T /\ it[T] = h[Some(T)] + it[T \ {Some(T)}]
  <2>1. T # {} => Some(T) \in T
    BY SomeElement
  <2> QED BY <1>3, <2>1 DEF Iterates
<1>5. it[{}] = 0
  BY <1>3 DEF Iterates
<1>a. \A s \in SUBSET U : IsFiniteSet(s) /\ Cardinality(s) \in Nat
  BY <1>2, FS_Subset, FS_CardinalityType
<1>6. 0 \in C
  <2> SUFFICES ASSUME NEW T \in SUBSET U, NEW y \in U \ T, Cardinality(T) = 0
               PROVE  Adds(T, y)
    OBVIOUS
  <2>1. T = {}
    BY <1>a, FS_EmptySet
  <2>2. T \cup {y} = {y} /\ {y} \in SUBSET U /\ {y} \ {y} = {}
    BY <2>1
  <2>3. Some({y}) = y
    BY <1>4, <2>2
  <2> QED BY <1>4, <1>5, <2>1, <2>2, <2>3
<1>7. ASSUME NEW n \in C PROVE n + 1 \in C
  <2> SUFFICES ASSUME NEW T \in SUBSET U, NEW y \in U \ T, Cardinality(T) = n + 1
               PROVE  Adds(T, y)
    OBVIOUS
  <2> DEFINE V == T \cup {y}
             c == Some(V)
  <2>1. V \in SUBSET U /\ V # {} /\ c \in V /\ it[V] = h[c] + it[V \ {c}]
    BY <1>4
  <2>2. CASE c = y
    <3>1. V \ {c} = T
      BY <2>2
    <3> QED BY <2>1, <2>2, <3>1
  <2>3. CASE c # y
    <3>1. c \in T /\ V \ {c} = (T \ {c}) \cup {y} /\ y \in U \ (T \ {c})
      BY <2>1, <2>3
    <3>2. Cardinality(T \ {c}) = n
      <4> HIDE DEF c
      <4>1. Cardinality(T \ {c}) = Cardinality(T) - 1
        BY <1>a, <3>1, FS_RemoveElement
      <4> QED BY <4>1
    <3>3. T \ {c} \in SUBSET U /\ c \in U \ (T \ {c}) /\ (T \ {c}) \cup {c} = T
      BY <3>1
    <3> HIDE DEF c, V, Adds
    <3>4. Adds(T \ {c}, y) /\ Adds(T \ {c}, c)
      BY <3>1, <3>2, <3>3
    <3>5. it[(T \ {c}) \cup {y}] = h[y] + it[T \ {c}] /\ it[T] = h[c] + it[T \ {c}]
      BY <3>3, <3>4 DEF Adds
    <3>6. h[c] \in Int /\ h[y] \in Int /\ it[T \ {c}] \in Int
      BY <1>1, <1>4, <3>3
    <3>7. it[V] = h[c] + (h[y] + it[T \ {c}])
      BY <2>1, <3>1, <3>5
    <3>8. it[V] = h[y] + it[T]
      BY <3>5, <3>6, <3>7
    <3> QED BY <3>8 DEF Adds, V
  <2> QED BY <2>2, <2>3
<1> HIDE DEF C, Adds
<1>8. C = Nat
  <2>1. C \in SUBSET Nat
    BY DEF C
  <2> QED BY <1>6, <1>7, <2>1, NatInduct
<1>9. Adds(S, x)
  BY <1>2, <1>8, <1>a DEF C
<1>10. SumOf(h, U) = h[x] + SumOf(h, S)
  BY <1>2, <1>3, <1>9 DEF Adds, U
<1>11. SumOf(f, U) = SumOf(h, U) /\ SumOf(f, S) = SumOf(h, S)
  <2>1. \A y \in S : y \in U
    BY DEF U
  <2> QED BY <1>1, <1>2, <2>1, SumAgrees
<1> QED BY <1>1, <1>2, <1>10, <1>11 DEF U

LEMMA SumOne ==
    ASSUME NEW x, NEW f, f[x] \in Int
    PROVE  SumOf(f, {x}) = f[x]
<1>1. SumOf(f, {} \cup {x}) = f[x] + SumOf(f, {})
  <2>1. IsFiniteSet({}) /\ x \notin {} /\ \A y \in {} \cup {x} : f[y] \in Int
    BY FS_EmptySet
  <2> QED BY <2>1, SumInsert
<1>2. {} \cup {x} = {x}
  OBVIOUS
<1> QED BY <1>1, <1>2, SumEmpty

\* One element less.
LEMMA SumRemove ==
    ASSUME NEW S, IsFiniteSet(S), NEW x \in S, NEW f, \A y \in S : f[y] \in Int
    PROVE  SumOf(f, S \ {x}) = SumOf(f, S) - f[x]
<1>1. IsFiniteSet(S \ {x}) /\ x \notin S \ {x} /\ (S \ {x}) \cup {x} = S
  BY FS_RemoveElement
<1>2. SumOf(f, (S \ {x}) \cup {x}) = f[x] + SumOf(f, S \ {x})
  BY <1>1, SumInsert
<1>3. f[x] \in Int /\ SumOf(f, S \ {x}) \in Int
  BY <1>1, SumType
<1>4. SumOf(f, S) = f[x] + SumOf(f, S \ {x})
  BY <1>1, <1>2
<1> QED BY <1>3, <1>4

\* Disjoint sets are summed one after the other.
LEMMA SumUnion ==
    ASSUME NEW S, IsFiniteSet(S), NEW T, IsFiniteSet(T), S \cap T = {}, NEW f,
           \A x \in S \cup T : f[x] \in Int
    PROVE  SumOf(f, S \cup T) = SumOf(f, S) + SumOf(f, T)
<1> DEFINE Holds(V) == SumOf(f, S \cup V) = SumOf(f, S) + SumOf(f, V)
           C == {V \in SUBSET T : Holds(V)}
<1>1. {} \in C
  <2>1. S \cup {} = S /\ SumOf(f, S) \in Int
    BY SumType
  <2> QED BY <2>1, SumEmpty
<1>2. ASSUME NEW V \in C, NEW x \in T \ V PROVE V \cup {x} \in C
  <2>1. /\ IsFiniteSet(V) /\ IsFiniteSet(S \cup V)
        /\ x \notin V /\ x \notin S \cup V
        /\ S \cup (V \cup {x}) = (S \cup V) \cup {x}
    BY FS_Subset, FS_Union
  <2>2. SumOf(f, V \cup {x}) = f[x] + SumOf(f, V)
    BY <2>1, SumInsert
  <2>3. SumOf(f, (S \cup V) \cup {x}) = f[x] + SumOf(f, S \cup V)
    BY <2>1, SumInsert
  <2>4. f[x] \in Int /\ SumOf(f, V) \in Int /\ SumOf(f, S) \in Int
    BY <2>1, SumType
  <2>5. SumOf(f, S \cup V) = SumOf(f, S) + SumOf(f, V)
    OBVIOUS
  <2>6. SumOf(f, S \cup (V \cup {x})) = f[x] + SumOf(f, S \cup V)
    BY <2>1, <2>3
  <2> HIDE DEF Holds
  <2>7. Holds(V \cup {x})
    BY <2>2, <2>4, <2>5, <2>6 DEF Holds
  <2> QED BY <2>7
<1> HIDE DEF C
<1>3. T \in C
  <2>1. C \in SUBSET (SUBSET T)
    BY DEF C
  <2> QED BY <1>1, <1>2, <2>1, SetInduct
<1> QED BY <1>3 DEF C

\* A part of a set and the rest of it.
LEMMA SumSplit ==
    ASSUME NEW S, IsFiniteSet(S), NEW T \in SUBSET S, NEW f, \A x \in S : f[x] \in Int
    PROVE  SumOf(f, S) = SumOf(f, T) + SumOf(f, S \ T)
<1>1. IsFiniteSet(T) /\ IsFiniteSet(S \ T) /\ T \cap (S \ T) = {} /\ T \cup (S \ T) = S
  BY FS_Subset
<1> QED BY <1>1, SumUnion

\* Sums are compared and added as their terms are.
LEMMA SumMonotone ==
    ASSUME NEW S, IsFiniteSet(S), NEW f, NEW g,
           \A x \in S : f[x] \in Int /\ g[x] \in Int /\ f[x] <= g[x]
    PROVE  SumOf(f, S) <= SumOf(g, S)
<1> DEFINE C == {V \in SUBSET S : SumOf(f, V) <= SumOf(g, V)}
<1>1. {} \in C
  BY SumEmpty
<1>2. ASSUME NEW V \in C, NEW x \in S \ V PROVE V \cup {x} \in C
  <2>1. IsFiniteSet(V)
    BY FS_Subset
  <2>2. SumOf(f, V \cup {x}) = f[x] + SumOf(f, V)
    BY <2>1, SumInsert
  <2>3. SumOf(g, V \cup {x}) = g[x] + SumOf(g, V)
    BY <2>1, SumInsert
  <2>4. SumOf(f, V) \in Int /\ SumOf(g, V) \in Int
    BY <2>1, SumType
  <2> QED BY <2>2, <2>3, <2>4
<1> HIDE DEF C
<1>3. S \in C
  <2>1. C \in SUBSET (SUBSET S)
    BY DEF C
  <2> QED BY <1>1, <1>2, <2>1, SetInduct
<1> QED BY <1>3 DEF C

LEMMA SumPlus ==
    ASSUME NEW S, IsFiniteSet(S), NEW f, NEW g, NEW h,
           \A x \in S : f[x] \in Int /\ g[x] \in Int /\ h[x] = f[x] + g[x]
    PROVE  SumOf(h, S) = SumOf(f, S) + SumOf(g, S)
<1> DEFINE C == {V \in SUBSET S : SumOf(h, V) = SumOf(f, V) + SumOf(g, V)}
<1>1. {} \in C
  BY SumEmpty
<1>2. ASSUME NEW V \in C, NEW x \in S \ V PROVE V \cup {x} \in C
  <2>1. IsFiniteSet(V)
    BY FS_Subset
  <2>2. SumOf(f, V \cup {x}) = f[x] + SumOf(f, V)
    BY <2>1, SumInsert
  <2>3. SumOf(g, V \cup {x}) = g[x] + SumOf(g, V)
    BY <2>1, SumInsert
  <2>4. SumOf(h, V \cup {x}) = h[x] + SumOf(h, V)
    <3>1. \A y \in V \cup {x} : h[y] \in Int
      OBVIOUS
    <3> QED BY <2>1, <3>1, SumInsert
  <2>5. SumOf(f, V) \in Int /\ SumOf(g, V) \in Int
    BY <2>1, SumType
  <2> QED BY <2>2, <2>3, <2>4, <2>5
<1> HIDE DEF C
<1>3. S \in C
  <2>1. C \in SUBSET (SUBSET S)
    BY DEF C
  <2> QED BY <1>1, <1>2, <2>1, SetInduct
<1> QED BY <1>3 DEF C

LEMMA SumZero ==
    ASSUME NEW S, IsFiniteSet(S), NEW f, \A x \in S : f[x] = 0
    PROVE  SumOf(f, S) = 0
<1> DEFINE C == {V \in SUBSET S : SumOf(f, V) = 0}
<1>1. {} \in C
  BY SumEmpty
<1>2. ASSUME NEW V \in C, NEW x \in S \ V PROVE V \cup {x} \in C
  <2>1. IsFiniteSet(V) /\ \A y \in V \cup {x} : f[y] = 0 /\ f[y] \in Int
    BY FS_Subset
  <2>2. SumOf(f, V \cup {x}) = f[x] + SumOf(f, V)
    BY <2>1, SumInsert
  <2> QED BY <2>2
<1> HIDE DEF C
<1>3. S \in C
  <2>1. C \in SUBSET (SUBSET S)
    BY DEF C
  <2> QED BY <1>1, <1>2, <2>1, SetInduct
<1> QED BY <1>3 DEF C

\* No sum of naturals is negative, or less than a part of it.
LEMMA SumNatural ==
    ASSUME NEW S, IsFiniteSet(S), NEW f, \A x \in S : f[x] \in Nat
    PROVE  SumOf(f, S) \in Nat
<1> DEFINE z == [x \in S |-> 0]
<1>1. \A x \in S : z[x] = 0 /\ z[x] <= f[x]
  OBVIOUS
<1> HIDE DEF z
<1>2. SumOf(z, S) = 0 /\ SumOf(z, S) <= SumOf(f, S)
  BY <1>1, SumZero, SumMonotone
<1>3. SumOf(f, S) \in Int
  BY SumType
<1> QED BY <1>2, <1>3

LEMMA SumOfPart ==
    ASSUME NEW S, IsFiniteSet(S), NEW T \in SUBSET S, NEW f, \A x \in S : f[x] \in Nat
    PROVE  SumOf(f, T) <= SumOf(f, S)
<1>1. SumOf(f, S) = SumOf(f, T) + SumOf(f, S \ T)
  BY SumSplit
<1>2. SumOf(f, T) \in Nat /\ SumOf(f, S \ T) \in Nat
  BY FS_Subset, SumNatural
<1> QED BY <1>1, <1>2

LEMMA SumOfTerm ==
    ASSUME NEW S, IsFiniteSet(S), NEW x \in S, NEW f, \A y \in S : f[y] \in Nat
    PROVE  f[x] <= SumOf(f, S)
<1>1. SumOf(f, {x}) = f[x]
  BY SumOne
<1>2. {x} \in SUBSET S
  OBVIOUS
<1> QED BY <1>1, <1>2, SumOfPart

\* Renaming the elements, one to one, changes no sum.
LEMMA SumRenamed ==
    ASSUME NEW S, IsFiniteSet(S), NEW r, NEW f, NEW g,
           \A x, y \in S : r[x] = r[y] => x = y,
           \A x \in S : f[r[x]] = g[x] /\ g[x] \in Int
    PROVE  SumOf(f, {r[x] : x \in S}) = SumOf(g, S)
<1> DEFINE Image(V) == {r[x] : x \in V}
           C == {V \in SUBSET S : IsFiniteSet(Image(V)) /\ SumOf(f, Image(V)) = SumOf(g, V)}
<1>1. {} \in C
  <2>1. Image({}) = {}
    OBVIOUS
  <2> QED BY <2>1, SumEmpty, FS_EmptySet
<1>2. ASSUME NEW V \in C, NEW x \in S \ V PROVE V \cup {x} \in C
  <2>1. IsFiniteSet(V)
    BY FS_Subset
  <2>2. Image(V \cup {x}) = Image(V) \cup {r[x]} /\ r[x] \notin Image(V)
    OBVIOUS
  <2>3. \A y \in Image(V) \cup {r[x]} : f[y] \in Int
    OBVIOUS
  <2>4. SumOf(g, V \cup {x}) = g[x] + SumOf(g, V)
    BY <2>1, SumInsert
  <2>5. IsFiniteSet(Image(V)) /\ SumOf(f, Image(V)) = SumOf(g, V)
    OBVIOUS
  <2> HIDE DEF Image
  <2>6. /\ SumOf(f, Image(V) \cup {r[x]}) = f[r[x]] + SumOf(f, Image(V))
        /\ IsFiniteSet(Image(V) \cup {r[x]})
    BY <2>2, <2>3, <2>5, SumInsert, FS_AddElement
  <2> QED BY <2>2, <2>4, <2>5, <2>6
<1> HIDE DEF C
<1>3. S \in C
  <2>1. C \in SUBSET (SUBSET S)
    BY DEF C
  <2> QED BY <1>1, <1>2, <2>1, SetInduct
<1> QED BY <1>3 DEF C
==============================================================================
