---------------------------- MODULE AmountProofs -----------------------------
(***************************************************************************)
(* The amounts of the transaction decoder: what Create builds is typed     *)
(* (DecoderTypeCorrect), what it pays (PaysPaidOut), and where each raw    *)
(* transaction, its signatures and its TxAmount come from (OriginInv).     *)
(***************************************************************************)
EXTENDS TxDecoder, SumProofs

------------------------------------------------------------------------------
(* Sets and sequences. *)

LEMMA ImageFinite ==
    ASSUME NEW S, IsFiniteSet(S), NEW f
    PROVE  IsFiniteSet({f[x] : x \in S})
<1> DEFINE g == [x \in S |-> f[x]]
           T == {f[x] : x \in S}
<1>1. g \in Surjection(S, T)
  BY DEF Surjection
<1> HIDE DEF g, T
<1>2. IsFiniteSet(T)
  BY <1>1, FS_Surjection
<1> QED BY <1>2 DEF T

LEMMA ToSetType ==
    ASSUME NEW S, NEW s \in Seq(S)
    PROVE  IsFiniteSet(ToSet(s)) /\ ToSet(s) \subseteq S
<1>1. IsFiniteSet(1..Len(s)) /\ DOMAIN s = 1..Len(s)
  BY FS_Interval
<1>2. IsFiniteSet({s[i] : i \in DOMAIN s})
  BY <1>1, ImageFinite
<1> QED BY <1>1, <1>2 DEF ToSet

LEMMA SeqOfMore ==
    ASSUME NEW S, NEW T, S \subseteq T, NEW s \in Seq(S)
    PROVE  s \in Seq(T)
  OBVIOUS

LEMMA SetToSeqType ==
    ASSUME NEW S, IsFiniteSet(S)
    PROVE  SetToSeq(S) \in Seq(S)
<1>1. PICK b : b \in Bijection(1..Cardinality(S), S) /\ Cardinality(S) \in Nat
  BY FS_CardinalityType DEF ExistsBijection
<1>2. b \in [1..Cardinality(S) -> S] /\ IsInjective(b)
  BY <1>1 DEF Bijection, Injection, IsInjective
<1>3. SetToSeq(S) \in [1..Cardinality(S) -> S]
  BY <1>2 DEF SetToSeq
<1> QED BY <1>1, <1>3

\* An order of a finite set is a sequence of its elements, of all of them.
LEMMA OrderType ==
    ASSUME NEW S, IsFiniteSet(S), NEW s \in SetToSeqs(S)
    PROVE  s \in Seq(S) /\ ToSet(s) = S
<1> DEFINE D == 1..Cardinality(S)
<1>1. /\ Cardinality(S) \in Nat
      /\ s \in [D -> S]
      /\ \A i, j \in D : i # j => s[i] # s[j]
  BY FS_CardinalityType DEF SetToSeqs
<1>2. s \in Injection(D, S)
  BY <1>1 DEF Injection, IsInjective
<1>3. IsFiniteSet(D) /\ Cardinality(D) = Cardinality(S)
  BY <1>1, FS_Interval
<1> HIDE DEF D
<1>4. s \in Surjection(D, S)
  BY <1>2, <1>3, FS_SameCardinalityBij, FS_Injection
<1>5. ToSet(s) = S
  BY <1>1, <1>4 DEF ToSet, Surjection
<1>6. s \in Seq(S)
  BY <1>1 DEF D
<1> QED BY <1>5, <1>6

\* The coins picked for a payment are some of those read, and enough.
LEMMA AffordsType ==
    ASSUME NEW coins, IsFiniteSet(coins), NEW need, NEW s \in Affords(coins, need)
    PROVE  /\ s \in Seq(coins) /\ s # <<>>
           /\ ToDecimals(Amounts(ToSet(s))) >= need
<1>1. PICK T \in (SUBSET coins) \ {{}} :
         ToDecimals(Amounts(T)) >= need /\ s \in SetToSeqs(T)
  BY DEF Affords
<1>2. IsFiniteSet(T)
  BY FS_Subset
<1>3. s \in Seq(T) /\ ToSet(s) = T
  BY <1>1, <1>2, OrderType
<1>4. s # <<>>
  <2>1. PICK c : c \in T
    BY <1>1
  <2>2. PICK i \in DOMAIN s : s[i] = c
    BY <1>3, <2>1 DEF ToSet
  <2> QED BY <2>2
<1> QED BY <1>1, <1>3, <1>4
------------------------------------------------------------------------------
(* Division by a positive number, and totals as sums. *)

LEMMA Division ==
    ASSUME NEW x \in Int, NEW m \in Nat \ {0}
    PROVE  /\ x \div m \in Int
           /\ x % m \in 0..(m - 1)
           /\ x = m * (x \div m) + (x % m)
  OBVIOUS

LEMMA Quotient ==
    ASSUME NEW m \in Nat \ {0}, NEW q \in Int, NEW d \in 0..(m - 1), NEW x \in Int,
           x = m * q + d
    PROVE  x \div m = q /\ x % m = d
  BY Division

LEMMA Multiple ==
    ASSUME NEW x \in Int, NEW m \in Nat \ {0}
    PROVE  /\ x % m = 0 => x = m * (x \div m) /\ x \div m \in Int
           /\ \A q \in Int : x = m * q => x % m = 0 /\ x \div m = q
  BY Division, Quotient

LEMMA MultiplesAdd ==
    ASSUME NEW m \in Nat \ {0}, NEW x \in Int, NEW y \in Int, x % m = 0, y % m = 0
    PROVE  (x + y) % m = 0 /\ (x - y) % m = 0
<1>1. PICK p \in Int : x = m * p
  BY Multiple
<1>2. PICK q \in Int : y = m * q
  BY Multiple
<1>3. /\ x + y = m * (p + q) /\ x + y \in Int /\ p + q \in Int
      /\ x - y = m * (p - q) /\ x - y \in Int /\ p - q \in Int
  BY <1>1, <1>2
<1>4. (x + y) % m = 0
  BY <1>3, Multiple
<1>5. (x - y) % m = 0
  BY <1>3, Multiple
<1> QED BY <1>4, <1>5

LEMMA TotalIsSum ==
    ASSUME NEW S, IsFiniteSet(S), NEW f, \A o \in S : f[o] = o.value /\ o.value \in Int
    PROVE  Total(S) = SumOf(f, S)
<1> DEFINE Walks(j) == j = [s \in SUBSET S |->
                              IF s = {} THEN 0
                              ELSE Some(s).value + j[s \ {Some(s)}]]
           g == [o \in S |-> o.value]
           own == CHOOSE j : Walks(j)
<1>1. g \in [S -> Int] /\ \A o \in S : g[o] = o.value /\ f[o] = g[o]
  OBVIOUS
<1> HIDE DEF g
<1>2. PICK it \in [SUBSET S -> Int] :
         Iterates(it, g, SUBSET S) /\ \A T \in SUBSET S : SumOf(g, T) = it[T]
  BY <1>1, SumIterates
<1>3. \A j : Walks(j) <=> Iterates(j, g, SUBSET S)
  <2>1. \A s \in SUBSET S : s # {} => g[Some(s)] = Some(s).value
    BY <1>1, SomeElement
  <2>2. \A j : [s \in SUBSET S |-> IF s = {} THEN 0 ELSE Some(s).value + j[s \ {Some(s)}]]
               = [s \in SUBSET S |-> IF s = {} THEN 0 ELSE g[Some(s)] + j[s \ {Some(s)}]]
    BY <2>1
  <2> QED BY <2>2 DEF Iterates
<1>4. Walks(own)
  BY <1>2, <1>3
<1>5. own = it
  BY <1>1, <1>2, <1>3, <1>4, IterateUnique
<1>6. Total(S) = own[S]
  BY DEF Total, MapThenSumSet, MapThenFoldSet, Some
<1> HIDE DEF own
<1>7. SumOf(f, S) = SumOf(g, S)
  BY <1>1, SumAgrees
<1> QED BY <1>2, <1>5, <1>6, <1>7

LEMMA TotalType ==
    ASSUME NEW S, IsFiniteSet(S), \A o \in S : o.value \in Nat
    PROVE  /\ Total(S) \in Nat
           /\ \A T \in SUBSET S : Total(T) \in Nat /\ Total(T) <= Total(S)
           /\ \A o \in S : o.value <= Total(S)
<1> DEFINE f == [o \in S |-> o.value]
<1>1. \A o \in S : f[o] = o.value /\ f[o] \in Nat
  OBVIOUS
<1> HIDE DEF f
<1>2. \A T \in SUBSET S : IsFiniteSet(T)
  BY FS_Subset
<1>3. \A T \in SUBSET S : Total(T) = SumOf(f, T) /\ SumOf(f, T) \in Nat
  BY <1>1, <1>2, TotalIsSum, SumNatural
<1>4. \A T \in SUBSET S : SumOf(f, T) <= SumOf(f, S)
  BY <1>1, SumOfPart
<1>5. \A o \in S : f[o] <= SumOf(f, S)
  BY <1>1, SumOfTerm
<1> QED BY <1>1, <1>3, <1>4, <1>5

LEMMA AmountsIsSum ==
    ASSUME NEW S, IsFiniteSet(S),
           NEW f, \A o \in S : f[o] = Int64(o.value) /\ Int64(o.value) \in Int
    PROVE  Amounts(S) = SumOf(f, S)
<1> DEFINE Walks(j) == j = [s \in SUBSET S |->
                              IF s = {} THEN 0
                              ELSE Int64(Some(s).value) + j[s \ {Some(s)}]]
           g == [o \in S |-> Int64(o.value)]
           own == CHOOSE j : Walks(j)
<1>1. g \in [S -> Int] /\ \A o \in S : g[o] = Int64(o.value) /\ f[o] = g[o]
  OBVIOUS
<1> HIDE DEF g
<1>2. PICK it \in [SUBSET S -> Int] :
         Iterates(it, g, SUBSET S) /\ \A T \in SUBSET S : SumOf(g, T) = it[T]
  BY <1>1, SumIterates
<1>3. \A j : Walks(j) <=> Iterates(j, g, SUBSET S)
  <2>1. \A s \in SUBSET S : s # {} => g[Some(s)] = Int64(Some(s).value)
    BY <1>1, SomeElement
  <2>2. \A j : [s \in SUBSET S |-> IF s = {} THEN 0
                                    ELSE Int64(Some(s).value) + j[s \ {Some(s)}]]
               = [s \in SUBSET S |-> IF s = {} THEN 0 ELSE g[Some(s)] + j[s \ {Some(s)}]]
    BY <2>1
  <2> QED BY <2>2 DEF Iterates
<1>4. Walks(own)
  BY <1>2, <1>3
<1>5. own = it
  BY <1>1, <1>2, <1>3, <1>4, IterateUnique
<1>6. Amounts(S) = own[S]
  BY DEF Amounts, MapThenSumSet, MapThenFoldSet, Some
<1> HIDE DEF own
<1>7. SumOf(f, S) = SumOf(g, S)
  BY <1>1, SumAgrees
<1> QED BY <1>2, <1>5, <1>6, <1>7

\* Values of less than 2^63 are read as they are.
Narrow(S) == \A o \in S : 2 * o.value < UintMod

LEMMA AmountsType ==
    ASSUME NEW S, IsFiniteSet(S), \A o \in S : o.value \in Nat
    PROVE  Amounts(S) \in Int /\ (Narrow(S) => Amounts(S) = Total(S))
<1> DEFINE f == [o \in S |-> Int64(o.value)]
<1>1. \A o \in S : f[o] = Int64(o.value) /\ Int64(o.value) \in Int
  BY BuildAssumption DEF Int64
<1>2. Narrow(S) => \A o \in S : f[o] = o.value /\ o.value \in Int
  BY DEF Narrow, Int64
<1> HIDE DEF f
<1>3. Amounts(S) = SumOf(f, S) /\ SumOf(f, S) \in Int
  BY <1>1, AmountsIsSum, SumType
<1>4. Narrow(S) => Total(S) = SumOf(f, S)
  BY <1>2, TotalIsSum
<1> QED BY <1>3, <1>4

LEMMA TotalEmpty == Total({}) = 0
<1>1. Total({}) = SumOf(<<>>, {})
  BY FS_EmptySet, TotalIsSum
<1> QED BY <1>1, SumEmpty

LEMMA TotalOne ==
    ASSUME NEW o, o.value \in Int
    PROVE  Total({o}) = o.value
<1> DEFINE f == [x \in {o} |-> o.value]
<1>1. Total({o}) = SumOf(f, {o})
  BY FS_Singleton, TotalIsSum
<1>2. f[o] = o.value
  OBVIOUS
<1> QED BY <1>1, <1>2, SumOne

LEMMA TotalUnion ==
    ASSUME NEW S, IsFiniteSet(S), NEW T, IsFiniteSet(T), S \cap T = {},
           \A o \in S \cup T : o.value \in Int
    PROVE  Total(S \cup T) = Total(S) + Total(T)
<1> DEFINE f == [o \in S \cup T |-> o.value]
<1>1. IsFiniteSet(S \cup T) /\ \A o \in S \cup T : f[o] = o.value
  BY FS_Union
<1> HIDE DEF f
<1>2. /\ Total(S \cup T) = SumOf(f, S \cup T)
      /\ Total(S) = SumOf(f, S) /\ Total(T) = SumOf(f, T)
  BY <1>1, TotalIsSum
<1>3. SumOf(f, S \cup T) = SumOf(f, S) + SumOf(f, T)
  BY <1>1, SumUnion
<1> QED BY <1>2, <1>3
------------------------------------------------------------------------------
(* The transactions that are built. *)

\* What NewTransaction adds for the change.
Change(inputs, outs, commission) ==
    (Total(ToSet(inputs)) - SumOf(outs, DOMAIN outs) - commission) % UintMod

To(a, v) == [kind |-> "to", address |-> a, value |-> v]

LEMMA TosTotal ==
    ASSUME NEW outs, NEW D \in SUBSET DOMAIN outs, IsFiniteSet(D), \A a \in D : outs[a] \in Int
    PROVE  LET tos == {To(a, outs[a]) : a \in D}
           IN  IsFiniteSet(tos) /\ Total(tos) = SumOf(outs, D)
<1> DEFINE to == [a \in D |-> To(a, outs[a])]
           tos == {To(a, outs[a]) : a \in D}
           f == [o \in tos |-> o.value]
<1>1. /\ \A a \in D : to[a].address = a /\ to[a].value = outs[a] /\ to[a] \in tos
      /\ tos = {to[a] : a \in D}
  BY DEF To
<1>2. \A o \in tos : f[o] = o.value
  OBVIOUS
<1>3. \A o \in tos : o.value \in Int
  BY DEF To
<1> HIDE DEF to, f, tos
<1>4. IsFiniteSet(tos)
  BY <1>1, ImageFinite
<1>5. Total(tos) = SumOf(f, tos)
  BY <1>2, <1>3, <1>4, TotalIsSum
<1>6. SumOf(f, tos) = SumOf(outs, D)
  <2>1. \A a, b \in D : to[a] = to[b] => a = b
    BY <1>1
  <2>2. \A a \in D : f[to[a]] = outs[a] /\ outs[a] \in Int
    BY <1>1, <1>2
  <2>3. SumOf(f, {to[a] : a \in D}) = SumOf(outs, D)
    BY <2>1, <2>2, SumRenamed
  <2> QED BY <1>1, <2>3
<1> QED BY <1>4, <1>5, <1>6 DEF tos

\* What the transaction pays to the addresses in A.
PaidTo(tx, A) == Total({o \in tx.outputs : o.address \in A})

\* tx spends the inputs and pays outs, the commission and the change: to the
\* addresses in A what they are to get, and the change if it goes there.
Makes(tx, inputs, outs, changeAddress, commission) ==
    LET change == Change(inputs, outs, commission)
    IN  /\ \E O \in SUBSET Output :
              /\ tx = [inputs |-> inputs, outputs |-> O, scripts |-> <<>>]
              /\ IsFiniteSet(O) /\ O # {}
              /\ \A o \in O : o.kind = "commission" => o.address = NoAddress
        /\ change \in Uint
        /\ \A A : PaidTo(tx, A) = (IF NoAddress \in A THEN commission ELSE 0)
                                 + SumOf(outs, DOMAIN outs \cap A)
                                 + (IF changeAddress \in A THEN change ELSE 0)

LEMMA NewTransactionMakes ==
    ASSUME NEW inputs, NEW outs, IsFiniteSet(DOMAIN outs), DOMAIN outs \subseteq Address,
           \A a \in DOMAIN outs : outs[a] \in Uint,
           NEW changeAddress \in Address \cup {NoAddress}, NEW commission \in Uint,
           Total(ToSet(inputs)) \in Int
    PROVE  Makes(NewTransaction(inputs, outs, changeAddress, commission),
                 inputs, outs, changeAddress, commission)
<1> DEFINE tx == NewTransaction(inputs, outs, changeAddress, commission)
           change == Change(inputs, outs, commission)
           tos(D) == {To(a, outs[a]) : a \in D}
           fee == [kind |-> "commission", address |-> NoAddress, value |-> commission]
           back == [kind |-> "change", address |-> changeAddress, value |-> change]
           extra == {o \in {back} : o.value > 0}
           In(A) == {o \in tx.outputs : o.address \in A}
<1>a. \A a \in DOMAIN outs : outs[a] \in Int
  BY BuildAssumption DEF Uint
<1>1. SumOf(outs, DOMAIN outs) = Total(tos(DOMAIN outs)) /\ IsFiniteSet(tos(DOMAIN outs))
  BY <1>a, TosTotal
<1>2. SumOf(outs, DOMAIN outs) \in Int
  BY <1>a, SumType
<1>3. change \in Uint
  BY <1>2, BuildAssumption DEF Change, Uint
<1>4. tx = [inputs |-> inputs, outputs |-> tx.outputs, scripts |-> <<>>]
  BY DEF NewTransaction
<1>5. tx.outputs = {fee} \cup tos(DOMAIN outs) \cup extra
  BY <1>1 DEF NewTransaction, Change, To
<1> HIDE DEF tx, change
<1>6. /\ fee \in Output /\ back \in Output
      /\ \A a \in DOMAIN outs : To(a, outs[a]) \in Output
  BY <1>3 DEF Output, To
<1>7. IsFiniteSet(tx.outputs)
  <2>1. IsFiniteSet({fee}) /\ IsFiniteSet({back})
    BY FS_Singleton
  <2>2. IsFiniteSet(extra)
    BY <2>1, FS_Subset
  <2> HIDE DEF fee, back, extra, tos
  <2> QED BY <1>1, <1>5, <2>1, <2>2, FS_Union
<1>8. \A o \in tx.outputs : o.kind = "commission" => o.address = NoAddress
  BY <1>5 DEF To
<1>9. ASSUME NEW A
      PROVE  Total(In(A)) = (IF NoAddress \in A THEN commission ELSE 0)
                            + SumOf(outs, DOMAIN outs \cap A)
                            + (IF changeAddress \in A THEN change ELSE 0)
  <2> DEFINE D == DOMAIN outs \cap A
             F == {o \in {fee} : o.address \in A}
             E == {o \in extra : o.address \in A}
  <2>1. In(A) = (F \cup tos(D)) \cup E
    BY <1>5 DEF To
  <2>2. /\ F \cap tos(D) = {}
        /\ (F \cup tos(D)) \cap E = {}
    BY DEF To
  <2>3. IsFiniteSet(F) /\ IsFiniteSet(E) /\ IsFiniteSet(D) /\ D \in SUBSET DOMAIN outs
    <3>1. F \in SUBSET {fee} /\ E \in SUBSET {back} /\ D \in SUBSET DOMAIN outs
      OBVIOUS
    <3> HIDE DEF F, E, D, fee, back
    <3> QED BY <3>1, FS_Singleton, FS_Subset
  <2>4. IsFiniteSet(tos(D)) /\ Total(tos(D)) = SumOf(outs, D)
    BY <1>a, <2>3, TosTotal
  <2>5. \A o \in (F \cup tos(D)) \cup E : o.value \in Int
    BY <1>3, BuildAssumption DEF Uint, To
  <2>6. Total(F) = IF NoAddress \in A THEN commission ELSE 0
    <3>1. CASE NoAddress \in A
      <4>1. F = {fee} /\ fee.value = commission /\ commission \in Int
        BY <3>1, BuildAssumption DEF Uint
      <4> HIDE DEF fee, F
      <4> QED BY <3>1, <4>1, TotalOne
    <3>2. CASE NoAddress \notin A
      <4>1. F = {}
        BY <3>2
      <4> QED BY <3>2, <4>1, TotalEmpty
    <3> QED BY <3>1, <3>2
  <2>7. Total(E) = IF changeAddress \in A THEN change ELSE 0
    <3>0. change \in Nat
      BY <1>3, BuildAssumption DEF Uint
    <3>1. CASE changeAddress \in A /\ change > 0
      <4>1. E = {back} /\ back.value = change
        BY <3>1
      <4> HIDE DEF back, E
      <4> QED BY <3>0, <3>1, <4>1, TotalOne
    <3>2. CASE changeAddress \notin A \/ change = 0
      <4>1. E = {}
        BY <3>2
      <4> QED BY <3>2, <4>1, TotalEmpty
    <3> QED BY <3>0, <3>1, <3>2
  <2> HIDE DEF F, E, D, tos, In
  <2>8. Total(F \cup tos(D)) = Total(F) + Total(tos(D)) /\ IsFiniteSet(F \cup tos(D))
    BY <2>2, <2>3, <2>4, <2>5, TotalUnion, FS_Union
  <2>9. Total((F \cup tos(D)) \cup E) = Total(F \cup tos(D)) + Total(E)
    BY <2>2, <2>3, <2>5, <2>8, TotalUnion
  <2> QED BY <2>1, <2>4, <2>6, <2>7, <2>8, <2>9 DEF D
<1>10. tx.outputs \subseteq Output /\ tx.outputs # {}
  BY <1>5, <1>6
<1>11. \E O \in SUBSET Output :
          /\ tx = [inputs |-> inputs, outputs |-> O, scripts |-> <<>>]
          /\ IsFiniteSet(O) /\ O # {}
          /\ \A o \in O : o.kind = "commission" => o.address = NoAddress
  BY <1>4, <1>7, <1>8, <1>10
<1>12. \A A : PaidTo(tx, A) = Total(In(A))
  BY DEF PaidTo
<1> HIDE DEF In
<1> QED BY <1>3, <1>9, <1>11, <1>12 DEF Makes, tx, change
------------------------------------------------------------------------------
(* What the calls of Create pay. *)

LEMMA SumDivisible ==
    ASSUME NEW S, IsFiniteSet(S), NEW f, NEW m \in Nat \ {0},
           \A x \in S : f[x] \in Int /\ f[x] % m = 0
    PROVE  SumOf(f, S) % m = 0
<1> DEFINE C == {V \in SUBSET S : SumOf(f, V) % m = 0}
<1>1. {} \in C
  <2>1. 0 % m = 0
    BY Quotient
  <2> QED BY <2>1, SumEmpty
<1>2. ASSUME NEW V \in C, NEW x \in S \ V PROVE V \cup {x} \in C
  <2>1. IsFiniteSet(V)
    BY FS_Subset
  <2>2. SumOf(f, V \cup {x}) = f[x] + SumOf(f, V)
    BY <2>1, SumInsert
  <2>3. f[x] \in Int /\ f[x] % m = 0 /\ SumOf(f, V) \in Int /\ SumOf(f, V) % m = 0
    BY <2>1, SumType
  <2>4. (f[x] + SumOf(f, V)) % m = 0
    BY <2>3, MultiplesAdd
  <2> QED BY <2>2, <2>4
<1> HIDE DEF C
<1>3. S \in C
  <2>1. C \in SUBSET (SUBSET S)
    BY DEF C
  <2> QED BY <1>1, <1>2, <2>1, SetInduct
<1> QED BY <1>3 DEF C

LEMMA SumConstant ==
    ASSUME NEW S, IsFiniteSet(S), NEW d \in Int, NEW f, \A x \in S : f[x] = d
    PROVE  SumOf(f, S) = d * Cardinality(S)
<1> DEFINE C == {V \in SUBSET S : SumOf(f, V) = d * Cardinality(V)}
<1>1. {} \in C
  BY SumEmpty, FS_EmptySet
<1>2. ASSUME NEW V \in C, NEW x \in S \ V PROVE V \cup {x} \in C
  <2>1. IsFiniteSet(V) /\ Cardinality(V) \in Nat /\ \A y \in V \cup {x} : f[y] \in Int
    BY FS_Subset, FS_CardinalityType
  <2>2. SumOf(f, V \cup {x}) = f[x] + SumOf(f, V)
    BY <2>1, SumInsert
  <2>3. Cardinality(V \cup {x}) = Cardinality(V) + 1
    BY <2>1, FS_AddElement
  <2>4. SumOf(f, V \cup {x}) = d + d * Cardinality(V)
    BY <2>2
  <2>5. d + d * Cardinality(V) = d * (Cardinality(V) + 1)
    BY <2>1
  <2> QED BY <2>3, <2>4, <2>5
<1> HIDE DEF C
<1>3. S \in C
  <2>1. C \in SUBSET (SUBSET S)
    BY DEF C
  <2> QED BY <1>1, <1>2, <2>1, SetInduct
<1> QED BY <1>3 DEF C

\* appendOutput adds the amount, and changes no other address.
LEMMA AppendOutputSum ==
    ASSUME NEW outs, IsFiniteSet(DOMAIN outs), \A x \in DOMAIN outs : outs[x] \in Int,
           NEW a, NEW d \in Int, NEW new, new = AppendOutput(outs, a, d)
    PROVE  SumOf(new, DOMAIN new) = SumOf(outs, DOMAIN outs) + d
<1> DEFINE rest == DOMAIN outs \ {a}
<1>1. /\ DOMAIN new = DOMAIN outs \cup {a}
      /\ \A x \in DOMAIN new \ {a} : new[x] = outs[x]
      /\ a \in DOMAIN outs => new[a] = outs[a] + d
      /\ a \notin DOMAIN outs => new[a] = d
  BY DEF AppendOutput
<1>2. IsFiniteSet(DOMAIN outs \cup {a})
  BY FS_AddElement
<1>3. IsFiniteSet(rest) /\ DOMAIN new = rest \cup {a} /\ a \notin rest
  BY <1>1, FS_Subset
<1>4. SumOf(new, rest) = SumOf(outs, rest) /\ SumOf(outs, rest) \in Int
  BY <1>1, <1>3, SumAgrees, SumType
<1>5. \A x \in rest \cup {a} : new[x] \in Int
  BY <1>1
<1>6. SumOf(new, rest \cup {a}) = new[a] + SumOf(new, rest)
  BY <1>3, <1>5, SumInsert
<1>7. SumOf(outs, DOMAIN outs) = SumOf(outs, rest) + IF a \in DOMAIN outs THEN outs[a] ELSE 0
  <2>1. CASE a \in DOMAIN outs
    <3>1. rest \cup {a} = DOMAIN outs
      BY <2>1
    <3>2. SumOf(outs, rest \cup {a}) = outs[a] + SumOf(outs, rest)
      BY <1>3, <2>1, SumInsert
    <3> QED BY <1>4, <2>1, <3>1, <3>2
  <2>2. CASE a \notin DOMAIN outs
    <3>1. rest = DOMAIN outs
      BY <2>2
    <3> QED BY <1>4, <2>2, <3>1
  <2> QED BY <2>1, <2>2
<1>8. SumOf(new, DOMAIN new) = SumOf(outs, DOMAIN outs) + d
  <2>1. CASE a \in DOMAIN outs
    BY <1>1, <1>3, <1>4, <1>6, <1>7, <2>1
  <2>2. CASE a \notin DOMAIN outs
    BY <1>1, <1>3, <1>4, <1>6, <1>7, <2>2
  <2> QED BY <2>1, <2>2
<1> QED BY <1>8

\* The addresses of the account that pays, and their coins.
Own(r) == {a \in Address : OwnerOf[a] = Order[r].account}
OwnCoin(r) == {c \in Coin : c.address \in Own(r)}

\* The fees that the RawTransaction of r may hold: the one asked for and, after a
\* Create, the one rounded to units.
Rates(r) ==
    {Order[r].fee}
    \cup (IF IsPayment(r) THEN {ToDecimals(StringFixed(Order[r].fee))} ELSE {})

\* Rounding twice is rounding once.
LEMMA RoundedOnce ==
    ASSUME NEW d \in Nat
    PROVE  /\ StringFixed(d) \in Nat
           /\ StringFixed(ToDecimals(d)) = d
           /\ ToDecimals(d) \in Nat /\ ToDecimals(d) \div Scale = d
           /\ d % Scale = 0 => ToDecimals(StringFixed(d)) = d
<1> PICK s \in Nat \ {0} : s = Scale
  BY BuildAssumption
<1> PICK m \in Nat \ {0} : m = 2 * s
  OBVIOUS
<1>1. ASSUME NEW n \in Nat PROVE StringFixed(n * s) = n /\ n * s \in Nat
  <2>1. n * s \in Nat
    OBVIOUS
  <2> PICK p \in Nat : p = n * s
    BY <2>1
  <2>2. m * n = 2 * p
    OBVIOUS
  <2>3. 2 * p + s = m * n + s /\ s \in 0..(m - 1) /\ 2 * p + s \in Int
    BY <2>2
  <2>4. (2 * p + s) \div m = n
    BY <2>3, Quotient
  <2> QED BY <2>4 DEF StringFixed
<1>2. StringFixed(d) \in Nat
  <2> PICK a \in Nat : a = 2 * d + s
    OBVIOUS
  <2>1. a \div m \in Nat
    OBVIOUS
  <2> QED BY <2>1 DEF StringFixed
<1>3. (d * s) \div s = d
  <2>1. d * s = s * d /\ d * s \in Int
    OBVIOUS
  <2> QED BY <2>1, Multiple
<1>4. ASSUME d % s = 0 PROVE ToDecimals(StringFixed(d)) = d
  <2>1. d = s * (d \div s) /\ d \div s \in Int
    BY <1>4, Multiple
  <2> PICK q \in Int : q = d \div s
    BY <2>1
  <2>2. q \in Nat /\ d = q * s
    BY <2>1
  <2> QED BY <1>1, <2>2 DEF ToDecimals
<1> QED BY <1>1, <1>2, <1>3, <1>4 DEF ToDecimals

LEMMA RatesType ==
    ASSUME NEW r \in Request, NEW rate \in Rates(r)
    PROVE  /\ rate \in Nat
           /\ Order[r].fee % Scale = 0 => rate = Order[r].fee
           /\ ~IsPayment(r) => rate = Order[r].fee
           /\ IsPayment(r) => ToDecimals(StringFixed(rate)) \in Rates(r)
           /\ rate \div Scale \in {Order[r].fee \div Scale, StringFixed(Order[r].fee)}
<1>1. Order[r].fee \in Nat
  BY OrderAssumption
<1> PICK n \in Nat : n = StringFixed(Order[r].fee)
  BY <1>1, RoundedOnce
<1>2. /\ ToDecimals(n) \in Nat /\ ToDecimals(n) \div Scale = n
      /\ StringFixed(ToDecimals(n)) = n
      /\ Order[r].fee % Scale = 0 => ToDecimals(n) = Order[r].fee
  BY <1>1, RoundedOnce
<1> QED BY <1>1, <1>2 DEF Rates

\* Request r may be built to pay outs from these inputs: it pays out what the
\* inputs are worth, less the fee, and others get what the request names.
PaysFor(r, rate, inputs, outs) ==
    /\ IsFiniteSet(DOMAIN outs) /\ DOMAIN outs \subseteq Address
    /\ \A a \in DOMAIN outs : outs[a] \in Int
    /\ SumOf(outs, DOMAIN outs) + rate = ToDecimals(Amounts(ToSet(inputs)))
    /\ IsPayment(r) =>
          /\ \A a \in DOMAIN outs : outs[a] >= 0
          /\ \A a \in Address \ Own(r) :
                /\ a \in DOMAIN outs <=> a \in DOMAIN Order[r].to
                /\ a \in DOMAIN outs => outs[a] = Order[r].to[a]
          /\ Whole(r) => \A a \in DOMAIN outs : outs[a] % Scale = 0
    /\ ~IsPayment(r) =>
          \A a \in DOMAIN outs \ {Order[r].summaryAddress} :
             a \in Own(r) /\ outs[a] = Order[r].retained

LEMMA CoinsTotal ==
    ASSUME NEW s \in Seq(Coin)
    PROVE  /\ IsFiniteSet(ToSet(s)) /\ Total(ToSet(s)) \in Nat
           /\ Amounts(ToSet(s)) \in Int
           /\ Narrow(ToSet(s)) => Amounts(ToSet(s)) = Total(ToSet(s))
<1>1. IsFiniteSet(ToSet(s)) /\ ToSet(s) \subseteq Coin
  BY ToSetType
<1>2. \A c \in Coin : c.value \in Nat
  BY BuildAssumption DEF Coin, Uint
<1> QED BY <1>1, <1>2, TotalType, AmountsType

LEMMA PayOutputsPay ==
    ASSUME NEW r \in Request, IsPayment(r), NEW rate \in Rates(r),
           NEW o, o.to = Order[r].to, o.fee = rate, NEW s \in Seq(OwnCoin(r)), s # <<>>,
           ToDecimals(Amounts(ToSet(s))) >= Sum(Order[r].to) + rate
    PROVE  PaysFor(r, rate, s, PayOutputs(o, s))
<1> DEFINE to == Order[r].to
           worth == ToDecimals(Amounts(ToSet(s)))
           change == worth - Sum(to) - rate
           outs == PayOutputs(o, s)
<1>1. s \in Seq(Coin) /\ s[1] \in OwnCoin(r)
  BY DEF OwnCoin
<1>2. worth \in Int /\ worth % Scale = 0
  <2>1. Amounts(ToSet(s)) \in Int
    BY <1>1, CoinsTotal
  <2> QED BY <2>1, Multiple, BuildAssumption DEF ToDecimals
<1>3. /\ IsFiniteSet(DOMAIN to) /\ DOMAIN to \subseteq Address
      /\ \A a \in DOMAIN to : to[a] \in Nat
      /\ rate \in Nat
  BY OrderAssumption, RatesType
<1>4. Sum(to) = SumOf(to, DOMAIN to)
  BY DEF Sum, SumOf
<1>5. SumOf(to, DOMAIN to) \in Nat
  BY <1>3, SumNatural
<1>6. change \in Nat
  BY <1>2, <1>3, <1>4, <1>5
<1>7. Whole(r) => change % Scale = 0 /\ \A a \in DOMAIN to : to[a] % Scale = 0
  <2> SUFFICES ASSUME Whole(r)
               PROVE  change % Scale = 0 /\ \A a \in DOMAIN to : to[a] % Scale = 0
    OBVIOUS
  <2>1. rate % Scale = 0 /\ \A a \in DOMAIN to : to[a] % Scale = 0
    BY RatesType DEF Whole
  <2> HIDE DEF to, worth
  <2>2. SumOf(to, DOMAIN to) % Scale = 0
    BY <1>3, <2>1, SumDivisible, BuildAssumption
  <2> PICK sum \in Int : sum = Sum(to) /\ sum % Scale = 0
    BY <1>4, <1>5, <2>2
  <2>3. (worth - sum) % Scale = 0 /\ worth - sum \in Int
    BY <1>2, MultiplesAdd, BuildAssumption
  <2>4. change % Scale = 0
    BY <1>3, <2>1, <2>3, MultiplesAdd, BuildAssumption
  <2> QED BY <2>1, <2>4
<1>8. CASE change = 0
  <2>1. outs = to
    BY <1>8 DEF PayOutputs
  <2>2. SumOf(to, DOMAIN to) + rate = worth
    BY <1>2, <1>3, <1>4, <1>5, <1>8
  <2> HIDE DEF outs, change, worth
  <2> QED BY <1>3, <1>7, <2>1, <2>2 DEF PaysFor, outs, worth
<1>9. CASE change > 0
  <2> DEFINE a == s[1].address
             new == AppendOutput(to, a, change)
  <2>1. outs = new
    BY <1>9 DEF PayOutputs
  <2> HIDE DEF change
  <2>2. /\ DOMAIN new = DOMAIN to \cup {a} /\ IsFiniteSet(DOMAIN new)
        /\ \A x \in DOMAIN new \ {a} : new[x] = to[x]
        /\ a \in DOMAIN to => new[a] = to[a] + change
        /\ a \notin DOMAIN to => new[a] = change
        /\ SumOf(new, DOMAIN new) = SumOf(to, DOMAIN to) + change
    <3>1. change \in Int /\ \A x \in DOMAIN to : to[x] \in Int
      BY <1>3, <1>6
    <3>2. new = AppendOutput(to, a, change)
      OBVIOUS
    <3> HIDE DEF new, a, to
    <3>3. SumOf(new, DOMAIN new) = SumOf(to, DOMAIN to) + change
      BY <1>3, <3>1, <3>2, AppendOutputSum
    <3>4. /\ DOMAIN new = DOMAIN to \cup {a}
          /\ \A x \in DOMAIN new \ {a} : new[x] = to[x]
          /\ a \in DOMAIN to => new[a] = to[a] + change
          /\ a \notin DOMAIN to => new[a] = change
      BY <3>2 DEF AppendOutput
    <3> QED BY <1>3, <3>3, <3>4, FS_AddElement
  <2>3. a \in Address /\ a \in Own(r)
    BY <1>1 DEF OwnCoin, Own
  <2>4. new[a] \in Nat
    BY <1>3, <1>6, <2>2
  <2>5. SumOf(new, DOMAIN new) + rate = worth
    BY <1>2, <1>3, <1>4, <1>5, <2>2 DEF change
  <2>6. Whole(r) => new[a] % Scale = 0
    BY <1>3, <1>6, <1>7, <2>2, MultiplesAdd, BuildAssumption
  <2> HIDE DEF new, worth, outs, a
  <2>7. \A x \in DOMAIN new : new[x] \in Nat /\ (Whole(r) => new[x] % Scale = 0)
    BY <1>3, <1>7, <2>2, <2>4, <2>6
  <2>8. \A x \in Address \ Own(r) :
           /\ x \in DOMAIN new <=> x \in DOMAIN to
           /\ x \in DOMAIN new => new[x] = to[x]
    BY <2>2, <2>3
  <2>9. DOMAIN new \subseteq Address
    BY <1>3, <2>2, <2>3
  <2> QED BY <2>1, <2>2, <2>5, <2>7, <2>8, <2>9 DEF PaysFor, outs, worth
<1> QED BY <1>6, <1>8, <1>9

LEMMA SummaryOutputsPay ==
    ASSUME NEW r \in Request, ~IsPayment(r), NEW rate \in Rates(r),
           NEW chosen \in Seq(Own(r)), NEW s \in Seq(OwnCoin(r))
    PROVE  /\ PaysFor(r, rate, s, SummaryOutputs(Order[r], chosen, s))
           /\ \A a \in DOMAIN SummaryOutputs(Order[r], chosen, s) :
                 a # Order[r].summaryAddress => a \in ToSet(chosen)
<1> DEFINE keeps == Order[r].retained
           kept == IF keeps > 0 THEN [a \in ToSet(chosen) |-> keeps] ELSE <<>>
           worth == ToDecimals(Amounts(ToSet(s)))
           rest == worth - keeps * Cardinality(DOMAIN kept) - rate
           a == Order[r].summaryAddress
           new == AppendOutput(kept, a, rest)
<1>1. SummaryOutputs(Order[r], chosen, s) = new
  BY RatesType DEF SummaryOutputs
<1>2. worth \in Int
  <2>1. s \in Seq(Coin)
    BY DEF OwnCoin
  <2> QED BY <2>1, CoinsTotal, BuildAssumption DEF ToDecimals
<1>3. keeps \in Nat /\ a \in Address /\ rate \in Nat
  BY OrderAssumption, RatesType
<1>4. IsFiniteSet(ToSet(chosen)) /\ ToSet(chosen) \subseteq Own(r)
  BY ToSetType
<1>5. /\ IsFiniteSet(DOMAIN kept) /\ DOMAIN kept \subseteq ToSet(chosen)
      /\ \A x \in DOMAIN kept : kept[x] = keeps
      /\ SumOf(kept, DOMAIN kept) = keeps * Cardinality(DOMAIN kept)
  <2>1. CASE keeps > 0
    <3>1. kept = [x \in ToSet(chosen) |-> keeps]
      BY <2>1
    <3>2. DOMAIN kept = ToSet(chosen) /\ \A x \in ToSet(chosen) : kept[x] = keeps
      BY <3>1
    <3> HIDE DEF kept, keeps
    <3>3. SumOf(kept, ToSet(chosen)) = keeps * Cardinality(ToSet(chosen))
      BY <1>3, <1>4, <3>2, SumConstant
    <3> QED BY <1>4, <3>2, <3>3
  <2>2. CASE ~(keeps > 0)
    <3>1. DOMAIN kept = {}
      BY <2>2
    <3>2. keeps * 0 = 0
      BY <1>3
    <3> HIDE DEF kept
    <3> QED BY <3>1, <3>2, FS_EmptySet, SumEmpty
  <2> QED BY <2>1, <2>2
<1> HIDE DEF kept, worth
<1>6. Cardinality(DOMAIN kept) \in Nat
  BY <1>5, FS_CardinalityType
<1>7. rest \in Int
  BY <1>2, <1>3, <1>6
<1> HIDE DEF rest
<1>8. /\ DOMAIN new = DOMAIN kept \cup {a} /\ IsFiniteSet(DOMAIN new)
      /\ \A x \in DOMAIN new \ {a} : new[x] = kept[x]
      /\ a \in DOMAIN kept => new[a] = kept[a] + rest
      /\ a \notin DOMAIN kept => new[a] = rest
      /\ SumOf(new, DOMAIN new) = SumOf(kept, DOMAIN kept) + rest
  <2>1. \A x \in DOMAIN kept : kept[x] \in Int
    BY <1>3, <1>5
  <2>2. new = AppendOutput(kept, a, rest)
    OBVIOUS
  <2> HIDE DEF new, a
  <2>3. SumOf(new, DOMAIN new) = SumOf(kept, DOMAIN kept) + rest
    BY <1>5, <1>7, <2>1, <2>2, AppendOutputSum
  <2>4. /\ DOMAIN new = DOMAIN kept \cup {a}
        /\ \A x \in DOMAIN new \ {a} : new[x] = kept[x]
        /\ a \in DOMAIN kept => new[a] = kept[a] + rest
        /\ a \notin DOMAIN kept => new[a] = rest
    BY <2>2 DEF AppendOutput
  <2> QED BY <1>5, <2>3, <2>4, FS_AddElement
<1> HIDE DEF new
<1>9. SumOf(new, DOMAIN new) + rate = worth
  <2>1. keeps * Cardinality(DOMAIN kept) \in Int
    BY <1>3, <1>6
  <2> QED BY <1>2, <1>3, <1>5, <1>8, <2>1 DEF rest
<1>10. \A x \in DOMAIN new \ {a} : x \in ToSet(chosen) /\ new[x] = keeps
  BY <1>5, <1>8
<1>11. \A x \in DOMAIN new : x \in Address /\ new[x] \in Int
  BY <1>3, <1>4, <1>5, <1>7, <1>8, <1>10 DEF Own
<1>12. PaysFor(r, rate, s, new)
  BY <1>4, <1>8, <1>9, <1>10, <1>11 DEF PaysFor, worth
<1> QED BY <1>1, <1>10, <1>12
------------------------------------------------------------------------------
(* Types. *)

\* The transactions, raw transactions and calls there are.
GoodTx ==
    {tx \in Tx : /\ IsFiniteSet(tx.outputs)
                 /\ \A o \in tx.outputs : o.kind = "commission" => o.address = NoAddress}

GoodRaw(r) == {w \in RawTransaction : w.tx \in GoodTx /\ w.feeRate \in Rates(r)}

GoodCall(r) ==
    {c \in [at : {"idle", "balance", "unspent", "build", "validate", "publish"},
            left : Seq(Own(r)), chosen : Seq(Own(r)), coins : Seq(OwnCoin(r))] :
       c.at \in {"balance", "unspent"} => c.left # <<>>}

Taken == [tx : GoodTx, request : Request]

TypeInv ==
    /\ unspent \subseteq Coin /\ IsFiniteSet(unspent)
    /\ published \in Seq(Taken)
    /\ raw = [r \in Request |-> raw[r]]
    /\ call = [r \in Request |-> call[r]]
    /\ \A r \in Request : raw[r] \in GoodRaw(r) /\ call[r] \in GoodCall(r)
    /\ \A rec \in records : rec \in [tx : GoodTx, request : Request, amount : Int]
    /\ spent \in [Fault -> Nat]

LEMMA TypeInvStrengthens == TypeInv => TypeOK
<1> SUFFICES ASSUME TypeInv PROVE TypeOK
  OBVIOUS
<1>1. published \in Seq([tx : Tx, request : Request])
  <2>1. Taken \subseteq [tx : Tx, request : Request]
    BY DEF Taken, GoodTx
  <2> QED BY <2>1, SeqOfMore DEF TypeInv
<1>2. raw \in [Request -> RawTransaction]
  BY DEF TypeInv, GoodRaw
<1>3. \A rec \in records : rec \in [tx : Tx, request : Request, amount : Int]
  BY DEF TypeInv, GoodTx
<1>4. ASSUME NEW r \in Request
      PROVE  /\ call[r].at \in {"idle", "balance", "unspent", "build", "validate", "publish"}
             /\ call[r].left \in Seq(Address)
             /\ call[r].chosen \in Seq(Address)
             /\ call[r].coins \in Seq(Coin)
  <2>1. Own(r) \subseteq Address /\ OwnCoin(r) \subseteq Coin
    BY DEF Own, OwnCoin
  <2>2. /\ call[r].at \in {"idle", "balance", "unspent", "build", "validate", "publish"}
        /\ call[r].left \in Seq(Own(r)) /\ call[r].chosen \in Seq(Own(r))
        /\ call[r].coins \in Seq(OwnCoin(r))
    BY DEF TypeInv, GoodCall
  <2> QED BY <2>1, <2>2, SeqOfMore
<1> QED BY <1>1, <1>2, <1>3, <1>4 DEF TypeInv, TypeOK

LEMMA TruncateType ==
    ASSUME NEW d \in Int
    PROVE  Truncate(d) \in Int /\ StringFixed(d) \in Int /\ UintPart(d) \in Uint
  BY BuildAssumption DEF Truncate, StringFixed, UintPart, Uint

\* The transaction that a call of Create makes.
BuiltTx(rate, inputs, outs, changeAddress) ==
    NewTransaction(inputs, [a \in DOMAIN outs |-> UintPart(outs[a])],
                   changeAddress, UintPart(rate))

LEMMA BuiltTxType ==
    ASSUME NEW r \in Request, NEW rate \in Rates(r), NEW inputs \in Seq(Coin), NEW outs,
           PaysFor(r, rate, inputs, outs),
           NEW changeAddress \in Address \cup {NoAddress},
           NEW tx, tx = BuiltTx(rate, inputs, outs, changeAddress)
    PROVE  /\ tx \in GoodTx /\ tx.inputs = inputs /\ tx.scripts = <<>>
           /\ tx.outputs # {} /\ KeySignatures(tx) \in Seq(KeySignature)
<1> DEFINE units == [a \in DOMAIN outs |-> UintPart(outs[a])]
           fee == UintPart(rate)
<1>1. /\ DOMAIN units = DOMAIN outs
      /\ IsFiniteSet(DOMAIN outs) /\ DOMAIN outs \subseteq Address
      /\ \A a \in DOMAIN outs : units[a] \in Uint
  BY TruncateType DEF PaysFor
<1>2. fee \in Uint
  <2>1. rate \in Int
    BY RatesType
  <2> QED BY <2>1, TruncateType
<1>3. Total(ToSet(inputs)) \in Int
  BY CoinsTotal
<1>4. tx = NewTransaction(inputs, units, changeAddress, fee)
  BY DEF BuiltTx
<1> HIDE DEF units, fee
<1>5. Makes(tx, inputs, units, changeAddress, fee)
  BY <1>1, <1>2, <1>3, <1>4, NewTransactionMakes
<1>6. PICK O \in SUBSET Output :
         /\ tx = [inputs |-> inputs, outputs |-> O, scripts |-> <<>>]
         /\ IsFiniteSet(O) /\ O # {}
         /\ \A o \in O : o.kind = "commission" => o.address = NoAddress
  BY <1>5 DEF Makes
<1>7. tx \in GoodTx /\ tx.inputs = inputs /\ tx.outputs = O /\ tx.scripts = <<>>
  BY <1>6 DEF GoodTx, Tx
<1>8. \A i \in 1..Len(inputs) : inputs[i] \in Coin
  OBVIOUS
<1>9. KeySignatures(tx) \in Seq(KeySignature)
  <2>1. DOMAIN inputs = 1..Len(inputs) /\ Len(inputs) \in Nat
    OBVIOUS
  <2>2. KeySignatures(tx) = [i \in 1..Len(inputs) |->
           [address |-> inputs[i].address, signed |-> FALSE,
            message |-> [spends |-> inputs[i], pays |-> tx.outputs]]]
    BY <1>7, <2>1 DEF KeySignatures, Message
  <2>3. \A i \in 1..Len(inputs) :
           [address |-> inputs[i].address, signed |-> FALSE,
            message |-> [spends |-> inputs[i], pays |-> tx.outputs]] \in KeySignature
    BY <1>7, <1>8 DEF KeySignature, Coin
  <2> QED BY <2>1, <2>2, <2>3
<1> QED BY <1>6, <1>7, <1>9

\* What Create makes of the raw transaction before it builds.
LEMMA RoundedType ==
    ASSUME NEW r \in Request, IsPayment(r), NEW w \in GoodRaw(r)
    PROVE  /\ FeeRounded(w) \in GoodRaw(r)
           /\ FeeRounded(w).tx = w.tx /\ FeeRounded(w).signatures = w.signatures
           /\ FeeRounded(w).txAmount = w.txAmount
<1> DEFINE rate == ToDecimals(StringFixed(w.feeRate))
<1>1. rate \in Rates(r) /\ rate \in Nat
  BY RatesType DEF GoodRaw
<1>2. FeeRounded(w) = [w EXCEPT !.feeRate = rate]
  BY DEF FeeRounded
<1> HIDE DEF rate
<1> QED BY <1>1, <1>2 DEF GoodRaw, RawTransaction

LEMMA BuiltType ==
    ASSUME NEW r \in Request, NEW rate \in Rates(r), NEW o, o.fee = rate,
           NEW w \in GoodRaw(r), NEW inputs \in Seq(Coin), NEW outs, PaysFor(r, rate, inputs, outs), NEW changeAddress \in Address \cup {NoAddress},
           NEW unknown, NEW F
    PROVE  Built(w, o, inputs, outs, changeAddress, unknown, F) \in GoodRaw(r)
<1> DEFINE tx == BuiltTx(rate, inputs, outs, changeAddress)
           amount == TxAmount(o.account, outs, unknown, rate)
           sigs == KeySignatures(tx)
           new == Built(w, o, inputs, outs, changeAddress, unknown, F)
<1>1. new = IF "address" \in F THEN [w EXCEPT !.tx = tx]
            ELSE [w EXCEPT !.tx = tx, !.signatures = sigs, !.txAmount = amount]
  BY DEF Built, BuiltTx
<1>2. tx \in GoodTx /\ sigs \in Seq(KeySignature)
  BY BuiltTxType
<1>3. amount \in Int
  <2> DEFINE leaving == {a \in DOMAIN outs : OwnerOf[a] # o.account \/ a \in unknown}
             left == SumOf(outs, leaving)
  <2>1. IsFiniteSet(leaving) /\ \A a \in leaving : outs[a] \in Int
    BY FS_Subset DEF PaysFor
  <2>2. left \in Int
    BY <2>1, SumType
  <2>3. amount = StringFixed(-(left + ToDecimals(StringFixed(rate))))
    BY DEF TxAmount, SumOf
  <2>4. StringFixed(rate) \in Int
    BY RatesType, RoundedOnce
  <2> HIDE DEF left
  <2>5. -(left + ToDecimals(StringFixed(rate))) \in Int
    BY <2>2, <2>4, BuildAssumption DEF ToDecimals
  <2> QED BY <2>3, <2>5, TruncateType
<1> HIDE DEF tx, amount, sigs, new
<1>4. w \in RawTransaction /\ tx \in Tx
  BY <1>2 DEF GoodRaw, GoodTx
<1>5. CASE "address" \in F
  BY <1>1, <1>2, <1>4, <1>5 DEF GoodRaw, RawTransaction, new
<1>6. CASE "address" \notin F
  BY <1>1, <1>2, <1>3, <1>4, <1>6 DEF GoodRaw, RawTransaction, new
<1> QED BY <1>5, <1>6

\* The coins of the outputs of the n-th transaction.
NewCoin(o, n) == [tx |-> n, kind |-> o.kind, address |-> o.address, value |-> o.value]

Addressed(tx) == {o \in tx.outputs : o.address # NoAddress}

LEMMA NewCoinsType ==
    ASSUME NEW tx \in GoodTx, NEW n \in Nat
    PROVE  LET new == {NewCoin(o, n) : o \in Addressed(tx)}
           IN  IsFiniteSet(new) /\ new \subseteq Coin
<1> DEFINE coin == [o \in Addressed(tx) |-> NewCoin(o, n)]
           new == {NewCoin(o, n) : o \in Addressed(tx)}
<1>1. IsFiniteSet(Addressed(tx))
  BY FS_Subset DEF Addressed, GoodTx
<1>2. new = {coin[o] : o \in Addressed(tx)}
  OBVIOUS
<1>3. ASSUME NEW o \in Addressed(tx) PROVE NewCoin(o, n) \in Coin
  <2>1. o \in Output /\ o.address # NoAddress /\ o.kind # "commission"
    BY DEF Addressed, GoodTx, Tx
  <2> QED BY <2>1 DEF Output, Coin, NewCoin
<1> HIDE DEF coin
<1>4. IsFiniteSet({coin[o] : o \in Addressed(tx)})
  BY <1>1, ImageFinite
<1> QED BY <1>2, <1>3, <1>4

LEMMA TakesType ==
    ASSUME TypeInv, NEW r \in Request, Takes(r)
    PROVE  /\ unspent' \subseteq Coin /\ IsFiniteSet(unspent')
           /\ published' \in Seq(Taken)
<1> PICK tx \in GoodTx : tx = raw[r].tx
  BY DEF TypeInv, GoodRaw
<1> PICK n \in Nat : n = Len(published) + 1
  BY DEF TypeInv
<1> DEFINE new == {NewCoin(o, n) : o \in Addressed(tx)}
<1>1. unspent' = (unspent \ ToSet(tx.inputs)) \cup new
  BY DEF Takes, NewCoin, Addressed
<1>2. IsFiniteSet(new) /\ new \subseteq Coin
  BY NewCoinsType
<1> HIDE DEF new
<1>3. IsFiniteSet(unspent \ ToSet(tx.inputs)) /\ unspent \ ToSet(tx.inputs) \subseteq Coin
  BY FS_Subset DEF TypeInv
<1>4. unspent' \subseteq Coin /\ IsFiniteSet(unspent')
  BY <1>1, <1>2, <1>3, FS_Union
<1>5. published' \in Seq(Taken)
  <2>1. published' = Append(published, [tx |-> tx, request |-> r])
    BY DEF Takes
  <2>2. [tx |-> tx, request |-> r] \in Taken
    BY DEF Taken
  <2> QED BY <2>1, <2>2 DEF TypeInv
<1> QED BY <1>4, <1>5

LEMMA SignedType ==
    ASSUME NEW sigs \in Seq(KeySignature), NEW n
    PROVE  [i \in DOMAIN sigs |-> [sigs[i] EXCEPT !.signed = @ \/ i <= n]] \in Seq(KeySignature)
<1> DEFINE made(i) == [sigs[i] EXCEPT !.signed = @ \/ i <= n]
<1>1. ASSUME NEW i \in 1..Len(sigs) PROVE made(i) \in KeySignature
  <2>1. sigs[i] \in KeySignature
    OBVIOUS
  <2>2. (sigs[i].signed \/ i <= n) \in BOOLEAN
    OBVIOUS
  <2>3. \A b \in BOOLEAN : [sigs[i] EXCEPT !.signed = b] \in KeySignature
    BY <2>1 DEF KeySignature
  <2> QED BY <2>2, <2>3
<1>2. DOMAIN sigs = 1..Len(sigs) /\ Len(sigs) \in Nat
  OBVIOUS
<1> HIDE DEF made
<1>3. [i \in 1..Len(sigs) |-> made(i)] \in Seq(KeySignature)
  BY <1>1, <1>2
<1> QED BY <1>2, <1>3 DEF made

LEMMA CombinedType ==
    ASSUME NEW tx \in GoodTx, NEW sigs \in Seq(KeySignature)
    PROVE  Combined(tx, sigs) \in GoodTx
<1> DEFINE scripts == [i \in DOMAIN sigs |->
                         [key |-> sigs[i].address, message |-> sigs[i].message]]
<1>1. DOMAIN sigs = 1..Len(sigs) /\ Len(sigs) \in Nat
      /\ \A i \in 1..Len(sigs) : sigs[i] \in KeySignature
  OBVIOUS
<1>2. scripts \in Seq([key : Address, message : [spends : Coin, pays : SUBSET Output]])
  BY <1>1 DEF KeySignature
<1>3. Combined(tx, sigs) = [tx EXCEPT !.scripts = scripts]
  BY DEF Combined
<1> HIDE DEF scripts
<1> QED BY <1>2, <1>3 DEF GoodTx, Tx

LEMMA BookType ==
    ASSUME NEW r \in Request
    PROVE  LET book == Book[Order[r].account]
           IN  book \in Seq(Own(r)) /\ book # <<>>
<1> DEFINE book == Book[Order[r].account]
<1>1. book \in Seq(Address) /\ book # <<>> /\ ToSet(book) = Own(r)
  BY OrderAssumption DEF Own
<1> HIDE DEF book
<1>2. \A i \in 1..Len(book) : book[i] \in Own(r)
  BY <1>1 DEF ToSet
<1>3. book \in Seq(Own(r))
  BY <1>1, <1>2
<1> QED BY <1>1, <1>3 DEF book

LEMMA NewRawType ==
    ASSUME NEW r \in Request
    PROVE  NewRaw(r) \in GoodRaw(r)
<1>1. \A S : <<>> \in Seq(S)
  OBVIOUS
<1>2. NoTx \in GoodTx
  BY <1>1, FS_EmptySet DEF NoTx, GoodTx, Tx
<1> QED BY <1>1, <1>2, OrderAssumption DEF NewRaw, GoodRaw, RawTransaction, GoodTx, Rates

LEMMA InitType == Init => TypeInv
<1> SUFFICES ASSUME Init PROVE TypeInv
  OBVIOUS
<1>1. \A S : <<>> \in Seq(S)
  OBVIOUS
<1>3. \A r \in Request : NewRaw(r) \in GoodRaw(r)
  BY NewRawType
<1>4. \A r \in Request : Idle \in GoodCall(r)
  BY <1>1 DEF Idle, GoodCall
<1> QED BY <1>1, <1>3, <1>4, OrderAssumption DEF Init, TypeInv

LEMMA StepType ==
    ASSUME TypeInv, NEW r \in Request, Step(r)
    PROVE  TypeInv'
<1> DEFINE CallOk == call' = [q \in Request |-> call'[q]]
                     /\ \A q \in Request : call'[q] \in GoodCall(q)
           RawOk == raw' = [q \in Request |-> raw'[q]]
                    /\ \A q \in Request : raw'[q] \in GoodRaw(q)
           NodeOk == /\ unspent' \subseteq Coin /\ IsFiniteSet(unspent')
                     /\ published' \in Seq(Taken)
           RecordsOk == \A rec \in records' :
                           rec \in [tx : GoodTx, request : Request, amount : Int]
           SpentOk == spent' \in [Fault -> Nat]
<1>a. ASSUME NEW c \in GoodCall(r), Enter(r, c) PROVE CallOk
  BY <1>a DEF Enter, TypeInv
<1>b. ASSUME NEW w \in GoodRaw(r), raw' = [raw EXCEPT ![r] = w] PROVE RawOk
  BY <1>b DEF TypeInv
<1>c. ASSUME NEW F, Suffer(F) PROVE SpentOk
  BY <1>c DEF Suffer, TypeInv
<1>d. Idle \in GoodCall(r)
  <2>1. \A S : <<>> \in Seq(S)
    OBVIOUS
  <2> QED BY <2>1 DEF Idle, GoodCall
<1>e. NewRaw(r) \in GoodRaw(r)
  BY NewRawType
<1>f. /\ UNCHANGED call => CallOk
      /\ UNCHANGED raw => RawOk
      /\ UNCHANGED <<unspent, published>> => NodeOk
      /\ UNCHANGED records => RecordsOk
      /\ UNCHANGED spent => SpentOk
  BY DEF TypeInv
<1>g. CallOk /\ RawOk /\ NodeOk /\ RecordsOk /\ SpentOk => TypeInv'
  BY DEF TypeInv
<1>h. raw[r] \in GoodRaw(r) /\ call[r] \in GoodCall(r)
  BY DEF TypeInv
<1> HIDE DEF CallOk, RawOk, NodeOk, RecordsOk, SpentOk
<1>1. CASE Create(r)
  <2> DEFINE c == [Idle EXCEPT !.at = "unspent", !.left = Book[Order[r].account]]
  <2>1. c \in GoodCall(r)
    BY <1>d, BookType DEF GoodCall
  <2> HIDE DEF c
  <2>2. Enter(r, c)
    BY <1>1 DEF Create, c
  <2> QED BY <1>1, <1>a, <1>c, <1>f, <1>g, <2>1, <2>2 DEF Create
<1>2. CASE Summarize(r)
  <2> DEFINE c == [Idle EXCEPT !.at = "balance", !.left = Book[Order[r].account]]
  <2>1. c \in GoodCall(r)
    BY <1>d, BookType DEF GoodCall
  <2> HIDE DEF c
  <2>2. Enter(r, c)
    BY <1>2 DEF Summarize, c
  <2> QED BY <1>2, <1>a, <1>c, <1>f, <1>g, <2>1, <2>2 DEF Summarize
<1>3. CASE ReadBalance(r)
  <2>1. call[r].at = "balance"
    BY <1>3 DEF ReadBalance
  <2>2. PICK F \in SUBSET {"rpc"} :
           LET a == Head(call[r].left)
               rich == ToDecimals(Int64(Total(At(a)))) >= Order[r].minTransfer
               read == [call[r] EXCEPT !.left = Tail(@),
                                       !.chosen = IF rich THEN Append(@, a) ELSE @]
           IN  /\ Suffer(F)
               /\ Enter(r, CASE F # {} -> Idle
                             [] F = {} /\ read.left # <<>> -> read
                             [] OTHER -> IF read.chosen = <<>> THEN Idle
                                         ELSE [read EXCEPT !.at = "unspent",
                                                           !.left = read.chosen])
    BY <1>3 DEF ReadBalance
  <2> DEFINE a == Head(call[r].left)
             rich == ToDecimals(Int64(Total(At(a)))) >= Order[r].minTransfer
             read == [call[r] EXCEPT !.left = Tail(@),
                                     !.chosen = IF rich THEN Append(@, a) ELSE @]
             on == [read EXCEPT !.at = "unspent", !.left = read.chosen]
  <2>3. /\ call[r].left \in Seq(Own(r)) /\ call[r].left # <<>>
        /\ call[r].chosen \in Seq(Own(r)) /\ call[r].coins \in Seq(OwnCoin(r))
    BY <1>h, <2>1 DEF GoodCall
  <2>4. a \in Own(r) /\ Tail(call[r].left) \in Seq(Own(r))
    BY <2>3
  <2>5. Append(call[r].chosen, a) \in Seq(Own(r))
    BY <2>3, <2>4
  <2> HIDE DEF rich, a
  <2>6. /\ read.at = "balance"
        /\ read.left \in Seq(Own(r)) /\ read.chosen \in Seq(Own(r))
        /\ (read.left # <<>> => read \in GoodCall(r))
        /\ (read.chosen # <<>> => on \in GoodCall(r))
    BY <1>h, <2>1, <2>3, <2>4, <2>5 DEF GoodCall
  <2>7. \/ Enter(r, Idle)
        \/ Enter(r, read) /\ read.left # <<>>
        \/ Enter(r, on) /\ read.chosen # <<>>
    BY <2>2 DEF a, rich
  <2> HIDE DEF read, on
  <2>8. CallOk
    BY <1>a, <1>d, <2>6, <2>7
  <2>9. SpentOk
    BY <1>c, <2>2
  <2> QED BY <1>3, <1>f, <1>g, <2>8, <2>9 DEF ReadBalance
<1>4. CASE ReadUnspent(r)
  <2>1. call[r].at = "unspent"
    BY <1>4 DEF ReadUnspent
  <2>2. PICK F \in SUBSET {"rpc"} :
           LET coins == call[r].coins \o SetToSeq(At(Head(call[r].left)))
               left  == Tail(call[r].left)
           IN  /\ Suffer(F)
               /\ Enter(r, IF F # {} THEN Idle
                           ELSE [call[r] EXCEPT
                                   !.coins = coins, !.left = left,
                                   !.at = IF left = <<>> THEN "build" ELSE @])
    BY <1>4 DEF ReadUnspent
  <2> DEFINE a == Head(call[r].left)
             found == SetToSeq(At(a))
             coins == call[r].coins \o found
             left == Tail(call[r].left)
             on == [call[r] EXCEPT !.coins = coins, !.left = left,
                                   !.at = IF left = <<>> THEN "build" ELSE @]
  <2>3. /\ call[r].left \in Seq(Own(r)) /\ call[r].left # <<>>
        /\ call[r].chosen \in Seq(Own(r)) /\ call[r].coins \in Seq(OwnCoin(r))
    BY <1>h, <2>1 DEF GoodCall
  <2>4. a \in Own(r) /\ left \in Seq(Own(r))
    BY <2>3
  <2>5. At(a) \subseteq OwnCoin(r) /\ IsFiniteSet(At(a))
    BY <2>4, FS_Subset DEF At, OwnCoin, TypeInv
  <2> HIDE DEF a
  <2>6. found \in Seq(OwnCoin(r))
    BY <2>5, SetToSeqType, SeqOfMore
  <2> HIDE DEF found
  <2>7. coins \in Seq(OwnCoin(r))
    BY <2>3, <2>6
  <2>8. Enter(r, Idle) \/ Enter(r, on)
    BY <2>2 DEF found, a
  <2> HIDE DEF coins, left
  <2>9. on \in GoodCall(r)
    BY <1>h, <2>1, <2>4, <2>7 DEF GoodCall
  <2> HIDE DEF on
  <2>10. CallOk
    BY <1>a, <1>d, <2>8, <2>9
  <2>11. SpentOk
    BY <1>c, <2>2
  <2> QED BY <1>4, <1>f, <1>g, <2>10, <2>11 DEF ReadUnspent
\* The call builds from w.
<1>i. ASSUME NEW w \in GoodRaw(r), NEW o, o.fee \in Rates(r),
             NEW inputs \in Seq(Coin), NEW outs,
             PaysFor(r, o.fee, inputs, outs), NEW changeAddress \in Address \cup {NoAddress},
             Build(r, w, o, inputs, outs, changeAddress)
      PROVE  RawOk /\ SpentOk
  <2>1. PICK F, unknown :
           /\ Suffer(F)
           /\ raw' = [raw EXCEPT ![r] =
                        Built(w, o, inputs, outs, changeAddress, unknown, F)]
    BY <1>i DEF Build
  <2>2. Built(w, o, inputs, outs, changeAddress, unknown, F) \in GoodRaw(r)
    BY <1>i, BuiltType
  <2> QED BY <1>b, <1>c, <2>1, <2>2
<1>5. CASE BuildPayment(r)
  <2> DEFINE o == Asked(r)
             w == FeeRounded(raw[r])
             afford == Affords(ToSet(call[r].coins), Sum(o.to) + o.fee)
  <2>1. IsPayment(r) /\ CallOk
    BY <1>5, <1>a, <1>d DEF BuildPayment
  <2>o. o.to = Order[r].to /\ o.fee = raw[r].feeRate /\ o.fee \in Rates(r)
    BY <1>h DEF Asked, GoodRaw
  <2>w. w \in GoodRaw(r)
    BY <1>h, <2>1, RoundedType
  <2>2. CASE UNCHANGED <<raw, spent>>
    BY <1>5, <1>f, <1>g, <2>1, <2>2 DEF BuildPayment
  <2> HIDE DEF o, w
  <2>3. ASSUME NEW s \in afford,
               Build(r, w, o, s, PayOutputs(o, s), s[1].address)
        PROVE  RawOk /\ SpentOk
    <3>1. IsFiniteSet(ToSet(call[r].coins)) /\ ToSet(call[r].coins) \subseteq OwnCoin(r)
      <4>1. call[r].coins \in Seq(OwnCoin(r))
        BY <1>h DEF GoodCall
      <4> QED BY <4>1, ToSetType
    <3>2. /\ s \in Seq(ToSet(call[r].coins)) /\ s # <<>>
          /\ ToDecimals(Amounts(ToSet(s))) >= Sum(o.to) + o.fee
      BY <2>3, <3>1, AffordsType
    <3>3. s \in Seq(OwnCoin(r))
      BY <3>1, <3>2, SeqOfMore
    <3>4. s \in Seq(Coin) /\ s[1].address \in Address
      BY <3>2, <3>3 DEF OwnCoin, Own
    <3>5. PaysFor(r, o.fee, s, PayOutputs(o, s))
      BY <2>1, <2>o, <3>2, <3>3, PayOutputsPay
    <3> QED BY <1>i, <2>3, <2>o, <2>w, <3>4, <3>5
  <2> QED BY <1>5, <1>f, <1>g, <2>1, <2>2, <2>3 DEF BuildPayment, o, w
<1>6. CASE BuildSummary(r)
  <2> DEFINE s == call[r].coins
  <2>1. ~IsPayment(r) /\ CallOk
    BY <1>6, <1>a, <1>d DEF BuildSummary
  <2>2. CASE raw' = [raw EXCEPT ![r] = NewRaw(r)] /\ UNCHANGED spent
    BY <1>6, <1>b, <1>e, <1>f, <1>g, <2>1, <2>2 DEF BuildSummary
  <2>3. CASE Build(r, NewRaw(r), Order[r], s, SummaryOutputs(Order[r], call[r].chosen, s), NoAddress)
    <3>1. s \in Seq(OwnCoin(r)) /\ call[r].chosen \in Seq(Own(r))
      BY <1>h DEF GoodCall
    <3>r. Order[r].fee \in Rates(r)
      BY DEF Rates
    <3>2. PaysFor(r, Order[r].fee, s, SummaryOutputs(Order[r], call[r].chosen, s))
      BY <2>1, <3>1, <3>r, SummaryOutputsPay
    <3>3. s \in Seq(Coin)
      BY <3>1 DEF OwnCoin
    <3>4. RawOk /\ SpentOk
      BY <1>e, <1>i, <2>3, <3>2, <3>3, <3>r
    <3> QED BY <1>6, <1>f, <1>g, <2>1, <3>4 DEF BuildSummary
  <2> QED BY <1>6, <2>2, <2>3 DEF BuildSummary
<1>7. CASE Sign(r)
  <2> DEFINE sigs == raw[r].signatures
  <2>1. PICK n : /\ Suffer(IF n < Len(sigs) THEN {"key"} ELSE {})
                 /\ raw' = [raw EXCEPT ![r].signatures =
                              [i \in DOMAIN sigs |->
                                 [sigs[i] EXCEPT !.signed = @ \/ i <= n]]]
    BY <1>7 DEF Sign
  <2> DEFINE made == [i \in DOMAIN sigs |-> [sigs[i] EXCEPT !.signed = @ \/ i <= n]]
             new == [raw[r] EXCEPT !.signatures = made]
  <2>2. sigs \in Seq(KeySignature)
    BY <1>h DEF GoodRaw, RawTransaction
  <2>3. made \in Seq(KeySignature)
    BY <2>2, SignedType
  <2>4. raw' = [raw EXCEPT ![r] = new]
    BY <2>1
  <2> HIDE DEF made
  <2>5. new \in GoodRaw(r)
    BY <1>h, <2>3 DEF GoodRaw, RawTransaction
  <2> HIDE DEF new
  <2>6. RawOk /\ SpentOk
    BY <1>b, <1>c, <2>1, <2>4, <2>5
  <2> QED BY <1>7, <1>f, <1>g, <2>6 DEF Sign
<1>8. CASE Verify(r)
  <2> DEFINE w == raw[r]
             pass == [w EXCEPT !.isCompleted = TRUE, !.tx = Combined(w.tx, w.signatures)]
             fail == [w EXCEPT !.isCompleted = FALSE]
  <2>1. Combined(w.tx, w.signatures) \in GoodTx
    <3>1. w.tx \in GoodTx /\ w.signatures \in Seq(KeySignature)
      BY <1>h DEF GoodRaw, RawTransaction
    <3> QED BY <3>1, CombinedType
  <2>2. Combined(w.tx, w.signatures) \in Tx
    BY <2>1 DEF GoodTx
  <2>3. pass \in GoodRaw(r) /\ fail \in GoodRaw(r)
    BY <1>h, <2>1, <2>2 DEF GoodRaw, RawTransaction
  <2>4. raw' = [raw EXCEPT ![r] = pass] \/ raw' = [raw EXCEPT ![r] = fail]
    BY <1>8 DEF Verify
  <2> HIDE DEF pass, fail
  <2>5. RawOk
    BY <1>b, <2>3, <2>4
  <2> QED BY <1>8, <1>f, <1>g, <2>5 DEF Verify
<1>9. CASE Submit(r)
  <2> DEFINE c == [Idle EXCEPT !.at = "validate"]
  <2>1. c \in GoodCall(r)
    BY <1>d DEF GoodCall
  <2>2. Enter(r, c)
    BY <1>9 DEF Submit
  <2> HIDE DEF c
  <2> QED BY <1>9, <1>a, <1>f, <1>g, <2>1, <2>2 DEF Submit
<1>10. CASE Validate(r)
  <2> DEFINE c == [Idle EXCEPT !.at = "publish"]
  <2>1. c \in GoodCall(r)
    BY <1>d DEF GoodCall
  <2>2. /\ Enter(r, c) \/ Enter(r, Idle)
        /\ \E F : Suffer(F)
    BY <1>10 DEF Validate
  <2> HIDE DEF c
  <2> QED BY <1>10, <1>a, <1>c, <1>d, <1>f, <1>g, <2>1, <2>2 DEF Validate
<1>11. CASE Publish(r)
  <2> DEFINE new == [raw[r] EXCEPT !.isSubmit = TRUE]
             rec == [tx |-> raw[r].tx, request |-> r, amount |-> raw[r].txAmount]
  <2>1. /\ Takes(r) /\ Enter(r, Idle) /\ raw' = [raw EXCEPT ![r] = new]
        /\ records' = records \cup {rec} /\ UNCHANGED spent
    BY <1>11 DEF Publish
  <2>2. new \in GoodRaw(r)
    BY <1>h DEF GoodRaw, RawTransaction
  <2>3. rec \in [tx : GoodTx, request : Request, amount : Int]
    BY <1>h DEF GoodRaw, RawTransaction
  <2> HIDE DEF new, rec
  <2>4. NodeOk
    BY <2>1, TakesType DEF NodeOk
  <2>5. RecordsOk
    BY <2>1, <2>3 DEF RecordsOk, TypeInv
  <2> QED BY <1>a, <1>b, <1>d, <1>f, <1>g, <2>1, <2>2, <2>4, <2>5
<1>12. CASE PublishFails(r)
  <2>1. CallOk /\ RawOk /\ RecordsOk
    BY <1>12, <1>a, <1>d, <1>f DEF PublishFails
  <2>2. NodeOk
    BY <1>12, <1>f, TakesType DEF PublishFails, NodeOk
  <2>3. SpentOk
    BY <1>12, <1>c, <1>f DEF PublishFails
  <2> QED BY <1>g, <2>1, <2>2, <2>3
<1> QED
  BY <1>1, <1>2, <1>3, <1>4, <1>5, <1>6, <1>7, <1>8, <1>9, <1>10, <1>11, <1>12 DEF Step

LEMMA NextType == TypeInv /\ [Next]_vars => TypeInv'
<1> SUFFICES ASSUME TypeInv, [Next]_vars PROVE TypeInv'
  OBVIOUS
<1>1. ASSUME NEW r \in Request, Step(r) PROVE TypeInv'
  BY <1>1, StepType
<1>2. CASE UNCHANGED vars
  BY <1>2 DEF vars, TypeInv
<1> QED BY <1>1, <1>2 DEF Next

\* Whatever clients ask for and whatever fails, every reachable state is of the
\* declared types: amounts keep their width, and what the calls hold between
\* two requests to the node are coins and addresses of the account.
THEOREM DecoderTypeCorrect == Spec => []TypeOK
  BY InitType, NextType, TypeInvStrengthens, PTL DEF Spec

------------------------------------------------------------------------------
(* What a transaction that Create built pays. *)

\* The units that outs names.
Units(outs) == [a \in DOMAIN outs |-> UintPart(outs[a])]

\* What is left of the inputs of tx for the change.
Left(rate, tx, outs) == Change(tx.inputs, Units(outs), UintPart(rate))

\* tx is what a call of Create for r builds to pay outs.
Pays(r, rate, tx, outs, changeAddress) ==
    /\ tx.inputs \in Seq(OwnCoin(r)) /\ tx.inputs # <<>>
    /\ PaysFor(r, rate, tx.inputs, outs)
    /\ changeAddress \in (IF IsPayment(r) THEN Own(r) ELSE {NoAddress})
    /\ tx.outputs = BuiltTx(rate, tx.inputs, outs, changeAddress).outputs
    /\ SmallSupply => Narrow(ToSet(tx.inputs))
    /\ SmallSupply /\ ~IsPayment(r) =>
          \A a \in DOMAIN outs \ {Order[r].summaryAddress} : outs[a] < Scale * UintMod

\* The coins are worth, in decimals, what they are worth in units.
LEMMA PaysWhole ==
    ASSUME SmallSupply, NEW r \in Request, NEW rate \in Rates(r), NEW tx \in GoodTx,
           NEW outs, NEW changeAddress, Pays(r, rate, tx, outs, changeAddress)
    PROVE  SumOf(outs, DOMAIN outs) + rate = Total(ToSet(tx.inputs)) * Scale
<1>1. tx.inputs \in Seq(Coin) /\ Narrow(ToSet(tx.inputs))
  BY DEF Pays, GoodTx, Tx
<1>2. Amounts(ToSet(tx.inputs)) = Total(ToSet(tx.inputs))
  BY <1>1, CoinsTotal
<1> QED BY <1>2 DEF Pays, PaysFor, ToDecimals

\* What tx pays to the addresses of A, and to all of them.
PaidOut(rate, tx, outs, changeAddress) ==
    LET fee == UintPart(rate)
        left == Left(rate, tx, outs)
    IN  /\ fee \in Uint /\ left \in Uint
        /\ \A a \in DOMAIN outs : Units(outs)[a] \in Uint
        /\ Total(ToSet(tx.inputs)) \in Nat
        /\ SumOf(Units(outs), DOMAIN outs) \in Nat
        /\ Total(tx.outputs) = fee + SumOf(Units(outs), DOMAIN outs) + left
        /\ \A A : PaidTo(tx, A) = (IF NoAddress \in A THEN fee ELSE 0)
                                 + SumOf(Units(outs), DOMAIN outs \cap A)
                                 + (IF changeAddress \in A THEN left ELSE 0)

LEMMA PaysPaidOut ==
    ASSUME NEW r \in Request, NEW rate \in Rates(r), NEW tx \in GoodTx,
           NEW outs, NEW changeAddress, Pays(r, rate, tx, outs, changeAddress)
    PROVE  PaidOut(rate, tx, outs, changeAddress)
<1> DEFINE units == Units(outs)
           fee == UintPart(rate)
           left == Left(rate, tx, outs)
           built == BuiltTx(rate, tx.inputs, outs, changeAddress)
           D == DOMAIN outs
<1>1. /\ DOMAIN units = D
      /\ IsFiniteSet(D) /\ D \subseteq Address
      /\ \A a \in D : units[a] \in Uint
  BY TruncateType DEF PaysFor, Pays, Units
<1>2. fee \in Uint
  <2>1. rate \in Int
    BY RatesType
  <2> QED BY <2>1, TruncateType
<1>3. Total(ToSet(tx.inputs)) \in Nat
  <2>1. tx.inputs \in Seq(Coin)
    BY DEF GoodTx, Tx
  <2> QED BY <2>1, CoinsTotal
<1>4. built = NewTransaction(tx.inputs, units, changeAddress, fee)
  BY DEF BuiltTx, Units
<1>5. changeAddress \in Address \cup {NoAddress} /\ tx.outputs = built.outputs
  BY DEF Pays, Own
<1>6. left = Change(tx.inputs, units, fee)
  BY DEF Left
<1> HIDE DEF units, fee, built, left, D
<1>7. Makes(built, tx.inputs, units, changeAddress, fee)
  BY <1>1, <1>2, <1>3, <1>4, <1>5, NewTransactionMakes
<1>8. /\ left \in Uint
      /\ \A A : PaidTo(built, A) = (IF NoAddress \in A THEN fee ELSE 0)
                                 + SumOf(units, DOMAIN units \cap A)
                                 + (IF changeAddress \in A THEN left ELSE 0)
  BY <1>6, <1>7 DEF Makes
<1>9. \A A : PaidTo(tx, A) = PaidTo(built, A)
  BY <1>5 DEF PaidTo
<1>10. SumOf(units, D) \in Nat
  <2>1. \A a \in D : units[a] \in Nat
    BY <1>1, BuildAssumption DEF Uint
  <2> QED BY <1>1, <2>1, SumNatural
<1>11. Total(tx.outputs) = fee + SumOf(units, D) + left
  <2> DEFINE All == Address \cup {NoAddress}
  <2>1. {o \in tx.outputs : o.address \in All} = tx.outputs
    BY DEF GoodTx, Tx, Output
  <2>2. PaidTo(tx, All) = Total(tx.outputs)
    BY <2>1 DEF PaidTo
  <2>3. D \cap All = D /\ NoAddress \in All /\ changeAddress \in All
    BY <1>1, <1>5
  <2> HIDE DEF All
  <2> QED BY <1>1, <1>8, <1>9, <2>2, <2>3
<1>12. \A A : PaidTo(tx, A) = (IF NoAddress \in A THEN fee ELSE 0)
                              + SumOf(units, D \cap A)
                              + (IF changeAddress \in A THEN left ELSE 0)
  BY <1>1, <1>8, <1>9
<1> QED
  BY <1>1, <1>2, <1>3, <1>8, <1>10, <1>11, <1>12 DEF PaidOut, units, fee, left, D

LEMMA TruncateWhole ==
    ASSUME NEW d \in Int, d % Scale = 0
    PROVE  d = Scale * Truncate(d) /\ Truncate(d) \in Int
<1>1. PICK q \in Int : d = Scale * q
  BY Multiple, BuildAssumption
<1>2. -d = Scale * (-q) /\ -d \in Int /\ -q \in Int
  BY <1>1, BuildAssumption
<1>3. d \div Scale = q /\ (-d) \div Scale = -q
  BY <1>1, <1>2, Multiple, BuildAssumption
<1>4. Truncate(d) = q
  BY <1>3 DEF Truncate
<1> QED BY <1>1, <1>4

LEMMA SumScaled ==
    ASSUME NEW S, IsFiniteSet(S), NEW c \in Int, NEW f, NEW g,
           \A x \in S : g[x] \in Int /\ f[x] = c * g[x]
    PROVE  SumOf(f, S) = c * SumOf(g, S)
<1> DEFINE C == {V \in SUBSET S : SumOf(f, V) = c * SumOf(g, V)}
<1>0. \A x \in S : f[x] \in Int
  OBVIOUS
<1>1. {} \in C
  BY SumEmpty
<1>2. ASSUME NEW V \in C, NEW x \in S \ V PROVE V \cup {x} \in C
  <2>1. IsFiniteSet(V)
    BY FS_Subset
  <2>2. SumOf(f, V \cup {x}) = f[x] + SumOf(f, V)
    BY <1>0, <2>1, SumInsert
  <2>3. SumOf(g, V \cup {x}) = g[x] + SumOf(g, V)
    BY <2>1, SumInsert
  <2>4. SumOf(g, V) \in Int
    BY <2>1, SumType
  <2>5. PICK a \in Int : a = SumOf(g, V)
    BY <2>4
  <2>6. PICK b \in Int : b = g[x]
    OBVIOUS
  <2>7. f[x] + SumOf(f, V) = c * b + c * a
    BY <2>5, <2>6
  <2>8. c * b + c * a = c * (b + a)
    OBVIOUS
  <2> QED BY <2>2, <2>3, <2>5, <2>6, <2>7, <2>8
<1> HIDE DEF C
<1>3. S \in C
  <2>1. C \in SUBSET (SUBSET S)
    BY DEF C
  <2> QED BY <1>1, <1>2, <2>1, SetInduct
<1> QED BY <1>3 DEF C

\* A summary of whole units leaves nothing for the change.
LEMMA SummaryLeavesNothing ==
    ASSUME WholeSummaries, SmallSupply, NEW r \in Request, ~IsPayment(r),
           NEW rate \in Rates(r), NEW tx \in GoodTx, NEW outs, NEW changeAddress,
           Pays(r, rate, tx, outs, changeAddress)
    PROVE  /\ Left(rate, tx, outs) = 0
           /\ \A a \in DOMAIN outs : outs[a] % Scale = 0
<1> DEFINE D == DOMAIN outs
           T == Total(ToSet(tx.inputs))
           whole == [a \in D |-> Truncate(outs[a])]
           wrapped == [a \in D |-> whole[a] - Units(outs)[a]]
           fee == Truncate(rate)
           sent == SumOf(Units(outs), D)
           S == Order[r].summaryAddress
<1>1. /\ IsFiniteSet(D) /\ D \subseteq Address /\ \A a \in D : outs[a] \in Int
      /\ SumOf(outs, D) + rate = Scale * T
      /\ \A a \in D \ {S} : outs[a] = Order[r].retained
      /\ T \in Nat
  <2>1. T \in Nat
    BY PaysPaidOut DEF PaidOut
  <2>2. Scale * T = T * Scale
    BY <2>1, BuildAssumption
  <2>3. SumOf(outs, D) + rate = T * Scale
    BY PaysWhole
  <2> HIDE DEF T
  <2> QED BY <2>1, <2>2, <2>3 DEF Pays, PaysFor
<1>2. /\ rate % Scale = 0 /\ Order[r].retained % Scale = 0
      /\ rate \in Nat /\ Order[r].retained \in Nat
  BY OrderAssumption, RatesType DEF WholeSummaries
<1>3. \A a \in D : outs[a] % Scale = 0
  <2>1. ASSUME S \in D PROVE outs[S] % Scale = 0
    <3> DEFINE others == SumOf(outs, D \ {S})
    <3>1. IsFiniteSet(D \ {S}) /\ others = SumOf(outs, D) - outs[S]
      BY <1>1, <2>1, SumRemove, FS_Subset
    <3>2. others % Scale = 0 /\ others \in Int
      BY <1>1, <1>2, <3>1, SumDivisible, SumType, BuildAssumption
    <3>3. Scale * T \in Int /\ (Scale * T) % Scale = 0
      BY <1>1, Multiple, BuildAssumption
    <3> HIDE DEF others, T
    <3>4. (Scale * T - others) % Scale = 0 /\ Scale * T - others \in Int
      BY <3>2, <3>3, MultiplesAdd, BuildAssumption
    <3>5. (Scale * T - others - rate) % Scale = 0
      BY <1>2, <3>4, MultiplesAdd, BuildAssumption
    <3>6. SumOf(outs, D) \in Int
      BY <1>1, SumType
    <3>7. outs[S] = Scale * T - others - rate
      BY <1>1, <1>2, <2>1, <3>1, <3>2, <3>3, <3>6
    <3> QED BY <3>5, <3>7
  <2> QED BY <1>1, <1>2, <2>1
<1>4. \A a \in D : whole[a] \in Int /\ outs[a] = Scale * whole[a]
  BY <1>1, <1>3, TruncateWhole
<1>5. fee \in Int /\ rate = Scale * fee
  BY <1>2, TruncateWhole
<1>6. \A a \in D : /\ Units(outs)[a] \in Int /\ Units(outs)[a] = whole[a] % UintMod
                   /\ wrapped[a] = whole[a] - Units(outs)[a]
  <2>1. \A a \in D : Units(outs)[a] \in Uint
    BY PaysPaidOut DEF PaidOut
  <2> QED BY <2>1, BuildAssumption DEF Units, UintPart, Uint
<1>7. sent \in Nat /\ Left(rate, tx, outs) = (T - sent - (fee % UintMod)) % UintMod
  <2>1. sent \in Nat
    BY PaysPaidOut DEF PaidOut
  <2>2. DOMAIN Units(outs) = D
    BY DEF Units
  <2> QED BY <2>1, <2>2 DEF Left, Change, UintPart
<1> HIDE DEF whole, wrapped, fee, D, T
<1>8. SumOf(outs, D) = Scale * SumOf(whole, D) /\ SumOf(whole, D) \in Int
  BY <1>1, <1>4, SumScaled, SumType, BuildAssumption
<1>9. SumOf(whole, D) + fee = T
  <2>1. PICK w \in Int : w = SumOf(whole, D)
    BY <1>8
  <2>2. Scale * w + Scale * fee = Scale * T
    BY <1>1, <1>5, <1>8, <2>1
  <2>3. Scale * (w + fee) = Scale * T
    BY <1>5, <2>2, BuildAssumption
  <2>4. w + fee = T
    <3> PICK x \in Int, y \in Int, s \in Nat \ {0} : x = w + fee /\ y = T /\ s = Scale
      BY <1>1, <1>5, BuildAssumption
    <3>1. s * x = s * y
      BY <2>3
    <3>2. (s * x) \div s = x /\ (s * y) \div s = y
      <4>1. s * x \in Int /\ s * y \in Int
        OBVIOUS
      <4> QED BY <4>1, Multiple
    <3> QED BY <3>1, <3>2
  <2> QED BY <2>1, <2>4
<1>10. \A a \in D : wrapped[a] \in Int /\ wrapped[a] % UintMod = 0
  <2> TAKE a \in D
  <2>1. PICK w \in Int : w = whole[a]
    BY <1>4
  <2>2. wrapped[a] = w - (w % UintMod)
    BY <1>6, <2>1
  <2>3. w - (w % UintMod) = UintMod * (w \div UintMod) /\ w \div UintMod \in Int
    BY Division, BuildAssumption
  <2>4. w - (w % UintMod) \in Int
    BY BuildAssumption
  <2> PICK x \in Int, q \in Int : x = w - (w % UintMod) /\ q = w \div UintMod
    BY <2>3, <2>4
  <2>5. x = UintMod * q
    BY <2>3
  <2>6. x % UintMod = 0
    BY <2>5, Multiple, BuildAssumption
  <2> QED BY <2>2, <2>6
<1>11. SumOf(whole, D) = SumOf(wrapped, D) + sent
  <2>1. \A a \in D : /\ wrapped[a] \in Int /\ Units(outs)[a] \in Int
                     /\ whole[a] = wrapped[a] + Units(outs)[a]
    BY <1>4, <1>6, <1>10
  <2> QED BY <1>1, <2>1, SumPlus
<1>12. SumOf(wrapped, D) % UintMod = 0 /\ SumOf(wrapped, D) \in Int
  BY <1>1, <1>10, SumDivisible, SumType, BuildAssumption
<1>13. (fee - (fee % UintMod)) % UintMod = 0 /\ fee - (fee % UintMod) \in Int
  <2>1. /\ fee - (fee % UintMod) = UintMod * (fee \div UintMod) /\ fee \div UintMod \in Int
        /\ fee - (fee % UintMod) \in Int
    BY <1>5, Division, BuildAssumption
  <2> QED BY <2>1, Multiple, BuildAssumption
<1> HIDE DEF sent
<1>14. T - sent - (fee % UintMod) = SumOf(wrapped, D) + (fee - (fee % UintMod))
  <2>1. PICK f \in Int : f = fee % UintMod
    BY <1>5, BuildAssumption
  <2> QED BY <1>5, <1>7, <1>9, <1>11, <1>12, <2>1
<1>15. (SumOf(wrapped, D) + (fee - (fee % UintMod))) % UintMod = 0
  BY <1>12, <1>13, MultiplesAdd, BuildAssumption
<1>16. Left(rate, tx, outs) = 0
  BY <1>7, <1>14, <1>15
<1> QED BY <1>3, <1>16 DEF D

------------------------------------------------------------------------------
(* Where the raw transactions come from. *)

Origin(r, tx) ==
    \E rate \in Rates(r) : \E outs, changeAddress : Pays(r, rate, tx, outs, changeAddress)

\* The signatures are for the messages of tx.
Agree(sigs, tx) ==
    /\ sigs # <<>> /\ DOMAIN sigs = DOMAIN tx.inputs
    /\ \A i \in DOMAIN sigs : sigs[i].message = Message(tx, tx.inputs[i])

\* amount is the TxAmount of tx; when sure, no address was taken for a stranger's.
Priced(r, tx, amount, sure) ==
    \E rate \in Rates(r) : \E outs, changeAddress : \E unknown \in SUBSET DOMAIN outs :
       /\ Pays(r, rate, tx, outs, changeAddress)
       /\ amount = TxAmount(Order[r].account, outs, unknown, rate)
       /\ sure => unknown = {}

RawInv(r, w, sure) ==
    /\ w.tx = NoTx \/ Origin(r, w.tx)
    /\ w.signatures # <<>> =>
          \E tx \in GoodTx : Agree(w.signatures, tx) /\ Priced(r, tx, w.txAmount, sure)
    /\ w.tx.scripts # <<>> => Agree(w.signatures, w.tx)

CallInv(r, w, c) ==
    /\ c.at \in {"validate", "publish"} => w.tx # NoTx
    /\ SmallSupply => Narrow(ToSet(c.coins))
    /\ ~IsPayment(r) /\ c.at \in {"balance", "unspent", "build"} =>
          /\ Order[r].minTransfer >= Order[r].retained
          /\ SmallSupply /\ c.chosen # <<>> => Order[r].retained < Scale * UintMod

OriginInv ==
    \A r \in Request : /\ RawInv(r, raw[r], spent["lookup"] = 0)
                       /\ CallInv(r, raw[r], call[r])

\* Coins are not made.
SupplyInv == Total(unspent) <= Total(Faucet)

LEMMA CoinsWorth ==
    ASSUME NEW S, S \subseteq Coin, IsFiniteSet(S)
    PROVE  /\ Total(S) \in Nat
           /\ \A T \in SUBSET S : Total(T) \in Nat /\ Total(T) <= Total(S)
<1>1. \A c \in S : c.value \in Nat
  BY BuildAssumption DEF Coin, Uint
<1> QED BY <1>1, TotalType

LEMMA OutputsWorth ==
    ASSUME NEW S, S \subseteq Output, IsFiniteSet(S)
    PROVE  /\ Total(S) \in Nat
           /\ \A T \in SUBSET S : Total(T) \in Nat /\ Total(T) <= Total(S)
<1>1. \A c \in S : c.value \in Nat
  BY BuildAssumption DEF Output, Uint
<1> QED BY <1>1, TotalType

\* A step of r is no step of another request.
LEMMA OthersWait ==
    ASSUME TypeInv, NEW r \in Request, Step(r)
    PROVE  /\ \A q \in Request \ {r} : raw'[q] = raw[q] /\ call'[q] = call[q]
           /\ spent' \in [Fault -> Nat]
           /\ spent'["lookup"] = 0 => spent["lookup"] = 0
<1>1. ASSUME NEW c, Enter(r, c) PROVE \A q \in Request \ {r} : call'[q] = call[q]
  BY <1>1 DEF Enter, TypeInv
<1>2. ASSUME NEW w, raw' = [raw EXCEPT ![r] = w]
      PROVE  \A q \in Request \ {r} : raw'[q] = raw[q]
  BY <1>2 DEF TypeInv
<1>3. ASSUME NEW F, Suffer(F)
      PROVE  spent' \in [Fault -> Nat] /\ (spent'["lookup"] = 0 => spent["lookup"] = 0)
  BY <1>3 DEF Suffer, TypeInv, Fault
<1>4. ASSUME UNCHANGED spent
      PROVE  spent' \in [Fault -> Nat] /\ (spent'["lookup"] = 0 => spent["lookup"] = 0)
  BY <1>4 DEF TypeInv
<1>5. CASE Create(r) \/ Summarize(r)
  BY <1>1, <1>3, <1>5 DEF Create, Summarize
<1>6. CASE ReadBalance(r) \/ ReadUnspent(r)
  BY <1>1, <1>3, <1>6 DEF ReadBalance, ReadUnspent
<1>7. CASE BuildPayment(r)
  <2>1. \A q \in Request \ {r} : call'[q] = call[q]
    BY <1>1, <1>7 DEF BuildPayment
  <2>2. CASE UNCHANGED <<raw, spent>>
    BY <1>4, <2>1, <2>2
  <2>3. ASSUME NEW s, Build(r, FeeRounded(raw[r]), Asked(r), s, PayOutputs(Asked(r), s), s[1].address)
        PROVE  /\ \A q \in Request \ {r} : raw'[q] = raw[q]
               /\ \E F : Suffer(F)
    BY <1>2, <2>3 DEF Build
  <2> QED BY <1>3, <1>7, <2>1, <2>2, <2>3 DEF BuildPayment
<1>8. CASE BuildSummary(r)
  <2>1. \A q \in Request \ {r} : call'[q] = call[q]
    BY <1>1, <1>8 DEF BuildSummary
  <2>2. CASE raw' = [raw EXCEPT ![r] = NewRaw(r)] /\ UNCHANGED spent
    BY <1>2, <1>4, <2>1, <2>2
  <2>3. ASSUME NEW s, NEW outs, Build(r, NewRaw(r), Order[r], s, outs, NoAddress)
        PROVE  /\ \A q \in Request \ {r} : raw'[q] = raw[q]
               /\ \E F : Suffer(F)
    BY <1>2, <2>3 DEF Build
  <2> QED BY <1>3, <1>8, <2>1, <2>2, <2>3 DEF BuildSummary
<1>9. CASE Sign(r)
  <2>1. \A q \in Request \ {r} : raw'[q] = raw[q]
    BY <1>9 DEF Sign, TypeInv
  <2> QED BY <1>3, <1>9, <2>1 DEF Sign
<1>10. CASE Verify(r)
  <2>1. \A q \in Request \ {r} : raw'[q] = raw[q]
    BY <1>10 DEF Verify, TypeInv
  <2> QED BY <1>4, <1>10, <2>1 DEF Verify
<1>11. CASE Submit(r) \/ Validate(r)
  BY <1>1, <1>3, <1>4, <1>11 DEF Submit, Validate
<1>12. CASE Publish(r)
  <2>1. \A q \in Request \ {r} : raw'[q] = raw[q]
    BY <1>12 DEF Publish, TypeInv
  <2> QED BY <1>1, <1>4, <1>12, <2>1 DEF Publish
<1>13. CASE PublishFails(r)
  BY <1>1, <1>3, <1>4, <1>13 DEF PublishFails
<1> QED
  BY <1>5, <1>6, <1>7, <1>8, <1>9, <1>10, <1>11, <1>12, <1>13 DEF Step

LEMMA NonEmptyDomain ==
    ASSUME NEW S, NEW s \in Seq(S), s # <<>>
    PROVE  DOMAIN s # {}
<1>1. DOMAIN s = 1..Len(s) /\ Len(s) \in Nat /\ (Len(s) = 0 => s = <<>>)
  OBVIOUS
<1>2. 1 \in 1..Len(s)
  BY <1>1
<1> QED BY <1>1, <1>2

LEMMA LessSure ==
    ASSUME NEW r, NEW w, NEW sure, NEW less, less => sure, RawInv(r, w, sure)
    PROVE  RawInv(r, w, less)
  BY DEF RawInv, Priced

\* What Build leaves.
LEMMA BuildOrigin ==
    ASSUME TypeInv, NEW r \in Request, NEW w \in GoodRaw(r),
           RawInv(r, w, spent["lookup"] = 0), NEW rate \in Rates(r),
           NEW o, o.account = Order[r].account, o.fee = rate,
           NEW inputs \in Seq(OwnCoin(r)), inputs # <<>>, NEW outs,
           PaysFor(r, rate, inputs, outs), SmallSupply => Narrow(ToSet(inputs)),
           NEW changeAddress \in (IF IsPayment(r) THEN Own(r) ELSE {NoAddress}),
           SmallSupply /\ ~IsPayment(r) =>
              \A a \in DOMAIN outs \ {Order[r].summaryAddress} : outs[a] < Scale * UintMod,
           Build(r, w, o, inputs, outs, changeAddress)
    PROVE  RawInv(r, raw'[r], spent'["lookup"] = 0)
<1>1. PICK F \in SUBSET {"address", "lookup"}, unknown \in SUBSET DOMAIN outs :
         /\ "lookup" \in F <=> unknown # {}
         /\ Suffer(F)
         /\ raw' = [raw EXCEPT ![r] =
                      Built(w, o, inputs, outs, changeAddress, unknown, F)]
  BY DEF Build
<1> DEFINE tx == BuiltTx(rate, inputs, outs, changeAddress)
           amount == TxAmount(Order[r].account, outs, unknown, rate)
           sigs == KeySignatures(tx)
           new == Built(w, o, inputs, outs, changeAddress, unknown, F)
           sure == spent["lookup"] = 0
           less == spent'["lookup"] = 0
<1>2. /\ less => sure
      /\ less => unknown = {}
  BY <1>1 DEF Suffer, TypeInv, Fault
<1>3. raw'[r] = new
  BY <1>1 DEF TypeInv
<1>4. new = IF "address" \in F THEN [w EXCEPT !.tx = tx]
            ELSE [w EXCEPT !.tx = tx, !.signatures = sigs, !.txAmount = amount]
  BY DEF Built, BuiltTx
<1>5. /\ tx \in GoodTx /\ tx.inputs = inputs /\ tx.scripts = <<>>
  <2>1. inputs \in Seq(Coin) /\ changeAddress \in Address \cup {NoAddress}
    BY DEF OwnCoin, Own
  <2> QED BY <2>1, BuiltTxType
<1>6. Pays(r, rate, tx, outs, changeAddress)
  BY <1>5 DEF Pays
<1>7. Agree(sigs, tx)
  <2>1. DOMAIN inputs # {}
    BY NonEmptyDomain
  <2>2. /\ DOMAIN sigs = DOMAIN tx.inputs
        /\ \A i \in DOMAIN sigs : sigs[i].message = Message(tx, tx.inputs[i])
    BY DEF KeySignatures
  <2>3. DOMAIN <<>> = {}
    OBVIOUS
  <2> HIDE DEF sigs
  <2>4. sigs # <<>>
    BY <1>5, <2>1, <2>2, <2>3
  <2> QED BY <2>2, <2>4 DEF Agree
<1> HIDE DEF tx, amount, sigs, new, sure, less
<1>8. RawInv(r, w, less)
  BY <1>2, LessSure DEF sure
<1>9. w \in RawTransaction
  BY DEF GoodRaw
<1>10. CASE "address" \in F
  <2>1. /\ new.tx = tx /\ new.signatures = w.signatures
        /\ new.txAmount = w.txAmount
    BY <1>4, <1>9, <1>10 DEF RawTransaction
  <2> QED BY <1>3, <1>5, <1>6, <1>8, <2>1 DEF RawInv, Origin, less
<1>11. CASE "address" \notin F
  <2>1. new.tx = tx /\ new.signatures = sigs /\ new.txAmount = amount
    BY <1>4, <1>9, <1>11 DEF RawTransaction
  <2>2. Priced(r, tx, amount, less)
    BY <1>2, <1>6 DEF Priced, amount
  <2> QED BY <1>3, <1>5, <1>6, <1>7, <2>1, <2>2 DEF RawInv, Origin, less
<1> QED BY <1>10, <1>11

LEMMA NewRawOrigin ==
    ASSUME NEW r, NEW sure
    PROVE  RawInv(r, NewRaw(r), sure)
  BY DEF RawInv, NewRaw, NoTx

LEMMA NothingNarrow == Narrow(ToSet(<<>>))
  BY DEF Narrow, ToSet

LEMMA InitOrigin == Init => OriginInv /\ SupplyInv
<1> SUFFICES ASSUME Init PROVE OriginInv /\ SupplyInv
  OBVIOUS
<1>1. \A r \in Request : raw[r] = NewRaw(r) /\ call[r] = Idle
  BY DEF Init
<1>2. \A r \in Request : RawInv(r, raw[r], spent["lookup"] = 0)
  BY <1>1, NewRawOrigin
<1>3. \A r \in Request : CallInv(r, raw[r], call[r])
  BY <1>1, NothingNarrow DEF CallInv, Idle
<1>4. SupplyInv
  <2>1. Total(Faucet) \in Nat
    BY OrderAssumption, CoinsWorth
  <2> QED BY <2>1 DEF SupplyInv, Init
<1> QED BY <1>2, <1>3, <1>4 DEF OriginInv

\* A raw transaction is NoTx no more once something is built.
LEMMA VerifiedOrigin ==
    ASSUME NEW r \in Request, NEW w \in GoodRaw(r), NEW sure, RawInv(r, w, sure),
           Verifies(w.tx, w.signatures)
    PROVE  RawInv(r, [w EXCEPT !.isCompleted = TRUE, !.tx = Combined(w.tx, w.signatures)], sure)
<1> DEFINE tx == Combined(w.tx, w.signatures)
           new == [w EXCEPT !.isCompleted = TRUE, !.tx = tx]
<1>1. Agree(w.signatures, w.tx)
  BY DEF Verifies, Agree
<1>2. /\ w.tx.inputs \in Seq(Coin) /\ w.tx.outputs = w.tx.outputs
      /\ w \in RawTransaction /\ w.tx \in Tx
  BY DEF GoodRaw, RawTransaction, GoodTx, Tx
<1>3. tx.inputs = w.tx.inputs /\ tx.outputs = w.tx.outputs
  BY <1>2 DEF Combined, Tx
<1>4. w.tx # NoTx
  <2> SUFFICES ASSUME w.tx = NoTx PROVE FALSE
    OBVIOUS
  <2>1. w.tx.inputs = <<>> /\ DOMAIN <<>> = {}
    BY DEF NoTx
  <2>2. w.signatures \in Seq(KeySignature) /\ w.signatures # <<>>
    BY <1>1 DEF Agree, GoodRaw, RawTransaction
  <2>3. DOMAIN w.signatures # {}
    BY <2>2, NonEmptyDomain
  <2> QED BY <1>1, <2>1, <2>3 DEF Agree
<1>5. Origin(r, tx)
  <2>0. PICK rate \in Rates(r) :
           \E outs, changeAddress : Pays(r, rate, w.tx, outs, changeAddress)
    BY <1>4 DEF RawInv, Origin
  <2>1. PICK outs, changeAddress : Pays(r, rate, w.tx, outs, changeAddress)
    BY <2>0
  <2>2. Pays(r, rate, tx, outs, changeAddress)
    BY <1>3, <2>1 DEF Pays
  <2> QED BY <2>2 DEF Origin
<1>6. Agree(w.signatures, tx)
  BY <1>1, <1>3 DEF Agree, Message
<1> HIDE DEF tx
<1>7. /\ new.tx = tx /\ new.signatures = w.signatures /\ new.txAmount = w.txAmount
  BY <1>2 DEF RawTransaction
<1> HIDE DEF new
<1>8. RawInv(r, new, sure)
  BY <1>5, <1>6, <1>7 DEF RawInv
<1> QED BY <1>8 DEF new, tx

\* No unspent coin turns negative in an int64.
LEMMA UnspentNarrow ==
    ASSUME TypeInv, SupplyInv, SmallSupply, NEW a
    PROVE  Narrow(At(a))
<1> SUFFICES ASSUME NEW c \in At(a) PROVE 2 * c.value < UintMod
  BY DEF Narrow
<1>1. c \in Coin /\ {c} \in SUBSET unspent /\ c.value \in Nat
  BY BuildAssumption DEF At, TypeInv, Coin, Uint
<1>2. Total({c}) <= Total(unspent) /\ Total({c}) = c.value /\ Total(unspent) \in Nat
  BY <1>1, CoinsWorth, TotalOne DEF TypeInv
<1>3. Total(Faucet) \in Nat
  BY OrderAssumption, CoinsWorth
<1> QED BY <1>1, <1>2, <1>3, BuildAssumption DEF SupplyInv, SmallSupply

LEMMA AppendedSet ==
    ASSUME NEW s \in Seq(Coin), NEW S, IsFiniteSet(S), S \subseteq Coin
    PROVE  ToSet(s \o SetToSeq(S)) \subseteq ToSet(s) \cup S
<1> PICK t : t = SetToSeq(S)
  OBVIOUS
<1>1. t \in Seq(S)
  BY SetToSeqType
<1>2. t \in Seq(Coin)
  BY <1>1, SeqOfMore
<1>3. ASSUME NEW i \in 1..Len(s \o t) PROVE (s \o t)[i] \in ToSet(s) \cup S
  <2>1. CASE i <= Len(s)
    BY <2>1, <1>2 DEF ToSet
  <2>2. CASE i > Len(s)
    <3>1. i - Len(s) \in 1..Len(t) /\ (s \o t)[i] = t[i - Len(s)]
      BY <1>2, <2>2
    <3> QED BY <1>1, <3>1
  <2> QED BY <1>2, <2>1, <2>2
<1>4. DOMAIN (s \o t) = 1..Len(s \o t)
  BY <1>2
<1> QED BY <1>3, <1>4 DEF ToSet

LEMMA StepOrigin ==
    ASSUME TypeInv, OriginInv, SupplyInv, NEW r \in Request, Step(r)
    PROVE  OriginInv'
<1> DEFINE sure == spent["lookup"] = 0
           less == spent'["lookup"] = 0
<1>1. /\ \A q \in Request \ {r} : raw'[q] = raw[q] /\ call'[q] = call[q]
      /\ less => sure
  BY OthersWait
<1>2. /\ RawInv(r, raw[r], sure) /\ RawInv(r, raw[r], less)
      /\ CallInv(r, raw[r], call[r])
  BY <1>1, LessSure DEF OriginInv
<1>3. raw[r] \in GoodRaw(r) /\ raw[r] \in RawTransaction /\ call[r] \in GoodCall(r)
  BY DEF TypeInv, GoodRaw
<1>4. ASSUME RawInv(r, raw'[r], less), CallInv(r, raw'[r], call'[r]) PROVE OriginInv'
  <2>1. ASSUME NEW q \in Request \ {r}
        PROVE  RawInv(q, raw'[q], less) /\ CallInv(q, raw'[q], call'[q])
    <3>1. RawInv(q, raw[q], sure) /\ CallInv(q, raw[q], call[q])
      BY DEF OriginInv
    <3> HIDE DEF sure, less
    <3> QED BY <1>1, <3>1, LessSure
  <2> QED BY <1>4, <2>1 DEF OriginInv
<1>5. ASSUME NEW c, Enter(r, c) PROVE call'[r] = c
  BY <1>5 DEF Enter, TypeInv
<1>6. ASSUME NEW w, raw' = [raw EXCEPT ![r] = w] PROVE raw'[r] = w
  BY <1>6 DEF TypeInv
<1>7. \A w : CallInv(r, w, Idle)
  BY NothingNarrow DEF CallInv, Idle
<1>8. ASSUME UNCHANGED raw PROVE RawInv(r, raw'[r], less)
  BY <1>2, <1>8
<1> HIDE DEF sure, less
<1>9. CASE Create(r)
  <2>1. CallInv(r, raw'[r], call'[r])
    BY <1>5, <1>9, NothingNarrow DEF Create, CallInv, Idle
  <2> QED BY <1>4, <1>8, <1>9, <2>1 DEF Create
<1>10. CASE Summarize(r)
  <2>1. CallInv(r, raw'[r], call'[r])
    BY <1>5, <1>10, NothingNarrow DEF Summarize, CallInv, Idle
  <2> QED BY <1>4, <1>8, <1>10, <2>1 DEF Summarize
<1>11. CASE ReadBalance(r)
  <2> DEFINE a == Head(call[r].left)
             rich == ToDecimals(Int64(Total(At(a)))) >= Order[r].minTransfer
             read == [call[r] EXCEPT !.left = Tail(@),
                                     !.chosen = IF rich THEN Append(@, a) ELSE @]
             on == [read EXCEPT !.at = "unspent", !.left = read.chosen]
  <2>1. call[r].at = "balance" /\ UNCHANGED raw
    BY <1>11 DEF ReadBalance
  <2>2. call'[r] \in {Idle, read, on}
    BY <1>5, <1>11 DEF ReadBalance
  <2>3. ~IsPayment(r) => /\ Order[r].minTransfer >= Order[r].retained
                         /\ Order[r].minTransfer \in Nat /\ Order[r].retained \in Nat
    BY <1>2, <2>1, OrderAssumption DEF CallInv
  <2>4. ~IsPayment(r) /\ SmallSupply /\ rich => Order[r].retained < Scale * UintMod
    <3> SUFFICES ASSUME ~IsPayment(r), SmallSupply, rich
                 PROVE  Order[r].retained < Scale * UintMod
      OBVIOUS
    <3>1. At(a) \in SUBSET unspent
      BY DEF At
    <3>2. Total(At(a)) \in Nat /\ Total(At(a)) <= Total(unspent) /\ Total(unspent) \in Nat
      BY <3>1, CoinsWorth DEF TypeInv
    <3>3. Total(Faucet) \in Nat
      BY OrderAssumption, CoinsWorth
    <3>4. PICK t \in Nat : t = Total(At(a)) /\ 2 * t < UintMod /\ t < UintMod
      BY <3>2, <3>3, BuildAssumption DEF SupplyInv, SmallSupply
    <3>7. Int64(t) = t
      BY <3>4 DEF Int64
    <3>5. Scale * t < Scale * UintMod /\ t * Scale = Scale * t /\ Scale * t \in Nat
          /\ Scale * UintMod \in Nat
      BY <3>4, BuildAssumption
    <3>6. t * Scale >= Order[r].minTransfer
      BY <3>4, <3>7 DEF ToDecimals
    <3> HIDE DEF a, rich
    <3> QED BY <2>3, <3>5, <3>6
  <2>5. /\ call[r].chosen \in Seq(Own(r))
        /\ (~rich => read.chosen = call[r].chosen) /\ read.at = "balance"
        /\ on.at = "unspent" /\ on.chosen = read.chosen
        /\ read.coins = call[r].coins /\ on.coins = call[r].coins
    BY <1>3, <2>1 DEF GoodCall
  <2> HIDE DEF a, rich, read, on
  <2>6. ~IsPayment(r) /\ SmallSupply /\ read.chosen # <<>> => Order[r].retained < Scale * UintMod
    BY <1>2, <2>1, <2>4, <2>5 DEF CallInv
  <2>7. CallInv(r, raw'[r], read) /\ CallInv(r, raw'[r], on)
    BY <1>2, <2>3, <2>5, <2>6 DEF CallInv
  <2>8. CallInv(r, raw'[r], call'[r])
    BY <1>7, <2>2, <2>7
  <2> QED BY <1>4, <1>8, <2>1, <2>8
<1>12. CASE ReadUnspent(r)
  <2>1. call[r].at = "unspent" /\ UNCHANGED raw
    BY <1>12 DEF ReadUnspent
  <2>2. \/ call'[r] = Idle
        \/ /\ call'[r].chosen = call[r].chosen
           /\ call'[r].at \in {"unspent", "build"}
           /\ call'[r].coins = call[r].coins \o SetToSeq(At(Head(call[r].left)))
    BY <1>3, <1>5, <1>12 DEF ReadUnspent, GoodCall
  <2>3. SmallSupply => Narrow(ToSet(call[r].coins \o SetToSeq(At(Head(call[r].left)))))
    <3> PICK a : a = Head(call[r].left)
      OBVIOUS
    <3>1. SmallSupply => Narrow(ToSet(call[r].coins)) /\ Narrow(At(a))
      BY <1>2, UnspentNarrow DEF CallInv
    <3>2. IsFiniteSet(At(a)) /\ At(a) \subseteq Coin
      BY FS_Subset DEF At, TypeInv
    <3>3. call[r].coins \in Seq(Coin)
      BY <1>3 DEF GoodCall, OwnCoin
    <3>4. ToSet(call[r].coins \o SetToSeq(At(a))) \subseteq ToSet(call[r].coins) \cup At(a)
      BY <3>2, <3>3, AppendedSet
    <3> QED BY <3>1, <3>4 DEF Narrow
  <2>4. CallInv(r, raw'[r], call'[r])
    BY <1>2, <1>7, <2>1, <2>2, <2>3 DEF CallInv
  <2> QED BY <1>4, <1>8, <2>1, <2>4
<1>13. CASE BuildPayment(r)
  <2> DEFINE rate == raw[r].feeRate
             afford == Affords(ToSet(call[r].coins), Sum(Order[r].to) + rate)
  <2>1. IsPayment(r) /\ CallInv(r, raw'[r], call'[r])
    BY <1>5, <1>7, <1>13 DEF BuildPayment
  <2>2. CASE UNCHANGED raw
    BY <1>4, <1>8, <2>1, <2>2
  <2>4. /\ rate \in Rates(r) /\ Asked(r).fee = rate
        /\ Asked(r).to = Order[r].to /\ Asked(r).account = Order[r].account
    BY <1>3 DEF GoodRaw, Asked
  <2>5. /\ FeeRounded(raw[r]) \in GoodRaw(r)
        /\ RawInv(r, FeeRounded(raw[r]), spent["lookup"] = 0)
    <3> PICK w : w = FeeRounded(raw[r])
      OBVIOUS
    <3>1. /\ w \in GoodRaw(r) /\ w.tx = raw[r].tx
          /\ w.signatures = raw[r].signatures /\ w.txAmount = raw[r].txAmount
      BY <1>3, <2>1, RoundedType
    <3>2. RawInv(r, w, sure)
      BY <1>2, <3>1 DEF RawInv
    <3> QED BY <3>1, <3>2 DEF sure
  <2>3. ASSUME NEW s \in afford,
               Build(r, FeeRounded(raw[r]), Asked(r), s, PayOutputs(Asked(r), s), s[1].address)
        PROVE  RawInv(r, raw'[r], less)
    <3>1. IsFiniteSet(ToSet(call[r].coins)) /\ ToSet(call[r].coins) \subseteq OwnCoin(r)
      <4>1. call[r].coins \in Seq(OwnCoin(r))
        BY <1>3 DEF GoodCall
      <4> QED BY <4>1, ToSetType
    <3>2. /\ s \in Seq(ToSet(call[r].coins)) /\ s # <<>>
          /\ ToDecimals(Amounts(ToSet(s))) >= Sum(Order[r].to) + rate
      BY <2>3, <3>1, AffordsType
    <3>3. s \in Seq(OwnCoin(r))
      BY <3>1, <3>2, SeqOfMore
    <3>4. s[1].address \in Own(r)
      BY <3>2, <3>3 DEF OwnCoin
    <3> PICK o : o = Asked(r)
      OBVIOUS
    <3> DEFINE outs == PayOutputs(o, s)
               w == FeeRounded(raw[r])
    <3>5. PaysFor(r, rate, s, outs)
      BY <2>1, <2>4, <3>2, <3>3, PayOutputsPay
    <3>6. SmallSupply => Narrow(ToSet(s))
      <4>1. \A i \in DOMAIN s : s[i] \in ToSet(call[r].coins)
        BY <3>2
      <4> QED BY <1>2, <4>1 DEF CallInv, Narrow, ToSet
    <3>7. Build(r, w, o, s, outs, s[1].address)
      BY <2>3
    <3>8. w \in GoodRaw(r) /\ RawInv(r, w, spent["lookup"] = 0)
      BY <2>5
    <3>9. o.fee = rate /\ o.account = Order[r].account
      BY <2>4
    <3> HIDE DEF outs, w, rate
    <3> QED BY <2>1, <2>4, <3>2, <3>3, <3>4, <3>5, <3>6, <3>7, <3>8, <3>9, BuildOrigin DEF less
  <2>6. \/ UNCHANGED raw
        \/ \E s \in afford :
              Build(r, FeeRounded(raw[r]), Asked(r), s, PayOutputs(Asked(r), s), s[1].address)
    BY <1>13 DEF BuildPayment, Asked
  <2> HIDE DEF afford, rate
  <2> QED BY <1>4, <2>1, <2>2, <2>3, <2>6
<1>14. CASE BuildSummary(r)
  <2> DEFINE s == call[r].coins
             chosen == call[r].chosen
             outs == SummaryOutputs(Order[r], chosen, s)
             rate == Order[r].fee
  <2>1. /\ ~IsPayment(r) /\ CallInv(r, raw'[r], call'[r])
        /\ call[r].at = "build"
    BY <1>5, <1>7, <1>14 DEF BuildSummary
  <2>4. rate \in Rates(r)
    BY DEF Rates
  <2>2. CASE raw' = [raw EXCEPT ![r] = NewRaw(r)]
    <3>1. RawInv(r, raw'[r], less)
      BY <1>6, <2>2, NewRawOrigin
    <3> QED BY <1>4, <2>1, <3>1
  <2>3. CASE s # <<>> /\ Build(r, NewRaw(r), Order[r], s, outs, NoAddress)
    <3>1. s \in Seq(OwnCoin(r)) /\ chosen \in Seq(Own(r))
      BY <1>3 DEF GoodCall
    <3>2. /\ PaysFor(r, rate, s, outs)
          /\ \A a \in DOMAIN outs : a # Order[r].summaryAddress => a \in ToSet(chosen)
      BY <2>1, <2>4, <3>1, SummaryOutputsPay
    <3>3. SmallSupply => \A a \in DOMAIN outs \ {Order[r].summaryAddress} :
                            outs[a] < Scale * UintMod
      <4> SUFFICES ASSUME SmallSupply, NEW a \in DOMAIN outs \ {Order[r].summaryAddress}
                   PROVE  outs[a] < Scale * UintMod
        OBVIOUS
      <4>1. a \in ToSet(chosen)
        BY <3>2
      <4>2. chosen # <<>>
        BY <4>1 DEF ToSet
      <4>3. outs[a] = Order[r].retained
        BY <2>1, <3>2 DEF PaysFor
      <4> QED BY <1>2, <2>1, <4>2, <4>3 DEF CallInv
    <3>4. RawInv(r, NewRaw(r), spent["lookup"] = 0) /\ NewRaw(r) \in GoodRaw(r)
      BY NewRawOrigin, NewRawType
    <3>6. SmallSupply => Narrow(ToSet(s))
      BY <1>2 DEF CallInv
    <3> HIDE DEF s, chosen, outs
    <3>5. RawInv(r, raw'[r], spent'["lookup"] = 0)
      BY <2>1, <2>3, <2>4, <3>1, <3>2, <3>3, <3>4, <3>6, BuildOrigin
    <3> QED BY <1>4, <2>1, <3>5 DEF less
  <2> QED BY <1>14, <2>2, <2>3 DEF BuildSummary
<1>15. CASE Sign(r)
  <2> DEFINE sigs == raw[r].signatures
  <2>1. PICK n : raw' = [raw EXCEPT ![r].signatures =
                           [i \in DOMAIN sigs |->
                              [sigs[i] EXCEPT !.signed = @ \/ i <= n]]]
    BY <1>15 DEF Sign
  <2> DEFINE made == [i \in DOMAIN sigs |-> [sigs[i] EXCEPT !.signed = @ \/ i <= n]]
             new == [raw[r] EXCEPT !.signatures = made]
  <2>2. sigs \in Seq(KeySignature) /\ sigs # <<>>
    BY <1>3, <1>15 DEF RawTransaction, Sign
  <2>3. \A i \in DOMAIN sigs : made[i].message = sigs[i].message
    BY <2>2 DEF KeySignature
  <2>4. raw'[r] = new
    BY <2>1 DEF TypeInv
  <2>5. DOMAIN made = DOMAIN sigs
    OBVIOUS
  <2> HIDE DEF made
  <2>6. /\ new.tx = raw[r].tx /\ new.signatures = made
        /\ new.txAmount = raw[r].txAmount
    BY <1>3 DEF RawTransaction
  <2>7. made # <<>>
    <3>1. DOMAIN sigs # {} /\ DOMAIN <<>> = {}
      BY <2>2, NonEmptyDomain
    <3> QED BY <2>5, <3>1
  <2>8. \A tx : Agree(sigs, tx) => Agree(made, tx)
    BY <2>3, <2>5, <2>7 DEF Agree
  <2> HIDE DEF new
  <2>9. RawInv(r, raw'[r], less)
    BY <1>2, <2>2, <2>4, <2>6, <2>8 DEF RawInv
  <2>10. CallInv(r, raw'[r], call'[r])
    BY <1>2, <1>7, <1>15, <2>4, <2>6 DEF Sign
  <2> QED BY <1>4, <2>9, <2>10
<1>16. CASE Verify(r)
  <2> DEFINE w == raw[r]
             pass == [w EXCEPT !.isCompleted = TRUE, !.tx = Combined(w.tx, w.signatures)]
             fail == [w EXCEPT !.isCompleted = FALSE]
  <2>1. CallInv(r, raw'[r], call'[r])
    BY <1>7, <1>16 DEF Verify
  <2>2. raw'[r] = IF Verifies(w.tx, w.signatures) THEN pass ELSE fail
    BY <1>6, <1>16 DEF Verify
  <2>3. CASE Verifies(w.tx, w.signatures)
    <3>1. RawInv(r, pass, less)
      BY <1>2, <1>3, <2>3, VerifiedOrigin
    <3> QED BY <1>4, <2>1, <2>2, <2>3, <3>1
  <2>4. CASE ~Verifies(w.tx, w.signatures)
    <3>1. /\ fail.tx = w.tx /\ fail.signatures = w.signatures
          /\ fail.txAmount = w.txAmount
      BY <1>3 DEF RawTransaction
    <3> HIDE DEF fail
    <3>2. RawInv(r, fail, less)
      BY <1>2, <3>1 DEF RawInv
    <3> QED BY <1>4, <2>1, <2>2, <2>4, <3>2
  <2> QED BY <2>3, <2>4
<1>17. CASE Submit(r)
  <2>1. CallInv(r, raw'[r], call'[r])
    BY <1>2, <1>5, <1>17, NothingNarrow DEF Submit, CallInv, Idle
  <2> QED BY <1>4, <1>8, <1>17, <2>1 DEF Submit
<1>18. CASE Validate(r)
  <2>1. raw[r].tx # NoTx
    BY <1>2, <1>18 DEF Validate, CallInv
  <2>2. \/ call'[r] = Idle
        \/ call'[r].at = "publish" /\ call'[r].coins = <<>>
    BY <1>5, <1>18 DEF Validate, Idle
  <2>3. CallInv(r, raw'[r], call'[r])
    BY <1>7, <1>18, <2>1, <2>2, NothingNarrow DEF Validate, CallInv
  <2> QED BY <1>4, <1>8, <1>18, <2>3 DEF Validate
<1>19. CASE Publish(r)
  <2> DEFINE new == [raw[r] EXCEPT !.isSubmit = TRUE]
  <2>1. raw'[r] = new /\ call'[r] = Idle
    BY <1>5, <1>6, <1>19 DEF Publish
  <2>2. /\ new.tx = raw[r].tx /\ new.signatures = raw[r].signatures
        /\ new.txAmount = raw[r].txAmount
    BY <1>3 DEF RawTransaction
  <2> HIDE DEF new
  <2>3. RawInv(r, raw'[r], less)
    BY <1>2, <2>1, <2>2 DEF RawInv
  <2> QED BY <1>4, <1>7, <2>1, <2>3
<1>20. CASE PublishFails(r)
  <2>1. CallInv(r, raw'[r], call'[r])
    BY <1>5, <1>7, <1>20 DEF PublishFails
  <2> QED BY <1>4, <1>8, <1>20, <2>1 DEF PublishFails
<1> QED
  BY <1>9, <1>10, <1>11, <1>12, <1>13, <1>14, <1>15, <1>16, <1>17, <1>18, <1>19, <1>20
  DEF Step
==============================================================================
