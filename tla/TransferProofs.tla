--------------------------- MODULE TransferProofs ----------------------------
(***************************************************************************)
(* The transfers of the transaction decoder: no unit is stranded, the      *)
(* scanner's books balance, the reported amount is what the account lost,  *)
(* and the decoder implements the promise of TransferSpec.                 *)
(***************************************************************************)
EXTENDS AmountProofs, TxDecoderProofs

------------------------------------------------------------------------------
(* Where every unit of a built transaction goes. *)

LEMMA QuotientBounds ==
    ASSUME NEW x \in Int, NEW m \in Nat \ {0}, NEW k \in Int
    PROVE  /\ x >= m * k => x \div m >= k
           /\ x < m * (k + 1) => x \div m <= k
<1>1. x \div m \in Int /\ (x % m) \in 0..(m - 1) /\ x = m * (x \div m) + (x % m)
  BY Division
<1> PICK q \in Int : q = x \div m
  BY <1>1
<1> PICK e \in 0..(m - 1) : x = m * q + e
  BY <1>1
<1>2. ASSUME x >= m * k, q < k PROVE FALSE
  <2>1. m * (q + 1) <= m * k
    BY <1>2
  <2>2. m * (q + 1) = m * q + m
    OBVIOUS
  <2> QED BY <1>2, <2>1, <2>2
<1>3. ASSUME x < m * (k + 1), q > k PROVE FALSE
  <2>1. m * q >= m * (k + 1)
    BY <1>3
  <2> QED BY <1>3, <2>1
<1> QED BY <1>2, <1>3

LEMMA RoundedFee ==
    ASSUME NEW d \in Nat
    PROVE  /\ StringFixed(d) \in Int /\ StringFixed(d) >= d \div Scale
           /\ d % Scale = 0 => StringFixed(d) = d \div Scale
<1> PICK s \in Nat \ {0} : s = Scale
  BY BuildAssumption
<1> PICK m \in Nat \ {0} : m = 2 * s
  OBVIOUS
<1>1. d \div s \in Int /\ (d % s) \in 0..(s - 1) /\ d = s * (d \div s) + (d % s)
  BY Division
<1> PICK q \in Int : q = d \div s
  BY <1>1
<1> PICK e \in 0..(s - 1) : e = d % s /\ d = s * q + e
  BY <1>1
<1> PICK p \in Int : p = s * q
  OBVIOUS
<1>2. m * q = 2 * p /\ m * (q + 1) = 2 * p + m
  OBVIOUS
<1> PICK a \in Int : a = 2 * d + s
  OBVIOUS
<1>3. StringFixed(d) = a \div m
  BY DEF StringFixed
<1>4. a \div m >= q /\ a \div m \in Int
  <2>1. a >= m * q
    BY <1>2
  <2> QED BY <2>1, QuotientBounds
<1>5. ASSUME e = 0 PROVE a \div m <= q
  <2>1. a < m * (q + 1)
    BY <1>2, <1>5
  <2> QED BY <2>1, QuotientBounds
<1> QED BY <1>3, <1>4, <1>5

\* The fee fits a uint64 and is one that may be charged.
LEMMA FeeFits ==
    ASSUME FeesFit, NEW r \in Request, NEW rate \in Rates(r)
    PROVE  /\ UintPart(rate) = rate \div Scale
           /\ rate \div Scale \in Nat
           /\ rate \div Scale \in Charged(r)
<1>1. rate \in Nat /\ Order[r].fee \in Nat
  BY RatesType, OrderAssumption
<1>2. Truncate(rate) = rate \div Scale /\ rate \div Scale \in Nat
  BY <1>1, BuildAssumption DEF Truncate
<1>3. rate \div Scale \in {Order[r].fee \div Scale, StringFixed(Order[r].fee)}
  BY RatesType
<1>4. /\ StringFixed(Order[r].fee) \in Int /\ Order[r].fee \div Scale \in Int
      /\ Order[r].fee \div Scale <= StringFixed(Order[r].fee)
      /\ StringFixed(Order[r].fee) < UintMod
  BY <1>1, RoundedFee, BuildAssumption DEF FeesFit
<1>5. PICK q \in Nat : q = rate \div Scale /\ q < UintMod
  BY <1>2, <1>3, <1>4, BuildAssumption
<1>6. q % UintMod = q
  BY <1>5, BuildAssumption
<1> QED BY <1>2, <1>3, <1>5, <1>6 DEF UintPart, Charged

\* The payer gets back what is left, or nothing is.
LEMMA FeeIsPaid ==
    ASSUME FairOrders, NEW r \in Request, NEW tx \in GoodTx, Origin(r, tx)
    PROVE  /\ (Total(tx.outputs) - Total(ToSet(tx.inputs))) % UintMod = 0
           /\ PaidTo(tx, {NoAddress}) \in Charged(r)
<1>0. PICK rate \in Rates(r) :
         \E outs, changeAddress : Pays(r, rate, tx, outs, changeAddress)
  BY DEF Origin
<1>1. PICK outs, changeAddress : Pays(r, rate, tx, outs, changeAddress)
  BY <1>0
<1> DEFINE fee == UintPart(rate)
           left == Left(rate, tx, outs)
           sent == SumOf(Units(outs), DOMAIN outs)
           T == Total(ToSet(tx.inputs))
<1>2. /\ fee \in Nat /\ left \in Nat /\ T \in Nat /\ sent \in Nat
      /\ Total(tx.outputs) = fee + sent + left
      /\ \A A : PaidTo(tx, A) = (IF NoAddress \in A THEN fee ELSE 0)
                               + SumOf(Units(outs), DOMAIN outs \cap A)
                               + (IF changeAddress \in A THEN left ELSE 0)
  <2>1. PaidOut(rate, tx, outs, changeAddress)
    BY <1>1, PaysPaidOut
  <2>2. Uint \subseteq Nat
    BY BuildAssumption DEF Uint
  <2> QED BY <2>1, <2>2 DEF PaidOut
<1>3. left = (T - sent - fee) % UintMod
  <2>1. DOMAIN Units(outs) = DOMAIN outs
    BY DEF Units
  <2> QED BY <2>1 DEF Left, Change
<1>4. DOMAIN outs \cap {NoAddress} = {}
  BY <1>1, BuildAssumption DEF Pays, PaysFor
<1>5. fee \in Charged(r)
  BY FeeFits DEF FairOrders
<1>6. changeAddress = NoAddress => left = 0
  BY <1>1, SummaryLeavesNothing, BuildAssumption DEF Pays, Own, FairOrders
<1> HIDE DEF fee, left, sent, T
<1>7. PaidTo(tx, {NoAddress}) \in Charged(r)
  <2>1. PaidTo(tx, {NoAddress}) = (IF NoAddress \in {NoAddress} THEN fee ELSE 0)
                                  + SumOf(Units(outs), DOMAIN outs \cap {NoAddress})
                                  + (IF changeAddress \in {NoAddress} THEN left ELSE 0)
    BY <1>2
  <2>2. SumOf(Units(outs), DOMAIN outs \cap {NoAddress}) = 0
    BY <1>4, SumEmpty
  <2>3. (IF changeAddress \in {NoAddress} THEN left ELSE 0) = 0
    BY <1>6
  <2>4. (IF NoAddress \in {NoAddress} THEN fee ELSE 0) = fee
    OBVIOUS
  <2> QED BY <1>2, <1>5, <2>1, <2>2, <2>3, <2>4
<1>8. (fee + sent + left - T) % UintMod = 0
  <2>1. PICK x \in Int : x = T - sent - fee
    BY <1>2
  <2>2. PICK q \in Int : q = x \div UintMod
    BY BuildAssumption
  <2>3. x = UintMod * q + left
    BY <1>3, <2>1, <2>2, Division, BuildAssumption
  <2>4. fee + sent + left - T = UintMod * (-q)
    <3>1. PICK p \in Int : p = UintMod * q /\ -p = UintMod * (-q)
      BY BuildAssumption
    <3>2. x = p + left
      BY <2>3, <3>1
    <3>3. fee \in Nat /\ left \in Nat /\ T \in Nat /\ sent \in Nat
      BY <1>2
    <3>4. fee + sent + left - T = -p
      BY <2>1, <3>2, <3>3
    <3> QED BY <3>1, <3>4
  <2>5. fee + sent + left - T \in Int /\ -q \in Int
    BY <1>2
  <2> QED BY <2>4, <2>5, Multiple, BuildAssumption
<1> QED BY <1>2, <1>7, <1>8 DEF T

LEMMA InvStrandsNothing ==
    ASSUME FairOrders, TypeInv, OriginInv
    PROVE  NothingStranded
<1> SUFFICES ASSUME NEW r \in Request, raw[r].tx # NoTx
             PROVE  LET tx == raw[r].tx
                    IN  /\ (Total(tx.outputs) - Total(ToSet(tx.inputs))) % UintMod = 0
                        /\ Total({o \in tx.outputs : o.address = NoAddress}) \in Charged(r)
  BY DEF NothingStranded
<1>1. raw[r].tx \in GoodTx /\ Origin(r, raw[r].tx)
  BY DEF TypeInv, GoodRaw, OriginInv, RawInv
<1>2. {o \in raw[r].tx.outputs : o.address \in {NoAddress}}
      = {o \in raw[r].tx.outputs : o.address = NoAddress}
  OBVIOUS
<1> QED BY <1>1, <1>2, FeeIsPaid DEF PaidTo

------------------------------------------------------------------------------
(* What the node's coins do when it takes a transaction. *)

\* No coin comes from a transaction still to come.
FreshInv == \A c \in unspent : c.tx <= Len(published)

\* What is unspent at the addresses in A.
HeldAt(A) == Total({c \in unspent : c.address \in A})

LEMMA NewCoinsWorth ==
    ASSUME NEW S, S \subseteq Output, IsFiniteSet(S), NEW n
    PROVE  Total({NewCoin(o, n) : o \in S}) = Total(S)
<1> DEFINE coin == [o \in S |-> NewCoin(o, n)]
           new == {coin[o] : o \in S}
           f == [c \in new |-> c.value]
           g == [o \in S |-> o.value]
<1>1. new = {NewCoin(o, n) : o \in S}
  OBVIOUS
<1>2. /\ \A o \in S : /\ coin[o] \in new /\ coin[o].value = o.value
                      /\ coin[o].kind = o.kind /\ coin[o].address = o.address
      /\ \A o \in S : g[o] = o.value /\ g[o] \in Nat
      /\ \A c \in new : f[c] = c.value
  BY BuildAssumption DEF NewCoin, Output, Uint
<1>3. \A o, p \in S : coin[o] = coin[p] => o = p
  BY <1>2 DEF Output
<1> HIDE DEF coin, f, g
<1>4. IsFiniteSet(new)
  BY ImageFinite
<1>5. \A o \in S : f[coin[o]] = g[o]
  BY <1>2
<1>6. SumOf(f, new) = SumOf(g, S)
  BY <1>2, <1>3, <1>5, SumRenamed
<1>7. \A c \in new : f[c] = c.value /\ c.value \in Int
  BY <1>2
<1> HIDE DEF new
<1>8. Total(new) = SumOf(f, new)
  BY <1>4, <1>7, TotalIsSum
<1>9. Total(S) = SumOf(g, S)
  BY <1>2, TotalIsSum
<1> QED BY <1>1, <1>6, <1>8, <1>9

\* The addresses in A gain what tx pays them and lose what it spends of theirs.
LEMMA TakesMoves ==
    ASSUME TypeInv, FreshInv, NEW r \in Request, Takes(r), NEW A \in SUBSET Address
    PROVE  /\ HeldAt(A)' = HeldAt(A) + PaidTo(raw[r].tx, A)
                           - Total({c \in ToSet(raw[r].tx.inputs) : c.address \in A})
           /\ HeldAt(A) \in Nat /\ PaidTo(raw[r].tx, A) \in Nat
           /\ Total({c \in ToSet(raw[r].tx.inputs) : c.address \in A}) \in Nat
<1> PICK tx \in GoodTx : tx = raw[r].tx
  BY DEF TypeInv, GoodRaw
<1> PICK n \in Nat : n = Len(published) + 1
  BY DEF TypeInv
<1> DEFINE before == {c \in unspent : c.address \in A}
           gone == {c \in ToSet(tx.inputs) : c.address \in A}
           paid == {o \in tx.outputs : o.address \in A}
           came == {NewCoin(o, n) : o \in paid}
           new == {NewCoin(o, n) : o \in Addressed(tx)}
<1>1. unspent' = (unspent \ ToSet(tx.inputs)) \cup new
  BY DEF Takes, NewCoin, Addressed
<1>2. ToSet(tx.inputs) \subseteq unspent
  BY DEF Takes, NodeAccepts
<1>3. {c \in unspent' : c.address \in A} = (before \ gone) \cup came
  BY <1>1, BuildAssumption DEF NewCoin, Addressed
<1>4. gone \subseteq before
  BY <1>2
<1>5. before \cap came = {}
  BY DEF FreshInv, TypeInv, NewCoin
<1>6. IsFiniteSet(before) /\ before \subseteq Coin /\ paid \subseteq Output /\ IsFiniteSet(paid)
  BY FS_Subset DEF TypeInv, GoodTx, Tx
<1>7. IsFiniteSet(came) /\ came \subseteq Coin
  <2>1. came \subseteq new
    BY BuildAssumption DEF Addressed
  <2>2. IsFiniteSet(new) /\ new \subseteq Coin
    BY NewCoinsType
  <2> HIDE DEF came, new
  <2> QED BY <2>1, <2>2, FS_Subset
<1>8. Total(came) = Total(paid)
  BY <1>6, NewCoinsWorth
<1> HIDE DEF came, paid, before, gone
<1>9. IsFiniteSet(before \ gone) /\ IsFiniteSet(gone) /\ before \ gone \subseteq Coin
  BY <1>4, <1>6, FS_Subset
<1>10. \A c \in Coin : c.value \in Int
  BY BuildAssumption DEF Coin, Uint
<1>11. Total((before \ gone) \cup came) = Total(before \ gone) + Total(came)
  <2>1. (before \ gone) \cap came = {} /\ \A c \in (before \ gone) \cup came : c.value \in Int
    BY <1>5, <1>7, <1>9, <1>10
  <2> QED BY <1>7, <1>9, <2>1, TotalUnion
<1>12. Total(before) = Total(before \ gone) + Total(gone)
  <2>1. /\ (before \ gone) \cap gone = {} /\ (before \ gone) \cup gone = before
        /\ \A c \in before : c.value \in Int
    BY <1>4, <1>6, <1>10
  <2> QED BY <1>9, <2>1, TotalUnion
<1>13. Total(before) \in Nat /\ Total(gone) \in Nat /\ Total(paid) \in Nat
       /\ Total(before \ gone) \in Nat
  BY <1>4, <1>6, CoinsWorth, OutputsWorth
<1>14. HeldAt(A)' = Total((before \ gone) \cup came)
  BY <1>3 DEF HeldAt
<1>15. HeldAt(A) = Total(before) /\ PaidTo(tx, A) = Total(paid)
  BY DEF HeldAt, PaidTo, before, paid
<1> QED BY <1>8, <1>11, <1>12, <1>13, <1>14, <1>15 DEF gone

------------------------------------------------------------------------------
(* The books of the published transactions. *)

\* What tx brings the account k by what the scanner extracts of it.
GainOf(k, tx) == Total(ExtractTxOutput(tx, k)) - Total(ExtractTxInput(tx, k))

Gains(k) == [n \in DOMAIN published |-> GainOf(k, published[n].tx)]

\* What account k has is what it had and what every transaction brought it.
HeldInv ==
    \A k \in Account :
       Held(k) = Total({c \in Faucet : OwnerOf[c.address] = k})
                 + SumOf(Gains(k), DOMAIN published)

\* The node took what r built, and it balances.
TakenInv ==
    \A n \in DOMAIN published :
       LET tx == published[n].tx
       IN  /\ Origin(published[n].request, tx)
           /\ Total(tx.outputs) = Total(ToSet(tx.inputs))
           /\ Total(ToSet(tx.inputs)) <= Total(Faucet)

\* The addresses of k.
Of(k) == {a \in Address : OwnerOf[a] = k}

LEMMA PublishedDomain ==
    ASSUME TypeInv
    PROVE  /\ DOMAIN published = 1..Len(published) /\ Len(published) \in Nat
           /\ IsFiniteSet(DOMAIN published)
           /\ \A n \in DOMAIN published : published[n] \in Taken
<1>1. /\ DOMAIN published = 1..Len(published) /\ Len(published) \in Nat
      /\ \A n \in DOMAIN published : published[n] \in Taken
  BY DEF TypeInv
<1> QED BY <1>1, FS_Interval

LEMMA GainType ==
    ASSUME NEW k \in Account, NEW tx \in GoodTx
    PROVE  /\ GainOf(k, tx) \in Int
           /\ GainOf(k, tx) = PaidTo(tx, Of(k))
                              - Total({c \in ToSet(tx.inputs) : c.address \in Of(k)})
           /\ ExtractTxInput(tx, k) = {} /\ ExtractTxOutput(tx, k) = {} => GainOf(k, tx) = 0
<1>1. tx.outputs \subseteq Output /\ IsFiniteSet(tx.outputs) /\ tx.inputs \in Seq(Coin)
  BY DEF GoodTx, Tx
<1>2. ToSet(tx.inputs) \subseteq Coin /\ IsFiniteSet(ToSet(tx.inputs))
  BY <1>1, ToSetType
<1>3. /\ ExtractTxOutput(tx, k) = {o \in tx.outputs : o.address \in Of(k)}
      /\ ExtractTxInput(tx, k) = {c \in ToSet(tx.inputs) : c.address \in Of(k)}
  BY <1>1, <1>2, BuildAssumption DEF ExtractTxOutput, ExtractTxInput, Of, Output, Coin
<1>4. Total(ExtractTxOutput(tx, k)) \in Nat /\ Total(ExtractTxInput(tx, k)) \in Nat
  BY <1>1, <1>2, <1>3, OutputsWorth, CoinsWorth
<1>5. ExtractTxInput(tx, k) = {} /\ ExtractTxOutput(tx, k) = {} => GainOf(k, tx) = 0
  BY TotalEmpty DEF GainOf
<1> QED BY <1>3, <1>4, <1>5 DEF GainOf, PaidTo

LEMMA HeldIsHeldAt ==
    ASSUME TypeInv, NEW k
    PROVE  Held(k) = HeldAt(Of(k))
<1>1. {c \in unspent : OwnerOf[c.address] = k} = {c \in unspent : c.address \in Of(k)}
  BY DEF TypeInv, Coin, Of
<1> QED BY <1>1 DEF Held, HeldAt

BookInv == FreshInv /\ SupplyInv /\ HeldInv /\ TakenInv

LEMMA InitBook == Init => BookInv
<1> SUFFICES ASSUME Init PROVE BookInv
  OBVIOUS
<1>1. published = <<>> /\ unspent = Faucet /\ TypeInv
  BY InitType DEF Init
<1>2. published \in Seq({}) /\ Len(published) = 0 /\ DOMAIN published = {}
  BY <1>1
<1>3. FreshInv
  BY <1>1, <1>2, OrderAssumption DEF FreshInv
<1>4. SupplyInv
  BY InitOrigin
<1>5. HeldInv
  <2> SUFFICES ASSUME NEW k \in Account
               PROVE  Held(k) = Total({c \in Faucet : OwnerOf[c.address] = k})
                                + SumOf(Gains(k), DOMAIN published)
    BY DEF HeldInv
  <2>1. SumOf(Gains(k), DOMAIN published) = 0
    BY <1>2, SumEmpty
  <2>2. Total({c \in Faucet : OwnerOf[c.address] = k}) \in Nat
    BY OrderAssumption, CoinsWorth
  <2> QED BY <1>1, <2>1, <2>2 DEF Held
<1>6. TakenInv
  BY <1>2 DEF TakenInv
<1> QED BY <1>3, <1>4, <1>5, <1>6 DEF BookInv

LEMMA TakesBook ==
    ASSUME TypeInv, OriginInv, BookInv, NEW r \in Request,
           call[r].at = "publish", Takes(r), TypeInv'
    PROVE  BookInv'
<1> PICK tx \in GoodTx : tx = raw[r].tx
  BY DEF TypeInv, GoodRaw
<1> PICK L \in Nat : L = Len(published) /\ DOMAIN published = 1..L
  BY PublishedDomain
<1> DEFINE new == {NewCoin(o, L + 1) : o \in Addressed(tx)}
<1>1. /\ unspent' = (unspent \ ToSet(tx.inputs)) \cup new
      /\ published' = Append(published, [tx |-> tx, request |-> r])
      /\ Total(tx.outputs) = Total(ToSet(tx.inputs))
      /\ ToSet(tx.inputs) \subseteq unspent
  BY DEF Takes, NewCoin, Addressed, NodeAccepts
<1>2. /\ DOMAIN published' = 1..(L + 1) /\ Len(published') = L + 1
      /\ \A n \in 1..L : published'[n] = published[n]
      /\ published'[L + 1] = [tx |-> tx, request |-> r]
  BY <1>1 DEF TypeInv
<1>3. FreshInv'
  <2>1. \A c \in unspent : c.tx \in Nat /\ c.tx <= L
    BY DEF BookInv, FreshInv, TypeInv, Coin
  <2>2. \A c \in new : c.tx = L + 1
    BY DEF NewCoin
  <2> HIDE DEF new
  <2> QED BY <1>1, <1>2, <2>1, <2>2 DEF FreshInv
<1>4. SupplyInv'
  <2>1. {c \in unspent : c.address \in Address} = unspent
    BY DEF TypeInv, Coin
  <2>2. {c \in unspent' : c.address \in Address} = unspent'
    BY DEF TypeInv, Coin
  <2>3. {c \in ToSet(tx.inputs) : c.address \in Address} = ToSet(tx.inputs)
    BY <1>1 DEF TypeInv, Coin
  <2>4. Total(unspent') = Total(unspent) + PaidTo(tx, Address) - Total(ToSet(tx.inputs))
    BY <2>1, <2>2, <2>3, TakesMoves DEF HeldAt, BookInv
  <2>5. PaidTo(tx, Address) \in Nat /\ PaidTo(tx, Address) <= Total(tx.outputs)
        /\ Total(tx.outputs) \in Nat
    BY OutputsWorth DEF PaidTo, GoodTx, Tx
  <2>6. Total(unspent) \in Nat /\ Total(Faucet) \in Nat
    BY CoinsWorth, OrderAssumption DEF TypeInv
  <2> QED BY <1>1, <2>4, <2>5, <2>6 DEF SupplyInv, BookInv
<1>5. HeldInv'
  <2> SUFFICES ASSUME NEW k \in Account
               PROVE  Held(k)' = Total({c \in Faucet : OwnerOf[c.address] = k})
                                 + SumOf(Gains(k)', DOMAIN published')
    BY DEF HeldInv
  <2>1. /\ Held(k) = HeldAt(Of(k)) /\ Held(k)' = HeldAt(Of(k))'
        /\ Of(k) \in SUBSET Address
    <3>1. {c \in unspent' : OwnerOf[c.address] = k} = {c \in unspent' : c.address \in Of(k)}
      BY DEF TypeInv, Coin, Of
    <3>2. Held(k)' = HeldAt(Of(k))'
      BY <3>1 DEF Held, HeldAt
    <3> QED BY <3>2, HeldIsHeldAt DEF Of
  <2>2. Held(k)' = Held(k) + GainOf(k, tx) /\ Held(k) \in Nat /\ GainOf(k, tx) \in Int
    BY <2>1, TakesMoves, GainType DEF BookInv
  <2> PICK g : g = Gains(k)
    OBVIOUS
  <2> PICK h : h = Gains(k)'
    OBVIOUS
  <2>3. \A n \in 1..L : h[n] = g[n] /\ g[n] \in Int
    <3> TAKE n \in 1..L
    <3>1. published[n].tx \in GoodTx /\ n \in 1..(L + 1)
      BY PublishedDomain DEF Taken
    <3>2. GainOf(k, published[n].tx) \in Int
      BY <3>1, GainType
    <3>3. h[n] = GainOf(k, published'[n].tx) /\ g[n] = GainOf(k, published[n].tx)
      BY <1>2, <3>1 DEF Gains
    <3> QED BY <1>2, <3>2, <3>3
  <2>4. h[L + 1] = GainOf(k, tx)
    BY <1>2 DEF Gains
  <2> DEFINE S == 1..L
             x == L + 1
  <2>5. x \notin S /\ 1..(L + 1) = S \cup {x}
    OBVIOUS
  <2>6. IsFiniteSet(S)
    BY FS_Interval
  <2>7. SumOf(h, S \cup {x}) = h[x] + SumOf(h, S)
    <3>1. \A n \in S \cup {x} : h[n] \in Int
      BY <2>2, <2>3, <2>4
    <3> HIDE DEF S, x
    <3> QED BY <2>5, <2>6, <3>1, SumInsert
  <2>8. SumOf(h, S) = SumOf(g, S) /\ SumOf(g, S) \in Int
    <3>1. \A n \in S : h[n] = g[n] /\ g[n] \in Int
      BY <2>3
    <3> HIDE DEF S
    <3> QED BY <2>6, <3>1, SumAgrees, SumType
  <2>9. Held(k) = Total({c \in Faucet : OwnerOf[c.address] = k}) + SumOf(g, 1..L)
    BY DEF BookInv, HeldInv
  <2>10. Total({c \in Faucet : OwnerOf[c.address] = k}) \in Nat
    BY OrderAssumption, CoinsWorth
  <2>11. SumOf(Gains(k)', DOMAIN published') = SumOf(h, S \cup {x})
    BY <1>2, <2>5
  <2> HIDE DEF S
  <2>12. SumOf(h, S \cup {x}) = GainOf(k, tx) + SumOf(g, S)
    BY <2>4, <2>7, <2>8
  <2>13. Held(k) = Total({c \in Faucet : OwnerOf[c.address] = k}) + SumOf(g, S)
    BY <2>9 DEF S
  <2> QED BY <2>2, <2>8, <2>10, <2>11, <2>12, <2>13
<1>6. TakenInv'
  <2>1. Origin(r, tx)
    BY DEF OriginInv, CallInv, RawInv
  <2>2. \A n \in 1..L : /\ Origin(published[n].request, published[n].tx)
                        /\ Total(published[n].tx.outputs) = Total(ToSet(published[n].tx.inputs))
                        /\ Total(ToSet(published[n].tx.inputs)) <= Total(Faucet)
    BY DEF BookInv, TakenInv
  <2>5. Total(ToSet(tx.inputs)) <= Total(Faucet)
    <3>1. ToSet(tx.inputs) \in SUBSET unspent
      BY <1>1
    <3>2. /\ Total(ToSet(tx.inputs)) \in Nat /\ Total(ToSet(tx.inputs)) <= Total(unspent)
          /\ Total(unspent) \in Nat
      BY <3>1, CoinsWorth DEF TypeInv
    <3>3. Total(Faucet) \in Nat
      BY CoinsWorth, OrderAssumption
    <3> QED BY <3>2, <3>3 DEF BookInv, SupplyInv
  <2>3. \A n \in 1..(L + 1) : n \in 1..L \/ n = L + 1
    OBVIOUS
  <2>4. ASSUME NEW n \in 1..(L + 1)
        PROVE  /\ Origin(published'[n].request, published'[n].tx)
               /\ Total(published'[n].tx.outputs) = Total(ToSet(published'[n].tx.inputs))
               /\ Total(ToSet(published'[n].tx.inputs)) <= Total(Faucet)
    <3>1. CASE n \in 1..L
      BY <1>2, <2>2, <3>1
    <3>2. CASE n = L + 1
      BY <1>1, <1>2, <2>1, <2>5, <3>2
    <3> QED BY <2>3, <3>1, <3>2
  <2> QED BY <1>2, <2>4 DEF TakenInv
<1> QED BY <1>3, <1>4, <1>5, <1>6 DEF BookInv

\* All that a step may not break.
DecoderInv == TypeInv /\ OriginInv /\ BookInv

LEMMA NextDecoder == DecoderInv /\ [Next]_vars => DecoderInv'
<1> SUFFICES ASSUME DecoderInv, [Next]_vars PROVE DecoderInv'
  OBVIOUS
<1>1. TypeInv'
  BY NextType DEF DecoderInv
<1>2. ASSUME NEW r \in Request, Step(r) PROVE OriginInv' /\ BookInv'
  <2>1. OriginInv'
    BY <1>2, StepOrigin DEF DecoderInv, BookInv
  <2>2. CASE call[r].at = "publish" /\ Takes(r)
    BY <1>1, <2>1, <2>2, TakesBook DEF DecoderInv
  <2>3. CASE UNCHANGED <<unspent, published>>
    BY <2>1, <2>3 DEF DecoderInv, BookInv, FreshInv, SupplyInv, HeldInv, TakenInv, Held, Gains
  <2> QED BY <1>2, <2>2, <2>3, TakenOrSame
<1>3. CASE UNCHANGED vars
  <2>1. UNCHANGED <<unspent, published, raw, call, spent>>
    BY <1>3 DEF vars
  <2>2. OriginInv'
    BY <2>1 DEF DecoderInv, OriginInv
  <2>3. BookInv'
    BY <2>1 DEF DecoderInv, BookInv, FreshInv, SupplyInv, HeldInv, TakenInv, Held, Gains
  <2> QED BY <1>1, <2>2, <2>3 DEF DecoderInv
<1> QED BY <1>1, <1>2, <1>3 DEF Next, DecoderInv

LEMMA InitDecoder == Init => DecoderInv
  BY InitType, InitOrigin, InitBook DEF DecoderInv

\* Payments of any digits, summaries of whole units, fees that fit a uint64 and
\* coins that fit an int64: whatever clients do and whatever fails, every
\* transaction built pays out what it spends, and what goes to no address is
\* the fee asked for, truncated or rounded to a unit, and no more.
THEOREM NoUnitStranded ==
    ASSUME FairOrders
    PROVE  Spec => []NothingStranded
<1>1. DecoderInv => NothingStranded
  BY InvStrandsNothing DEF DecoderInv
<1> QED BY <1>1, InitDecoder, NextDecoder, PTL DEF Spec

\* Amounts that add up to less than an int64 holds are read as they are.
LEMMA AmountsAreTotals ==
    ASSUME NEW S, IsFiniteSet(S), \A o \in S : o.value \in Nat, 2 * Total(S) < UintMod
    PROVE  \A T \in SUBSET S : Amounts(T) = Total(T)
<1>1. ASSUME NEW T \in SUBSET S PROVE Amounts(T) = Total(T)
  <2>1. IsFiniteSet(T) /\ \A o \in T : o.value \in Nat
    BY FS_Subset
  <2>2. ASSUME NEW o \in T PROVE 2 * o.value < UintMod
    <3>1. o.value <= Total(S) /\ Total(S) \in Nat /\ o.value \in Nat
      BY TotalType
    <3> QED BY <3>1, BuildAssumption
  <2> QED BY <2>1, <2>2, AmountsType DEF Narrow
<1> QED BY <1>1

LEMMA InvBalances ==
    ASSUME FairOrders, DecoderInv
    PROVE  BooksBalance
<1> DEFINE extract == [n \in DOMAIN published |-> ExtractTransaction(published[n].tx)]
           Part(k) == {n \in DOMAIN published : k \in DOMAIN extract[n]}
           Gain(k, n) == Amounts(extract[n][k].outputs) - Amounts(extract[n][k].inputs)
<1>1. SUFFICES ASSUME NEW k \in Account
               PROVE  /\ Held(k) = Total({c \in Faucet : OwnerOf[c.address] = k})
                                   + Sum([n \in Part(k) |-> Gain(k, n)])
                      /\ \A n \in Part(k) :
                            extract[n][k].fees \in Charged(published[n].request)
  BY DEF BooksBalance
<1>2. TypeInv /\ OriginInv /\ BookInv
  BY DEF DecoderInv
<1>3. /\ IsFiniteSet(DOMAIN published)
      /\ \A n \in DOMAIN published : published[n] \in Taken /\ published[n].tx \in GoodTx
  BY <1>2, PublishedDomain DEF Taken
<1>4. \A n \in DOMAIN published :
         k \in DOMAIN extract[n] <=> \/ ExtractTxInput(published[n].tx, k) # {}
                                     \/ ExtractTxOutput(published[n].tx, k) # {}
  BY DEF ExtractTransaction
<1>5. \A n \in Part(k) :
         /\ extract[n][k].outputs = ExtractTxOutput(published[n].tx, k)
         /\ extract[n][k].inputs = ExtractTxInput(published[n].tx, k)
         /\ extract[n][k].fees = Amounts(ToSet(published[n].tx.inputs))
               - Amounts({o \in published[n].tx.outputs : o.address # NoAddress})
  BY DEF ExtractTransaction
<1> HIDE DEF extract
<1>9. ASSUME NEW n \in DOMAIN published
      PROVE  /\ \A T \in SUBSET published[n].tx.outputs : Amounts(T) = Total(T)
             /\ \A T \in SUBSET ToSet(published[n].tx.inputs) : Amounts(T) = Total(T)
  <2> PICK tx \in GoodTx : tx = published[n].tx
    BY <1>3
  <2>1. Total(tx.outputs) = Total(ToSet(tx.inputs)) /\ Total(ToSet(tx.inputs)) <= Total(Faucet)
    BY <1>2 DEF BookInv, TakenInv
  <2>2. /\ IsFiniteSet(tx.outputs) /\ tx.outputs \subseteq Output
        /\ \A o \in tx.outputs : o.value \in Nat
    BY BuildAssumption DEF GoodTx, Tx, Output, Uint
  <2>3. IsFiniteSet(ToSet(tx.inputs)) /\ ToSet(tx.inputs) \subseteq Coin
    <3>1. tx.inputs \in Seq(Coin)
      BY DEF GoodTx, Tx
    <3> QED BY <3>1, ToSetType
  <2>4. \A c \in ToSet(tx.inputs) : c.value \in Nat
    BY <2>3, BuildAssumption DEF Coin, Uint
  <2>5. Total(ToSet(tx.inputs)) \in Nat /\ Total(Faucet) \in Nat
    BY <2>3, CoinsWorth, OrderAssumption
  <2>6. 2 * Total(ToSet(tx.inputs)) < UintMod /\ 2 * Total(tx.outputs) < UintMod
    BY <2>1, <2>5, BuildAssumption DEF FairOrders, SmallSupply
  <2> QED BY <2>2, <2>3, <2>4, <2>6, AmountsAreTotals
<1>6. Sum([n \in Part(k) |-> Gain(k, n)]) = SumOf(Gains(k), DOMAIN published)
  <2> PICK g : g = Gains(k)
    OBVIOUS
  <2> PICK h : h = [n \in Part(k) |-> Gain(k, n)]
    OBVIOUS
  <2> DEFINE P == Part(k)
             D == DOMAIN published
  <2>1. \A n \in D : g[n] = GainOf(k, published[n].tx) /\ g[n] \in Int
    BY <1>3, GainType DEF Gains
  <2>2. \A n \in P : h[n] = g[n] /\ g[n] \in Int
    <3> TAKE n \in P
    <3>1. /\ h[n] = Amounts(ExtractTxOutput(published[n].tx, k))
                    - Amounts(ExtractTxInput(published[n].tx, k))
          /\ n \in D
      BY <1>5
    <3>2. /\ ExtractTxOutput(published[n].tx, k) \in SUBSET published[n].tx.outputs
          /\ ExtractTxInput(published[n].tx, k) \in SUBSET ToSet(published[n].tx.inputs)
      BY DEF ExtractTxOutput, ExtractTxInput
    <3> QED BY <1>9, <2>1, <3>1, <3>2 DEF GainOf
  <2>3. \A n \in D \ P : g[n] = 0
    BY <1>3, <1>4, <2>1, GainType
  <2>4. P \in SUBSET D /\ IsFiniteSet(P) /\ IsFiniteSet(D \ P)
    BY <1>3, FS_Subset
  <2>5. Sum(h) = SumOf(h, P)
    BY DEF Sum, SumOf
  <2> HIDE DEF P, D
  <2>6. SumOf(h, P) = SumOf(g, P)
    <3>1. \A f : (\A n \in P : f[n] = g[n] /\ g[n] \in Int) => SumOf(f, P) = SumOf(g, P)
      BY <2>4, SumAgrees
    <3> QED BY <2>2, <3>1
  <2>7. SumOf(g, D) = SumOf(g, P) + SumOf(g, D \ P)
    BY <1>3, <2>1, <2>4, SumSplit DEF D
  <2>8. SumOf(g, D \ P) = 0
    BY <2>3, <2>4, SumZero
  <2>9. SumOf(g, P) \in Int
    BY <2>1, <2>4, SumType
  <2> QED BY <2>5, <2>6, <2>7, <2>8, <2>9 DEF D
<1>7. ASSUME NEW n \in Part(k)
      PROVE  extract[n][k].fees \in Charged(published[n].request)
  <2> PICK tx \in GoodTx : tx = published[n].tx
    BY <1>3
  <2> PICK r \in Request : r = published[n].request
    BY <1>3 DEF Taken
  <2> DEFINE named == {o \in tx.outputs : o.address # NoAddress}
             fee == {o \in tx.outputs : o.address \in {NoAddress}}
  <2>1. Origin(r, tx) /\ Total(tx.outputs) = Total(ToSet(tx.inputs))
    BY <1>2 DEF BookInv, TakenInv
  <2>2. Total(fee) \in Charged(r)
    BY <2>1, FeeIsPaid DEF PaidTo
  <2>9. /\ Amounts(ToSet(tx.inputs)) = Total(ToSet(tx.inputs))
        /\ Amounts(named) = Total(named)
    <3>1. n \in DOMAIN published /\ named \in SUBSET tx.outputs
      OBVIOUS
    <3> QED BY <1>9, <3>1
  <2>3. tx.outputs = fee \cup named /\ fee \cap named = {}
    OBVIOUS
  <2>4. /\ IsFiniteSet(fee) /\ IsFiniteSet(named)
        /\ \A o \in tx.outputs : o.value \in Int
    BY FS_Subset, BuildAssumption DEF GoodTx, Tx, Output, Uint
  <2>5. Total(named) \in Nat /\ Total(fee) \in Nat
    BY OutputsWorth DEF GoodTx, Tx
  <2> HIDE DEF fee, named
  <2>6. Total(tx.outputs) = Total(fee) + Total(named)
    BY <2>3, <2>4, TotalUnion
  <2>7. extract[n][k].fees = Total(ToSet(tx.inputs)) - Total(named)
    BY <1>5, <2>9 DEF named
  <2>8. Total(ToSet(tx.inputs)) - Total(named) = Total(fee)
    BY <2>1, <2>5, <2>6
  <2> QED BY <2>2, <2>7, <2>8
<1>8. Held(k) = Total({c \in Faucet : OwnerOf[c.address] = k})
                + SumOf(Gains(k), DOMAIN published)
  BY <1>2 DEF BookInv, HeldInv
<1> QED BY <1>6, <1>7, <1>8

\* Under the same hypotheses the scanner's view of what the node took is a
\* complete account: it adds up to what each account has, and shows the fees.
THEOREM BooksAlwaysBalance ==
    ASSUME FairOrders
    PROVE  Spec => []BooksBalance
<1>1. DecoderInv => BooksBalance
  BY InvBalances
<1> QED BY <1>1, InitDecoder, NextDecoder, PTL DEF Spec

------------------------------------------------------------------------------
(* What the node takes is exact: nothing wrapped around. *)

\* The units of outs are its amounts, rounded down.
Exact(outs) ==
    \A a \in DOMAIN outs : outs[a] >= 0 /\ Units(outs)[a] = outs[a] \div Scale

LEMMA QuotientOfPart ==
    ASSUME NEW d \in Nat, NEW m \in Nat \ {0}, NEW t \in Nat, d <= t * m
    PROVE  d \div m \in Nat /\ d \div m <= t
<1>1. d >= m * 0 /\ d < m * (t + 1)
  <2>1. m * 0 = 0 /\ m * (t + 1) = t * m + m /\ t * m \in Nat
    OBVIOUS
  <2> QED BY <2>1
<1>2. d \div m \in Int
  BY Division
<1>3. d \div m >= 0
  BY <1>1, QuotientBounds
<1>4. d \div m <= t
  BY <1>1, QuotientBounds
<1> QED BY <1>2, <1>3, <1>4

LEMMA PaymentExact ==
    ASSUME SmallSupply, NEW r \in Request, IsPayment(r), NEW rate \in Rates(r),
           NEW tx \in GoodTx, NEW outs, NEW changeAddress,
           Pays(r, rate, tx, outs, changeAddress), Total(ToSet(tx.inputs)) < UintMod
    PROVE  Exact(outs)
<1> DEFINE D == DOMAIN outs
           T == Total(ToSet(tx.inputs))
<1>1. /\ IsFiniteSet(D) /\ \A a \in D : outs[a] \in Nat
      /\ SumOf(outs, D) + rate = T * Scale
      /\ T \in Nat /\ rate \in Nat
  <2>1. T \in Nat
    BY PaysPaidOut DEF PaidOut
  <2>2. SumOf(outs, D) + rate = T * Scale
    BY PaysWhole
  <2> HIDE DEF T
  <2> QED BY <2>1, <2>2, RatesType DEF Pays, PaysFor
<1>2. ASSUME NEW a \in D PROVE outs[a] >= 0 /\ Units(outs)[a] = outs[a] \div Scale
  <2> PICK d \in Nat : d = outs[a]
    BY <1>1
  <2>1. d <= SumOf(outs, D) /\ SumOf(outs, D) \in Nat
    BY <1>1, SumOfTerm, SumNatural
  <2>2. d <= T * Scale
    BY <1>1, <2>1, BuildAssumption
  <2>3. d \div Scale \in Nat /\ d \div Scale <= T
    <3>1. T \in Nat /\ Scale \in Nat \ {0}
      BY <1>1, BuildAssumption
    <3> HIDE DEF D, T
    <3> QED BY <2>2, <3>1, QuotientOfPart
  <2> PICK q \in Nat : q = d \div Scale /\ q <= T
    BY <2>3
  <2> PICK M \in Nat : M = UintMod /\ T < M
    BY BuildAssumption
  <2>4. q % UintMod = q
    BY <1>1
  <2>5. Truncate(d) = q
    BY DEF Truncate
  <2>6. Units(outs)[a] = q
    BY <2>4, <2>5 DEF Units, UintPart
  <2> QED BY <1>1, <2>6
<1> QED BY <1>2 DEF Exact

\* A summary that names more than there is wraps around and never balances.
LEMMA SummaryExact ==
    ASSUME FairOrders, NEW r \in Request, ~IsPayment(r), NEW rate \in Rates(r),
           NEW tx \in GoodTx, NEW outs, NEW changeAddress,
           Pays(r, rate, tx, outs, changeAddress),
           Total(tx.outputs) = Total(ToSet(tx.inputs))
    PROVE  Exact(outs)
<1> DEFINE D == DOMAIN outs
           T == Total(ToSet(tx.inputs))
           S == Order[r].summaryAddress
           rest == D \ {S}
           fee == rate \div Scale
<1>1. /\ IsFiniteSet(D) /\ \A a \in D : outs[a] \in Int
      /\ SumOf(outs, D) + rate = T * Scale
      /\ \A a \in rest : outs[a] = Order[r].retained
  BY PaysWhole DEF Pays, PaysFor, FairOrders
<1>2. /\ T \in Nat /\ \A a \in D : Units(outs)[a] \in Nat
      /\ T = fee + SumOf(Units(outs), D) /\ fee \in Nat
  <2>1. /\ T \in Nat /\ SumOf(Units(outs), D) \in Nat
        /\ \A a \in D : Units(outs)[a] \in Uint
        /\ T = UintPart(rate) + SumOf(Units(outs), D) + Left(rate, tx, outs)
    BY PaysPaidOut DEF PaidOut
  <2>2. Left(rate, tx, outs) = 0
    BY SummaryLeavesNothing DEF FairOrders
  <2>3. UintPart(rate) = fee /\ fee \in Nat
    BY FeeFits DEF FairOrders
  <2>4. Uint \subseteq Nat
    BY BuildAssumption DEF Uint
  <2>5. \A a \in D : Units(outs)[a] \in Nat
    BY <2>1, <2>4
  <2>6. T = fee + SumOf(Units(outs), D) + 0
    BY <2>1, <2>2, <2>3
  <2> HIDE DEF fee, T
  <2> QED BY <2>1, <2>3, <2>5, <2>6
<1>3. \A a \in D : outs[a] % Scale = 0
  BY SummaryLeavesNothing DEF FairOrders
<1>4. rate = Scale * fee
  <2>1. rate \in Int /\ rate % Scale = 0
    BY RatesType, OrderAssumption DEF FairOrders, WholeSummaries
  <2> QED BY <2>1, Multiple, BuildAssumption
<1>5. ASSUME NEW a \in rest PROVE outs[a] = Scale * Units(outs)[a]
  <2>1. outs[a] \in Nat /\ outs[a] < Scale * UintMod /\ outs[a] % Scale = 0
    BY <1>1, <1>3, OrderAssumption DEF Pays, FairOrders
  <2> PICK q \in Int : outs[a] = Scale * q /\ q = Truncate(outs[a])
    BY <2>1, TruncateWhole
  <2>2. q >= 0 /\ q < UintMod
    BY <2>1, BuildAssumption
  <2>3. q % UintMod = q
    BY <2>2, BuildAssumption
  <2> QED BY <2>3 DEF Units, UintPart
<1> HIDE DEF fee, T
<1>6. ASSUME S \in D PROVE outs[S] = Scale * Units(outs)[S]
  <2>1. IsFiniteSet(rest)
    BY <1>1, FS_Subset
  <2>2. SumOf(outs, rest) = SumOf(outs, D) - outs[S]
    BY <1>1, <1>6, SumRemove
  <2>3. SumOf(Units(outs), rest) = SumOf(Units(outs), D) - Units(outs)[S]
    <3>1. \A a \in D : Units(outs)[a] \in Int
      BY <1>2
    <3> QED BY <1>1, <1>6, <3>1, SumRemove
  <2>4. SumOf(outs, rest) = Scale * SumOf(Units(outs), rest)
    BY <1>2, <1>5, <2>1, SumScaled, BuildAssumption
  <2>5. /\ SumOf(outs, D) \in Int /\ SumOf(Units(outs), D) \in Int
        /\ SumOf(Units(outs), rest) \in Int /\ SumOf(outs, rest) \in Int
    BY <1>1, <1>2, <2>1, SumType
  <2> PICK u \in Int : u = Units(outs)[S]
    BY <1>2, <1>6
  <2> PICK w \in Int : w = SumOf(Units(outs), rest)
    BY <2>5
  <2>6. T = fee + w + u
    BY <1>2, <2>3, <2>5
  <2>7. outs[S] = T * Scale - Scale * fee - Scale * w
    <3>1. outs[S] \in Int /\ Scale * w \in Int /\ T * Scale \in Int /\ Scale * fee \in Int
      BY <1>1, <1>2, <1>6, BuildAssumption
    <3> QED BY <1>1, <1>4, <2>2, <2>4, <2>5, <3>1
  <2>8. (fee + w + u) * Scale - Scale * fee - Scale * w = Scale * u
    BY <1>2, BuildAssumption
  <2> QED BY <2>6, <2>7, <2>8
<1>7. ASSUME NEW a \in D PROVE outs[a] >= 0 /\ Units(outs)[a] = outs[a] \div Scale
  <2> PICK u \in Nat : u = Units(outs)[a]
    BY <1>2
  <2>1. outs[a] = Scale * u
    BY <1>5, <1>6
  <2>2. (Scale * u) \div Scale = u /\ Scale * u >= 0
    BY BuildAssumption
  <2> QED BY <2>1, <2>2
<1> QED BY <1>7 DEF Exact, D

LEMMA TakenExact ==
    ASSUME FairOrders, NEW r \in Request, NEW rate \in Rates(r), NEW tx \in GoodTx,
           NEW outs, NEW changeAddress, Pays(r, rate, tx, outs, changeAddress),
           Total(tx.outputs) = Total(ToSet(tx.inputs)), Total(ToSet(tx.inputs)) < UintMod
    PROVE  Exact(outs)
  BY PaymentExact, SummaryExact DEF FairOrders

------------------------------------------------------------------------------
(* The amount SubmitRawTransaction reports. *)

LEMMA RoundedLoss ==
    ASSUME NEW x \in Int, NEW k \in Int
    PROVE  /\ x >= Scale * k => StringFixed(-x) <= -k
           /\ x = Scale * k => StringFixed(-x) = -k
<1> PICK s \in Nat \ {0} : s = Scale
  BY BuildAssumption
<1> PICK m \in Nat \ {0} : m = 2 * s
  OBVIOUS
<1> PICK p \in Int : p = s * k
  OBVIOUS
<1>1. /\ m * k = 2 * p /\ m * (-k) = -(2 * p)
      /\ m * (k + 1) = 2 * p + m /\ m * (-k + 1) = -(2 * p) + m
  OBVIOUS
<1> PICK a \in Int : a = s + 2 * x
  OBVIOUS
<1> PICK b \in Int : b = s - 2 * x
  OBVIOUS
<1> PICK y \in Int : y = a \div m
  OBVIOUS
<1> PICK z \in Int : z = b \div m
  OBVIOUS
<1>2. IF x > 0 THEN StringFixed(-x) = -y ELSE StringFixed(-x) = z
  <2>1. -x \in Int /\ 2 * (-x) + s = b /\ s - 2 * (-x) = a
    OBVIOUS
  <2> QED BY <2>1 DEF StringFixed
<1>3. ASSUME x >= p PROVE y >= k /\ z <= -k
  <2>1. a >= m * k /\ b < m * (-k + 1) /\ -k \in Int
    BY <1>1, <1>3
  <2> QED BY <2>1, QuotientBounds
<1>4. ASSUME x = p PROVE y <= k /\ z >= -k
  <2>1. a < m * (k + 1) /\ b >= m * (-k) /\ -k \in Int
    BY <1>1, <1>4
  <2> QED BY <2>1, QuotientBounds
<1>5. ASSUME x >= p PROVE StringFixed(-x) <= -k
  BY <1>2, <1>3, <1>5
<1>6. ASSUME x = p PROVE StringFixed(-x) = -k
  BY <1>2, <1>3, <1>4, <1>6
<1> QED BY <1>5, <1>6

LEMMA RoundedDown ==
    ASSUME NEW d \in Nat, NEW m \in Nat \ {0}
    PROVE  /\ d \div m \in Int /\ m * (d \div m) \in Int
           /\ m * (d \div m) <= d
           /\ d % m = 0 => d = m * (d \div m)
<1>1. d \div m \in Int /\ (d % m) \in 0..(m - 1) /\ d = m * (d \div m) + (d % m)
  BY Division
<1> PICK q \in Int : q = d \div m
  BY <1>1
<1> PICK p \in Int : p = m * q
  OBVIOUS
<1> PICK e \in Nat : e = d % m
  BY <1>1
<1>2. d = p + e
  BY <1>1
<1> QED BY <1>2

\* What the account of r gains by tx: less than nothing.
OwnGain(r, tx) == PaidTo(tx, Own(r)) - Total(ToSet(tx.inputs))

\* The units of outs that leave the account.
Leaves(r, outs) == SumOf(Units(outs), DOMAIN outs \ Own(r))

LEMMA GainIsLoss ==
    ASSUME FairOrders, NEW r \in Request, NEW rate \in Rates(r), NEW tx \in GoodTx,
           NEW outs, NEW changeAddress, Pays(r, rate, tx, outs, changeAddress),
           Total(tx.outputs) = Total(ToSet(tx.inputs))
    PROVE  /\ OwnGain(r, tx) = -(Leaves(r, outs) + rate \div Scale)
           /\ Leaves(r, outs) \in Nat /\ rate \div Scale \in Nat
<1> DEFINE D == DOMAIN outs
           left == Left(rate, tx, outs)
           T == Total(ToSet(tx.inputs))
           fee == rate \div Scale
           stays == SumOf(Units(outs), D \cap Own(r))
           sent == SumOf(Units(outs), D)
           leaves == Leaves(r, outs)
<1>1. /\ T \in Nat /\ left \in Nat /\ \A a \in D : Units(outs)[a] \in Nat
      /\ fee \in Nat /\ T = fee + sent + left
      /\ PaidTo(tx, Own(r)) = stays + (IF changeAddress \in Own(r) THEN left ELSE 0)
  <2>1. PaidOut(rate, tx, outs, changeAddress)
    BY PaysPaidOut
  <2>2. Uint \subseteq Nat
    BY BuildAssumption DEF Uint
  <2>3. UintPart(rate) = fee /\ fee \in Nat
    BY FeeFits DEF FairOrders
  <2>4. T \in Nat /\ left \in Nat /\ \A a \in D : Units(outs)[a] \in Nat
    BY <2>1, <2>2 DEF PaidOut
  <2>5. T = fee + sent + left
    BY <2>1, <2>3 DEF PaidOut
  <2>6. PaidTo(tx, Own(r)) = (IF NoAddress \in Own(r) THEN UintPart(rate) ELSE 0)
                             + stays + (IF changeAddress \in Own(r) THEN left ELSE 0)
    BY <2>1 DEF PaidOut
  <2>7. NoAddress \notin Own(r)
    BY BuildAssumption DEF Own
  <2>8. IsFiniteSet(D \cap Own(r))
    BY FS_Subset DEF Pays, PaysFor
  <2>9. stays \in Nat
    BY <2>4, <2>8, SumNatural
  <2> HIDE DEF T, left, fee, D, stays, sent
  <2>10. PaidTo(tx, Own(r)) = stays + (IF changeAddress \in Own(r) THEN left ELSE 0)
    BY <2>4, <2>6, <2>7, <2>9
  <2> QED BY <2>3, <2>4, <2>5, <2>10
<1>2. /\ sent = stays + leaves /\ stays \in Nat /\ leaves \in Nat
  <2> DEFINE S == D \cap Own(r)
             R == D \ Own(r)
  <2>1. S \in SUBSET D /\ R \in SUBSET D /\ D \ S = R
    OBVIOUS
  <2>2. IsFiniteSet(D)
    BY DEF Pays, PaysFor
  <2>3. \A a \in D : Units(outs)[a] \in Int
    BY <1>1
  <2>4. IsFiniteSet(S) /\ IsFiniteSet(R)
    BY <2>1, <2>2, FS_Subset
  <2>5. leaves = SumOf(Units(outs), R)
    BY DEF Leaves
  <2>6. SumOf(Units(outs), D) = SumOf(Units(outs), S) + SumOf(Units(outs), D \ S)
    BY <2>1, <2>2, <2>3, SumSplit
  <2>7. SumOf(Units(outs), S) \in Nat /\ SumOf(Units(outs), R) \in Nat
    BY <1>1, <2>1, <2>4, SumNatural
  <2> QED BY <2>1, <2>5, <2>6, <2>7
<1>3. changeAddress \in Own(r) \/ left = 0
  <2>1. CASE IsPayment(r)
    BY <2>1 DEF Pays
  <2>2. CASE ~IsPayment(r)
    BY <2>2, SummaryLeavesNothing DEF FairOrders
  <2> QED BY <2>1, <2>2
<1> HIDE DEF left, T, fee, stays, sent, leaves
<1>4. PaidTo(tx, Own(r)) = stays + left
  BY <1>1, <1>2, <1>3
<1>5. PaidTo(tx, Own(r)) - T = -(leaves + fee)
  BY <1>1, <1>2, <1>4
<1> QED BY <1>1, <1>2, <1>5 DEF OwnGain, T, fee, leaves

LEMMA AmountIsGain ==
    ASSUME FairOrders, NEW r \in Request, NEW tx \in GoodTx, NEW amount, NEW sure,
           Priced(r, tx, amount, sure), Total(tx.outputs) = Total(ToSet(tx.inputs)),
           Total(ToSet(tx.inputs)) < UintMod
    PROVE  /\ amount <= OwnGain(r, tx)
           /\ Whole(r) /\ sure => amount = OwnGain(r, tx)
<1>0. PICK rate \in Rates(r) :
         \E outs, changeAddress : \E unknown \in SUBSET DOMAIN outs :
            /\ Pays(r, rate, tx, outs, changeAddress)
            /\ amount = TxAmount(Order[r].account, outs, unknown, rate)
            /\ sure => unknown = {}
  BY DEF Priced
<1>1. PICK outs, changeAddress : \E unknown \in SUBSET DOMAIN outs :
         /\ Pays(r, rate, tx, outs, changeAddress)
         /\ amount = TxAmount(Order[r].account, outs, unknown, rate)
         /\ sure => unknown = {}
  BY <1>0
<1>2. PICK unknown \in SUBSET DOMAIN outs :
         /\ amount = TxAmount(Order[r].account, outs, unknown, rate)
         /\ sure => unknown = {}
  BY <1>1
<1>3. Pays(r, rate, tx, outs, changeAddress)
  BY <1>1
<1> DEFINE D == DOMAIN outs
           away == D \ Own(r)
           leaving == {a \in D : OwnerOf[a] # Order[r].account \/ a \in unknown}
           fee == rate \div Scale
           leaves == Leaves(r, outs)
<1>4. /\ OwnGain(r, tx) = -(leaves + fee) /\ leaves \in Nat /\ fee \in Nat
  BY <1>3, GainIsLoss
<1>5. /\ IsFiniteSet(D) /\ D \subseteq Address
      /\ \A a \in D : outs[a] \in Nat /\ Units(outs)[a] = outs[a] \div Scale
  <2>1. Exact(outs)
    BY <1>3, TakenExact
  <2>2. IsFiniteSet(D) /\ D \subseteq Address /\ \A a \in D : outs[a] \in Int
    BY <1>3 DEF Pays, PaysFor
  <2> QED BY <2>1, <2>2 DEF Exact
<1>6. /\ away \in SUBSET leaving /\ leaving \in SUBSET D
      /\ sure => leaving = away
  BY <1>2, <1>5 DEF Own
<1>7. IsFiniteSet(leaving) /\ IsFiniteSet(away)
  BY <1>5, <1>6, FS_Subset
<1>8. SumOf(outs, leaving) \in Nat /\ SumOf(outs, leaving) >= SumOf(outs, away)
      /\ SumOf(outs, away) \in Nat
  <2>1. \A a \in leaving : outs[a] \in Nat
    BY <1>5
  <2>2. \A a \in away : outs[a] \in Nat
    BY <1>5
  <2> HIDE DEF leaving, away
  <2> QED BY <1>6, <1>7, <2>1, <2>2, SumNatural, SumOfPart
<1> DEFINE floor == [a \in D |-> Scale * Units(outs)[a]]
<1>9. \A a \in D : /\ Units(outs)[a] \in Int /\ floor[a] = Scale * Units(outs)[a]
                   /\ floor[a] \in Int /\ outs[a] \in Int /\ floor[a] <= outs[a]
                   /\ outs[a] % Scale = 0 => outs[a] = floor[a]
  <2> TAKE a \in D
  <2>1. outs[a] \in Nat /\ Units(outs)[a] = outs[a] \div Scale
    BY <1>5
  <2>2. floor[a] = Scale * Units(outs)[a] /\ Scale \in Nat \ {0}
    BY BuildAssumption
  <2> HIDE DEF floor
  <2>3. /\ outs[a] \div Scale \in Int /\ Scale * (outs[a] \div Scale) \in Int
        /\ Scale * (outs[a] \div Scale) <= outs[a]
        /\ outs[a] % Scale = 0 => outs[a] = Scale * (outs[a] \div Scale)
    BY <2>1, <2>2, RoundedDown
  <2> QED BY <2>1, <2>2, <2>3
<1> HIDE DEF floor
<1>10. /\ SumOf(floor, away) = Scale * leaves
       /\ SumOf(floor, away) <= SumOf(outs, away)
  <2>1. \A a \in away : /\ Units(outs)[a] \in Int /\ floor[a] = Scale * Units(outs)[a]
                        /\ floor[a] \in Int /\ outs[a] \in Int /\ floor[a] <= outs[a]
    BY <1>9
  <2>2. leaves = SumOf(Units(outs), away)
    BY DEF Leaves
  <2>3. Scale \in Int
    BY BuildAssumption
  <2> HIDE DEF away, leaves
  <2>4. SumOf(floor, away) = Scale * leaves
    BY <1>7, <2>1, <2>2, <2>3, SumScaled
  <2>5. SumOf(floor, away) <= SumOf(outs, away)
    BY <1>7, <2>1, SumMonotone
  <2> QED BY <2>4, <2>5
<1>11. Whole(r) => rate % Scale = 0 /\ SumOf(outs, away) = Scale * leaves
  <2> SUFFICES ASSUME Whole(r)
               PROVE  rate % Scale = 0 /\ SumOf(outs, away) = Scale * leaves
    OBVIOUS
  <2>1. \A a \in D : outs[a] % Scale = 0
    <3>1. CASE IsPayment(r)
      BY <1>3, <3>1 DEF Pays, PaysFor
    <3>2. CASE ~IsPayment(r)
      BY <1>3, <3>2, SummaryLeavesNothing DEF FairOrders
    <3> QED BY <3>1, <3>2
  <2>2. \A a \in away : outs[a] = floor[a] /\ floor[a] \in Int
    BY <1>9, <2>1
  <2>3. SumOf(outs, away) = SumOf(floor, away)
    BY <1>7, <2>2, SumAgrees
  <2> QED BY <1>10, <2>3, RatesType DEF Whole
<1>12. amount = StringFixed(-(SumOf(outs, leaving) + ToDecimals(StringFixed(rate))))
  BY <1>2 DEF TxAmount, SumOf
<1>13. /\ StringFixed(rate) \in Int /\ StringFixed(rate) >= fee
       /\ rate % Scale = 0 => StringFixed(rate) = fee
  BY RoundedFee, RatesType
<1> PICK n \in Int : n = StringFixed(rate)
  BY <1>13
<1> PICK s \in Nat \ {0} : s = Scale
  BY BuildAssumption
<1> PICK gone \in Nat : gone = SumOf(outs, leaving)
  BY <1>8
<1> HIDE DEF leaving, away, fee, leaves, D
<1>14. amount = StringFixed(-(gone + n * s))
  BY <1>12 DEF ToDecimals
<1>15. gone >= s * leaves /\ (Whole(r) /\ sure => gone = s * leaves)
  BY <1>4, <1>6, <1>8, <1>10, <1>11
<1>16. n >= fee /\ (Whole(r) => n = fee)
  BY <1>11, <1>13
<1> PICK k \in Int : k = leaves + fee
  BY <1>4
<1>17. s * k = s * leaves + s * fee /\ s * leaves \in Int /\ s * fee \in Int
  BY <1>4
<1>18. gone + n * s \in Int /\ gone + n * s >= s * k
  <2>1. n * s >= s * fee
    BY <1>4, <1>16
  <2> QED BY <1>15, <1>17, <2>1
<1>19. Whole(r) /\ sure => gone + n * s = s * k
  BY <1>4, <1>15, <1>16, <1>17
<1> PICK x \in Int : x = gone + n * s
  BY <1>18
<1>20. amount <= -k
  BY <1>14, <1>18, RoundedLoss
<1>21. Whole(r) /\ sure => amount = -k
  BY <1>14, <1>19, RoundedLoss
<1> QED BY <1>4, <1>20, <1>21

\* Two transactions whose signatures agree spend and pay the same.
LEMMA AgreeSame ==
    ASSUME NEW sigs, NEW tx \in GoodTx, NEW ty \in GoodTx, Agree(sigs, tx), Agree(sigs, ty)
    PROVE  tx.inputs = ty.inputs /\ (tx.inputs # <<>> => tx.outputs = ty.outputs)
<1>1. /\ tx.inputs \in Seq(Coin) /\ ty.inputs \in Seq(Coin)
      /\ DOMAIN tx.inputs = DOMAIN ty.inputs
      /\ \A i \in DOMAIN tx.inputs : Message(tx, tx.inputs[i]) = Message(ty, ty.inputs[i])
  BY DEF GoodTx, Tx, Agree
<1>2. \A i \in DOMAIN tx.inputs : tx.inputs[i] = ty.inputs[i] /\ tx.outputs = ty.outputs
  BY <1>1 DEF Message
<1>3. tx.inputs = ty.inputs
  BY <1>1, <1>2
<1>4. ASSUME tx.inputs # <<>> PROVE tx.outputs = ty.outputs
  <2>1. DOMAIN tx.inputs # {}
    BY <1>1, <1>4, NonEmptyDomain
  <2> QED BY <1>2, <2>1
<1> QED BY <1>3, <1>4

\* What the node takes of r has the amount that SubmitRawTransaction reports.
LEMMA TakenPriced ==
    ASSUME DecoderInv, NEW r \in Request, call[r].at = "publish", NodeAccepts(raw[r].tx)
    PROVE  Priced(r, raw[r].tx, raw[r].txAmount, spent["lookup"] = 0)
<1> PICK w \in GoodRaw(r) : w = raw[r]
  BY DEF DecoderInv, TypeInv
<1> PICK tx \in GoodTx : tx = w.tx
  BY DEF GoodRaw
<1>1. /\ RawInv(r, w, spent["lookup"] = 0) /\ w.tx # NoTx
  BY DEF DecoderInv, OriginInv, CallInv
<1>2. tx.inputs # <<>> /\ tx.inputs \in Seq(Coin)
  BY <1>1 DEF RawInv, Origin, Pays, GoodTx, Tx
<1>3. tx.scripts # <<>>
  <2>1. DOMAIN tx.scripts = DOMAIN tx.inputs
    BY DEF NodeAccepts, Signed
  <2>2. DOMAIN tx.inputs # {} /\ DOMAIN <<>> = {}
    BY <1>2, NonEmptyDomain
  <2> QED BY <2>1, <2>2
<1>4. Agree(w.signatures, tx) /\ w.signatures # <<>>
  BY <1>1, <1>3 DEF RawInv, Agree
<1>5. PICK ty \in GoodTx : /\ Agree(w.signatures, ty)
                           /\ Priced(r, ty, w.txAmount, spent["lookup"] = 0)
  BY <1>1, <1>4 DEF RawInv
<1>6. tx.inputs = ty.inputs /\ tx.outputs = ty.outputs
  BY <1>2, <1>4, <1>5, AgreeSame
<1>7. \A rate, outs, changeAddress :
         Pays(r, rate, ty, outs, changeAddress) => Pays(r, rate, tx, outs, changeAddress)
  BY <1>6 DEF Pays
<1> QED BY <1>5, <1>7 DEF Priced

RecordInv ==
    \A rec \in records :
       /\ [tx |-> rec.tx, request |-> rec.request] \in ToSet(published)
       /\ rec.amount <= OwnGain(rec.request, rec.tx)
       /\ Whole(rec.request) /\ spent["lookup"] = 0
             => rec.amount = OwnGain(rec.request, rec.tx)

LEMMA NextRecord ==
    ASSUME FairOrders, DecoderInv, RecordInv, [Next]_vars
    PROVE  RecordInv'
<1>1. /\ ToSet(published) \subseteq ToSet(published')
      /\ spent'["lookup"] = 0 => spent["lookup"] = 0
  <2>1. ASSUME NEW r \in Request, Takes(r)
        PROVE  ToSet(published) \subseteq ToSet(published')
    <3>1. \E e \in Taken : published' = Append(published, e)
      <4>1. published' = Append(published, [tx |-> raw[r].tx, request |-> r])
        BY <2>1 DEF Takes
      <4>2. [tx |-> raw[r].tx, request |-> r] \in Taken
        BY DEF Taken, DecoderInv, TypeInv, GoodRaw
      <4> QED BY <4>1, <4>2
    <3>2. /\ DOMAIN published \subseteq DOMAIN published'
          /\ \A i \in DOMAIN published : published'[i] = published[i]
      BY <3>1 DEF DecoderInv, TypeInv
    <3> QED BY <3>2 DEF ToSet
  <2>2. ASSUME NEW r \in Request, Step(r)
        PROVE  /\ ToSet(published) \subseteq ToSet(published')
               /\ spent'["lookup"] = 0 => spent["lookup"] = 0
    BY <2>1, <2>2, TakenOrSame, OthersWait DEF DecoderInv
  <2>3. CASE UNCHANGED vars
    BY <2>3 DEF vars
  <2> QED BY <2>2, <2>3 DEF Next
<1>2. CASE UNCHANGED records
  BY <1>1, <1>2 DEF RecordInv
<1>3. ASSUME NEW r \in Request, Publish(r) PROVE RecordInv'
  <2> PICK tx \in GoodTx : tx = raw[r].tx
    BY DEF DecoderInv, TypeInv, GoodRaw
  <2> DEFINE rec == [tx |-> tx, request |-> r, amount |-> raw[r].txAmount]
  <2>1. /\ records' = records \cup {rec} /\ call[r].at = "publish"
        /\ NodeAccepts(tx)
        /\ published' = Append(published, [tx |-> tx, request |-> r])
    BY <1>3 DEF Publish, Takes
  <2>2. [tx |-> tx, request |-> r] \in ToSet(published')
    <3> PICK e \in Taken : e = [tx |-> tx, request |-> r]
      BY DEF Taken
    <3>1. /\ Len(published) + 1 \in DOMAIN published'
          /\ published'[Len(published) + 1] = e
      BY <2>1 DEF DecoderInv, TypeInv
    <3> QED BY <3>1 DEF ToSet
  <2>3. Priced(r, tx, raw[r].txAmount, spent["lookup"] = 0)
    BY <2>1, TakenPriced
  <2>4. Total(tx.outputs) = Total(ToSet(tx.inputs)) /\ Total(ToSet(tx.inputs)) < UintMod
    <3>1. ToSet(tx.inputs) \in SUBSET unspent
      BY <2>1 DEF NodeAccepts
    <3>2. /\ Total(ToSet(tx.inputs)) \in Nat /\ Total(ToSet(tx.inputs)) <= Total(unspent)
          /\ Total(unspent) \in Nat
      BY <3>1, CoinsWorth DEF DecoderInv, TypeInv
    <3>3. Total(Faucet) \in Nat
      BY CoinsWorth, OrderAssumption
    <3> QED BY <2>1, <3>2, <3>3, BuildAssumption
        DEF NodeAccepts, DecoderInv, BookInv, SupplyInv, FairOrders, SmallSupply
  <2>5. /\ rec.amount <= OwnGain(r, tx)
        /\ Whole(r) /\ spent["lookup"] = 0 => rec.amount = OwnGain(r, tx)
    BY <2>3, <2>4, AmountIsGain
  <2>6. rec.tx = tx /\ rec.request = r
    OBVIOUS
  <2> HIDE DEF rec
  <2> QED BY <1>1, <2>1, <2>2, <2>5, <2>6 DEF RecordInv
<1>4. ASSUME NEW r \in Request, Step(r) PROVE RecordInv'
  BY <1>2, <1>3, <1>4 DEF Step, Create, Summarize, ReadBalance, ReadUnspent, BuildPayment,
     BuildSummary, Sign, Verify, Submit, Validate, PublishFails
<1>5. CASE UNCHANGED vars
  BY <1>2, <1>5 DEF vars
<1> QED BY <1>4, <1>5 DEF Next

LEMMA InvAmountTrue ==
    ASSUME DecoderInv, RecordInv
    PROVE  AmountTrue
<1> SUFFICES ASSUME NEW rec \in records
             PROVE  LET own == {o \in rec.tx.outputs : o.address # NoAddress
                                  /\ OwnerOf[o.address] = Order[rec.request].account}
                        gain == Total(own) - Total(ToSet(rec.tx.inputs))
                    IN  /\ [tx |-> rec.tx, request |-> rec.request] \in ToSet(published)
                        /\ rec.amount <= gain
                        /\ Whole(rec.request) /\ spent["lookup"] = 0 => rec.amount = gain
  BY DEF AmountTrue
<1>1. rec.tx \in GoodTx
  BY DEF DecoderInv, TypeInv
<1>2. {o \in rec.tx.outputs : o.address # NoAddress
                              /\ OwnerOf[o.address] = Order[rec.request].account}
      = {o \in rec.tx.outputs : o.address \in Own(rec.request)}
  BY <1>1, BuildAssumption DEF GoodTx, Tx, Output, Own
<1> QED BY <1>2 DEF RecordInv, OwnGain, PaidTo

\* What SubmitRawTransaction reports is what the node took, with the amount the
\* account lost by it or more, although a failing Create leaves the TxAmount of
\* an earlier transaction and other requests spend the same coins meanwhile.
THEOREM AmountIsTrue ==
    ASSUME FairOrders
    PROVE  Spec => []AmountTrue
<1> DEFINE Inv == DecoderInv /\ RecordInv
<1>1. Init => Inv
  BY InitDecoder DEF Init, RecordInv
<1>2. Inv /\ [Next]_vars => Inv'
  BY NextDecoder, NextRecord
<1>3. Inv => AmountTrue
  BY InvAmountTrue
<1> QED BY <1>1, <1>2, <1>3, PTL DEF Spec

\* There are finitely many accounts and strangers.
FewHolders == IsFiniteSet(Holders)

\* What the part of S that key puts under h adds up to.
SumAt(f, S, key, h) == SumOf(f, {x \in S : key[x] = h})

\* The sums of the parts of a set add up to the sum of the whole.
LEMMA SumByPart ==
    ASSUME NEW H, IsFiniteSet(H), NEW S, IsFiniteSet(S), NEW f, \A x \in S : f[x] \in Int,
           NEW key, \A x \in S : key[x] \in H,
           NEW sums, \A h \in H : sums[h] = SumAt(f, S, key, h)
    PROVE  SumOf(sums, H) = SumOf(f, S)
<1> DEFINE In(V) == {x \in S : key[x] \in V}
           C == {V \in SUBSET H : SumOf(sums, V) = SumOf(f, In(V))}
<1>0. \A h \in H : sums[h] \in Int
  <2> TAKE h \in H
  <2>1. IsFiniteSet({x \in S : key[x] = h})
    BY FS_Subset
  <2> QED BY <2>1, SumType DEF SumAt
<1>1. {} \in C
  <2>1. In({}) = {}
    OBVIOUS
  <2> QED BY <2>1, SumEmpty
<1>2. ASSUME NEW V \in C, NEW h \in H \ V PROVE V \cup {h} \in C
  <2> DEFINE P == {x \in S : key[x] = h}
             W == V \cup {h}
  <2>1. /\ In(W) = In(V) \cup P /\ In(V) \cap P = {}
        /\ In(V) \in SUBSET S /\ P \in SUBSET S /\ V \in SUBSET H /\ h \notin V
    OBVIOUS
  <2>2. sums[h] = SumOf(f, P)
    BY DEF SumAt
  <2>3. SumOf(sums, V) = SumOf(f, In(V))
    OBVIOUS
  <2> HIDE DEF In, P, C
  <2>4. IsFiniteSet(In(V)) /\ IsFiniteSet(P) /\ IsFiniteSet(V)
    BY <2>1, FS_Subset
  <2>5. SumOf(f, In(V) \cup P) = SumOf(f, In(V)) + SumOf(f, P)
    BY <2>1, <2>4, SumUnion
  <2>6. SumOf(sums, V \cup {h}) = sums[h] + SumOf(sums, V)
    BY <1>0, <2>1, <2>4, SumInsert
  <2>7. SumOf(f, In(V)) \in Int /\ SumOf(f, P) \in Int
    BY <2>1, <2>4, SumType
  <2>8. SumOf(sums, W) = SumOf(f, In(W))
    <3>1. SumOf(f, In(W)) = SumOf(f, In(V) \cup P)
      BY <2>1
    <3> HIDE DEF W
    <3>2. SumOf(sums, V \cup {h}) = SumOf(f, In(V) \cup P)
      BY <2>2, <2>3, <2>5, <2>6, <2>7
    <3> QED BY <3>1, <3>2 DEF W
  <2> QED BY <2>8 DEF C
<1>3. H \in C
  <2>1. C \in SUBSET (SUBSET H)
    OBVIOUS
  <2> HIDE DEF C
  <2> QED BY <1>1, <1>2, <2>1, SetInduct
<1>4. In(H) = S
  OBVIOUS
<1> HIDE DEF In
<1> QED BY <1>3, <1>4

------------------------------------------------------------------------------
(* The promise's moves. *)

\* A move, in the terms of the decoder.
LEMMA MoveIs ==
    ASSUME NEW r \in Request, NEW gets, NEW fee \in Charged(r),
           NEW sum, sum = SumOf(gets, Holders),
           \A h \in Holders : Held(h)' = Held(h) + gets[h]
              - IF h = Order[r].account THEN fee + sum ELSE 0
    PROVE  Promise!Move(r, gets)
  BY DEF Promise!Move, SumOf, Promise!MapThenSumSet, MapThenSumSet,
         Promise!MapThenFoldSet, MapThenFoldSet

\* What the outputs of tx bring to h.
Brings(outs, h) == SumOf(Units(outs), DOMAIN outs \cap Of(h))

\* Who gains and who loses by what the node takes.
Settles(r, rate, outs) ==
    LET fee == rate \div Scale
        leaves == Leaves(r, outs)
    IN  /\ fee \in Nat /\ leaves \in Nat
        /\ leaves <= Held(Order[r].account)
        /\ \A h \in Holders : /\ Held(h) \in Nat
                              /\ Held(h)' = IF h = Order[r].account
                                            THEN Held(h) - (leaves + fee)
                                            ELSE Held(h) + Brings(outs, h)

LEMMA TakesSettles ==
    ASSUME FairOrders, DecoderInv, NEW r \in Request, NEW rate \in Rates(r),
           Takes(r), TypeInv',
           NEW outs, NEW changeAddress, Pays(r, rate, raw[r].tx, outs, changeAddress)
    PROVE  Settles(r, rate, outs)
<1> PICK tx \in GoodTx : tx = raw[r].tx
  BY DEF DecoderInv, TypeInv, GoodRaw
<1> DEFINE p == Order[r].account
           T == Total(ToSet(tx.inputs))
           gone(h) == {c \in ToSet(tx.inputs) : c.address \in Of(h)}
           fee == rate \div Scale
           leaves == Leaves(r, outs)
<1>1. Pays(r, rate, tx, outs, changeAddress) /\ Own(r) = Of(p)
  BY DEF Own, Of
<1>2. /\ Total(tx.outputs) = T /\ ToSet(tx.inputs) \in SUBSET unspent
  BY DEF Takes, NodeAccepts
<1>3. /\ OwnGain(r, tx) = -(leaves + fee) /\ leaves \in Nat /\ fee \in Nat
  BY <1>1, <1>2, GainIsLoss
<1>4. \A h : /\ Held(h) = HeldAt(Of(h))
             /\ Held(h)' = HeldAt(Of(h))'
             /\ Of(h) \in SUBSET Address
  <2> TAKE h
  <2>1. {c \in unspent' : OwnerOf[c.address] = h} = {c \in unspent' : c.address \in Of(h)}
    BY DEF TypeInv, Coin, Of
  <2>2. Held(h)' = HeldAt(Of(h))'
    BY <2>1 DEF Held, HeldAt
  <2> QED BY <2>2, HeldIsHeldAt DEF Of, DecoderInv
<1>5. ASSUME NEW h
      PROVE  /\ Held(h)' = Held(h) + PaidTo(tx, Of(h)) - Total(gone(h))
             /\ Held(h) \in Nat /\ PaidTo(tx, Of(h)) \in Nat /\ Total(gone(h)) \in Nat
  BY <1>4, TakesMoves DEF DecoderInv, BookInv
<1>6. \A c \in ToSet(tx.inputs) : c.address \in Of(p)
  <2>1. ToSet(tx.inputs) \subseteq OwnCoin(r)
    BY ToSetType DEF Pays
  <2> QED BY <1>1, <2>1 DEF OwnCoin
<1>7. gone(p) = ToSet(tx.inputs)
  BY <1>6
<1>8. ASSUME NEW h, h # p PROVE Total(gone(h)) = 0
  <2>1. gone(h) = {}
    BY <1>6, <1>8 DEF Of
  <2> QED BY <2>1, TotalEmpty
<1> HIDE DEF gone
<1>9. Held(p)' = Held(p) - (leaves + fee) /\ leaves <= Held(p)
  <2>1. PaidTo(tx, Of(p)) - T = -(leaves + fee)
    BY <1>1, <1>3 DEF OwnGain
  <2>2. /\ Held(p)' = Held(p) + PaidTo(tx, Of(p)) - T
        /\ Held(p) \in Nat /\ PaidTo(tx, Of(p)) \in Nat /\ T \in Nat
    BY <1>5, <1>7
  <2>3. T <= Held(p)
    <3>1. ToSet(tx.inputs) \in SUBSET {c \in unspent : c.address \in Of(p)}
      BY <1>2, <1>6
    <3>2. {c \in unspent : c.address \in Of(p)} \subseteq Coin
          /\ IsFiniteSet({c \in unspent : c.address \in Of(p)})
      BY FS_Subset DEF DecoderInv, TypeInv
    <3> QED BY <1>4, <3>1, <3>2, CoinsWorth DEF HeldAt
  <2> HIDE DEF T, fee, leaves
  <2> QED BY <1>3, <2>1, <2>2, <2>3
<1>10. ASSUME NEW h, h # p PROVE Held(h)' = Held(h) + Brings(outs, h)
  <2>1. PaidTo(tx, Of(h)) = (IF NoAddress \in Of(h) THEN UintPart(rate) ELSE 0)
                            + Brings(outs, h)
                            + (IF changeAddress \in Of(h) THEN Left(rate, tx, outs) ELSE 0)
    BY <1>1, PaysPaidOut DEF PaidOut, Brings
  <2>2. NoAddress \notin Of(h)
    BY BuildAssumption DEF Of
  <2>3. changeAddress \notin Of(h)
    BY <1>1, <1>10, <2>2 DEF Pays, Of, Own
  <2>4. Brings(outs, h) \in Nat
    <3>1. IsFiniteSet(DOMAIN outs \cap Of(h))
      BY <1>1, FS_Subset DEF Pays, PaysFor
    <3>2. \A a \in DOMAIN outs : Units(outs)[a] \in Nat
      BY <1>1, PaysPaidOut, BuildAssumption DEF PaidOut, Uint
    <3> QED BY <3>1, <3>2, SumNatural DEF Brings
  <2>5. PaidTo(tx, Of(h)) = Brings(outs, h)
    BY <2>1, <2>2, <2>3, <2>4
  <2>6. Held(h)' = Held(h) + PaidTo(tx, Of(h)) - 0 /\ Held(h) \in Nat
    BY <1>5, <1>8, <1>10
  <2> QED BY <2>4, <2>5, <2>6
<1>11. \A h : Held(h) \in Nat
  BY <1>5
<1> HIDE DEF fee, leaves
<1> QED BY <1>3, <1>9, <1>10, <1>11 DEF Settles, fee, leaves, p

LEMMA PaymentMoves ==
    ASSUME FewHolders, FairOrders, NEW r \in Request, IsPayment(r),
           NEW rate \in Rates(r), NEW tx \in GoodTx,
           NEW outs, NEW changeAddress, Pays(r, rate, tx, outs, changeAddress),
           Total(tx.outputs) = Total(ToSet(tx.inputs)), Total(ToSet(tx.inputs)) < UintMod,
           Settles(r, rate, outs)
    PROVE  Promise!Pay(r)
<1> DEFINE to == Order[r].to
           p == Order[r].account
           fee == rate \div Scale
           part(h) == {x \in DOMAIN to : OwnerOf[x] = h}
           units == [a \in DOMAIN to |-> to[a] \div Scale]
           gets == [h \in Holders |-> Sum([a \in part(h) |-> to[a] \div Scale])]
           away == DOMAIN outs \ Own(r)
           strangers == Holders \ {p}
           leaves == Leaves(r, outs)
<1>1. /\ IsFiniteSet(DOMAIN to) /\ DOMAIN to \subseteq Address
      /\ \A a \in DOMAIN to : to[a] \in Nat /\ units[a] = to[a] \div Scale /\ units[a] \in Int
  <2>1. /\ IsFiniteSet(DOMAIN to) /\ DOMAIN to \subseteq Address
        /\ \A a \in DOMAIN to : to[a] \in Nat
    BY OrderAssumption
  <2> QED BY <2>1, BuildAssumption
<1>2. /\ IsFiniteSet(DOMAIN outs) /\ DOMAIN outs \subseteq Address
      /\ \A a \in Address \ Own(r) :
            /\ a \in DOMAIN outs <=> a \in DOMAIN to
            /\ a \in DOMAIN outs => outs[a] = to[a]
  BY DEF Pays, PaysFor
<1>3. \A a \in away : Units(outs)[a] = units[a] /\ units[a] \in Int /\ a \in DOMAIN to
  BY <1>1, <1>2, TakenExact DEF Exact
<1> HIDE DEF units
<1>4. ASSUME NEW h \in Holders
      PROVE  gets[h] = SumOf(units, part(h)) /\ gets[h] \in Int
  <2> DEFINE f == [a \in part(h) |-> to[a] \div Scale]
  <2>1. \A a \in part(h) : f[a] = units[a] /\ units[a] \in Int
    BY <1>1
  <2>2. gets[h] = SumOf(f, part(h))
    BY DEF Sum, SumOf
  <2> HIDE DEF f, gets
  <2>3. IsFiniteSet(part(h))
    BY <1>1, FS_Subset
  <2> HIDE DEF part
  <2>4. SumOf(f, part(h)) = SumOf(units, part(h)) /\ SumOf(units, part(h)) \in Int
    BY <2>1, <2>3, SumAgrees, SumType
  <2> QED BY <2>2, <2>4
<1>5. ASSUME NEW h \in strangers
      PROVE  /\ {x \in away : OwnerOf[x] = h} = part(h)
             /\ gets[h] = Brings(outs, h)
             /\ gets[h] = SumOf(units, {x \in away : OwnerOf[x] = h})
  <2>1. {x \in away : OwnerOf[x] = h} = part(h)
    BY <1>1, <1>2 DEF Own
  <2>2. DOMAIN outs \cap Of(h) = part(h)
    BY <1>1, <1>2 DEF Own, Of
  <2>3. \A a \in part(h) : Units(outs)[a] = units[a] /\ units[a] \in Int
    BY <1>3, <2>1
  <2>4. IsFiniteSet(part(h))
    BY <1>1, FS_Subset
  <2>5. gets[h] = SumOf(units, part(h))
    BY <1>4
  <2> HIDE DEF part, gets, away
  <2>6. SumOf(Units(outs), part(h)) = SumOf(units, part(h))
    BY <2>3, <2>4, SumAgrees
  <2>7. Brings(outs, h) = SumOf(units, part(h))
    BY <2>2, <2>6 DEF Brings
  <2> QED BY <2>1, <2>5, <2>7
<1>6. IsFiniteSet(strangers) /\ IsFiniteSet(Holders) /\ p \in Holders
  BY FS_Subset, OrderAssumption DEF FewHolders, Holders
<1>7. SumOf(gets, strangers) = leaves
  <2>1. IsFiniteSet(away)
    BY <1>2, FS_Subset
  <2>2. \A a \in away : OwnerOf[a] \in strangers
    BY <1>2 DEF Own, Holders
  <2>3. SumOf(Units(outs), away) = SumOf(units, away)
    <3>1. \A a \in away : Units(outs)[a] = units[a] /\ units[a] \in Int
      BY <1>3
    <3> HIDE DEF away
    <3> QED BY <2>1, <3>1, SumAgrees
  <2>4. leaves = SumOf(units, away)
    BY <2>3 DEF Leaves
  <2>5. \A a \in away : units[a] \in Int
    BY <1>3
  <2>6. \A h \in strangers : gets[h] = SumAt(units, away, OwnerOf, h)
    BY <1>5 DEF SumAt
  <2> HIDE DEF away, gets, strangers
  <2>7. SumOf(gets, strangers) = SumOf(units, away)
    BY <1>6, <2>1, <2>2, <2>5, <2>6, SumByPart
  <2> QED BY <2>4, <2>7
<1>8. SumOf(gets, Holders) = gets[p] + leaves /\ gets[p] \in Int
  <2>1. \A h \in Holders : gets[h] \in Int
    BY <1>4
  <2> HIDE DEF gets, p
  <2>2. SumOf(gets, Holders \ {p}) = SumOf(gets, Holders) - gets[p]
    BY <1>6, <2>1, SumRemove
  <2>3. SumOf(gets, Holders) \in Int /\ gets[p] \in Int
    BY <1>6, <2>1, SumType
  <2> QED BY <1>7, <2>2, <2>3
<1>9. /\ fee \in Nat /\ leaves \in Nat
      /\ \A h \in Holders : /\ Held(h) \in Nat
                            /\ Held(h)' = IF h = p THEN Held(h) - (leaves + fee)
                                          ELSE Held(h) + Brings(outs, h)
  BY DEF Settles
<1>s. SumOf(gets, Holders) \in Int
  <2> HIDE DEF gets, leaves, p
  <2> QED BY <1>8, <1>9
<1> PICK sum \in Int : sum = SumOf(gets, Holders) /\ sum = gets[p] + leaves
  <2> HIDE DEF gets, leaves, p
  <2> QED BY <1>8, <1>9, <1>s
<1>10. \A h \in Holders : Held(h)' = Held(h) + gets[h] - IF h = p THEN fee + sum ELSE 0
  <2> TAKE h \in Holders
  <2>1. CASE h = p
    <3> HIDE DEF gets, fee, leaves, p
    <3>1. Held(p)' = Held(p) - (leaves + fee) /\ Held(p) \in Nat
      BY <1>9, <2>1
    <3>2. Held(p)' = Held(p) + gets[p] - (fee + sum)
      BY <1>8, <1>9, <3>1
    <3> QED BY <2>1, <3>2
  <2>2. CASE h # p
    <3>1. gets[h] = Brings(outs, h) /\ gets[h] \in Int
      BY <1>4, <1>5, <2>2
    <3> HIDE DEF gets, fee, leaves, p
    <3>2. Held(h)' = Held(h) + gets[h] /\ Held(h) \in Nat
      BY <1>9, <2>2, <3>1
    <3>3. Held(h) + gets[h] = Held(h) + gets[h] - 0
      BY <3>1, <3>2
    <3> QED BY <2>2, <3>2, <3>3
  <2> QED BY <2>1, <2>2
<1>11. Promise!Move(r, gets)
  <2> HIDE DEF gets
  <2>1. fee \in Charged(r)
    BY FeeFits DEF FairOrders
  <2> HIDE DEF fee
  <2> QED BY <1>10, <2>1, MoveIs
<1>12. r \in Payments
  BY DEF Payments
<1> QED BY <1>11, <1>12 DEF Promise!Pay

LEMMA SummaryMoves ==
    ASSUME FewHolders, FairOrders, NEW r \in Request, ~IsPayment(r),
           NEW rate \in Rates(r), NEW tx \in GoodTx,
           NEW outs, NEW changeAddress, Pays(r, rate, tx, outs, changeAddress),
           Settles(r, rate, outs)
    PROVE  Promise!Sweep(r)
<1> DEFINE p == Order[r].account
           fee == rate \div Scale
           to == OwnerOf[Order[r].summaryAddress]
           leaves == Leaves(r, outs)
<1>1. /\ fee \in Nat /\ leaves \in Nat /\ leaves <= Held(p)
      /\ \A h \in Holders : /\ Held(h) \in Nat
                            /\ Held(h)' = IF h = p THEN Held(h) - (leaves + fee)
                                          ELSE Held(h) + Brings(outs, h)
  BY DEF Settles
<1>2. /\ Order[r].summaryAddress \in Address /\ p \in Holders /\ to \in Holders
      /\ IsFiniteSet(Holders) /\ r \notin Payments
  BY OrderAssumption DEF Holders, FewHolders, Payments
<1>3. \A a \in DOMAIN outs : a \in Address /\ (a \in Own(r) \/ a = Order[r].summaryAddress)
  BY DEF Pays, PaysFor
<1>4. to = p => leaves = 0
  <2> SUFFICES ASSUME to = p PROVE leaves = 0
    OBVIOUS
  <2>1. DOMAIN outs \ Own(r) = {}
    BY <1>2, <1>3 DEF Own
  <2> QED BY <2>1, SumEmpty DEF Leaves
<1> DEFINE gets == [h \in Holders |-> IF h = to THEN leaves ELSE 0]
<1>5. ASSUME NEW h \in Holders, h # p PROVE Brings(outs, h) = gets[h]
  <2>1. CASE h = to
    <3>1. DOMAIN outs \cap Of(h) = DOMAIN outs \ Own(r)
      BY <1>3, <1>5, <2>1 DEF Own, Of
    <3> QED BY <2>1, <3>1 DEF Brings, Leaves
  <2>2. CASE h # to
    <3>1. DOMAIN outs \cap Of(h) = {}
      BY <1>3, <1>5, <2>2 DEF Own, Of
    <3> QED BY <2>2, <3>1, SumEmpty DEF Brings
  <2> QED BY <2>1, <2>2
<1>6. SumOf(gets, Holders) = leaves
  <2>1. /\ \A h \in Holders : gets[h] \in Int
        /\ \A h \in Holders \ {to} : gets[h] = 0
        /\ gets[to] = leaves
    BY <1>1, <1>2
  <2> HIDE DEF gets, to, leaves
  <2>2. SumOf(gets, Holders \ {to}) = SumOf(gets, Holders) - gets[to]
    BY <1>2, <2>1, SumRemove
  <2>3. IsFiniteSet(Holders \ {to})
    BY <1>2, FS_Subset
  <2>4. SumOf(gets, Holders \ {to}) = 0
    BY <2>1, <2>3, SumZero
  <2>5. SumOf(gets, Holders) \in Int
    BY <1>2, <2>1, SumType
  <2> QED BY <1>1, <2>1, <2>2, <2>4, <2>5
<1>7. \A h \in Holders : Held(h)' = Held(h) + gets[h] - IF h = p THEN fee + leaves ELSE 0
  <2> TAKE h \in Holders
  <2>1. CASE h = p
    <3>1. gets[p] = 0
      BY <1>2, <1>4
    <3>2. Held(p)' = Held(p) - (leaves + fee) /\ Held(p) \in Nat
      BY <1>1, <1>2
    <3> HIDE DEF gets, fee, leaves, p
    <3>3. Held(p)' = Held(p) + gets[p] - (fee + leaves)
      BY <1>1, <3>1, <3>2
    <3> QED BY <2>1, <3>3
  <2>2. CASE h # p
    <3>1. gets[h] = Brings(outs, h) /\ gets[h] \in Int
      BY <1>1, <1>5, <2>2
    <3> HIDE DEF gets, fee, leaves, p
    <3>2. Held(h)' = Held(h) + gets[h] /\ Held(h) \in Nat
      BY <1>1, <2>2, <3>1
    <3>3. Held(h) + gets[h] = Held(h) + gets[h] - 0
      BY <3>1, <3>2
    <3> QED BY <2>2, <3>2, <3>3
  <2> QED BY <2>1, <2>2
<1>8. Promise!Move(r, gets)
  <2> HIDE DEF gets, leaves
  <2>1. fee \in Charged(r)
    BY FeeFits DEF FairOrders
  <2> HIDE DEF fee
  <2> QED BY <1>6, <1>7, <2>1, MoveIs
<1>9. leaves \in 0..Held(p)
  BY <1>1, <1>2
<1>10. \E amount \in 0..Held(p) :
          Promise!Move(r, [h \in Holders |-> IF h = to THEN amount ELSE 0])
  BY <1>8, <1>9
<1>11. r \in Request \ Payments
  BY <1>2
<1> HIDE DEF gets, leaves
<1> QED BY <1>2, <1>10, <1>11 DEF Promise!Sweep

------------------------------------------------------------------------------
(* The refinement. *)

LEMMA StepSettles ==
    ASSUME FewHolders, FairOrders, DecoderInv, OnceInv, NEW r \in Request,
           call[r].at = "publish", Takes(r), TypeInv'
    PROVE  Promise!Settle(r)
<1> PICK tx \in GoodTx : tx = raw[r].tx
  BY DEF DecoderInv, TypeInv, GoodRaw
<1>0. PICK rate \in Rates(r) :
         \E outs, changeAddress : Pays(r, rate, tx, outs, changeAddress)
  BY DEF DecoderInv, OriginInv, CallInv, RawInv, Origin
<1>1. PICK outs, changeAddress : Pays(r, rate, tx, outs, changeAddress)
  BY <1>0
<1>2. /\ Total(tx.outputs) = Total(ToSet(tx.inputs)) /\ ToSet(tx.inputs) \in SUBSET unspent
      /\ published' = Append(published, [tx |-> tx, request |-> r])
  BY DEF Takes, NodeAccepts
<1>3. Total(ToSet(tx.inputs)) < UintMod
  <2>1. /\ Total(ToSet(tx.inputs)) \in Nat /\ Total(ToSet(tx.inputs)) <= Total(unspent)
        /\ Total(unspent) \in Nat
    BY <1>2, CoinsWorth DEF DecoderInv, TypeInv
  <2>2. Total(Faucet) \in Nat
    BY CoinsWorth, OrderAssumption
  <2> QED BY <2>1, <2>2, BuildAssumption
      DEF DecoderInv, BookInv, SupplyInv, FairOrders, SmallSupply
<1>4. Settles(r, rate, outs)
  BY <1>1, TakesSettles
<1> DEFINE settled == {published[n].request : n \in DOMAIN published}
<1>5. r \notin settled
  <2> SUFFICES ASSUME NEW n \in DOMAIN published, published[n].request = r
               PROVE  FALSE
    OBVIOUS
  <2>1. \A c \in ToSet(tx.inputs) : c \notin unspent
    BY DEF OnceInv
  <2>2. DOMAIN tx.inputs # {}
    BY <1>1, NonEmptyDomain DEF Pays
  <2> QED BY <1>2, <2>1, <2>2 DEF ToSet
<1>6. settled' = settled \cup {r}
  <2> PICK e \in Taken : e = [tx |-> tx, request |-> r]
    BY DEF Taken
  <2> PICK n \in Nat : n = Len(published) /\ DOMAIN published = 1..n
    BY PublishedDomain DEF DecoderInv
  <2>1. /\ DOMAIN published' = 1..(n + 1) /\ published'[n + 1] = e
        /\ \A i \in 1..n : published'[i] = published[i]
    BY <1>2 DEF DecoderInv, TypeInv
  <2>2. 1..(n + 1) = (1..n) \cup {n + 1} /\ n + 1 \notin 1..n
    OBVIOUS
  <2>3. e.request = r
    OBVIOUS
  <2> HIDE DEF DecoderInv
  <2> QED BY <2>1, <2>2, <2>3
<1>7. CASE IsPayment(r)
  <2>1. Promise!Pay(r)
    BY <1>1, <1>2, <1>3, <1>4, <1>7, PaymentMoves
  <2> QED BY <1>5, <1>6, <2>1 DEF Promise!Settle
<1>8. CASE ~IsPayment(r)
  <2>1. Promise!Sweep(r)
    BY <1>1, <1>4, <1>8, SummaryMoves
  <2> QED BY <1>5, <1>6, <2>1 DEF Promise!Settle
<1> QED BY <1>7, <1>8

LEMMA InitPromised == Init => Promise!Init
<1> SUFFICES ASSUME Init PROVE Promise!Init
  OBVIOUS
<1>1. TypeInv /\ published = <<>>
  BY InitType DEF Init
<1>2. \A h \in Holders : Held(h) \in Nat
  <2> TAKE h \in Holders
  <2>1. {c \in unspent : OwnerOf[c.address] = h} \in SUBSET unspent
    OBVIOUS
  <2> QED BY <1>1, <2>1, CoinsWorth DEF Held, TypeInv
<1>3. DOMAIN published = {}
  BY <1>1
<1> QED BY <1>2, <1>3 DEF Promise!Init

LEMMA NextPromised ==
    ASSUME FewHolders, FairOrders, DecoderInv, OnceInv, [Next]_vars
    PROVE  [Promise!Next]_Promise!vars
<1>1. CASE UNCHANGED <<unspent, published>>
  <2>1. UNCHANGED [h \in Holders |-> Held(h)]
    BY <1>1 DEF Held
  <2>2. UNCHANGED {published[n].request : n \in DOMAIN published}
    BY <1>1
  <2> QED BY <2>1, <2>2 DEF Promise!vars
<1>2. ASSUME NEW r \in Request, call[r].at = "publish", Takes(r) PROVE Promise!Next
  <2>1. TypeInv'
    BY NextType DEF DecoderInv
  <2>2. Promise!Settle(r)
    BY <1>2, <2>1, StepSettles
  <2> QED BY <2>2 DEF Promise!Next
<1>3. ASSUME NEW r \in Request, Step(r) PROVE [Promise!Next]_Promise!vars
  BY <1>1, <1>2, <1>3, TakenOrSame
<1>4. CASE UNCHANGED vars
  BY <1>1, <1>4 DEF vars
<1> QED BY <1>3, <1>4 DEF Next

\* The decoder implements the promise: whatever is lost and tried again, what
\* the node takes is one request, once, and it moves what the request asks for.
THEOREM PromiseKept ==
    ASSUME FewHolders, FairOrders, ~RecreateCompleted
    PROVE  Spec => Transfers
<1> DEFINE Inv == DecoderInv /\ ShapeInv /\ SignedInv /\ OnceInv
<1>1. Init => Inv
  BY InitDecoder, InitSigned, InitOnce
<1>2. Inv /\ [Next]_vars => Inv'
  BY NextDecoder, NextSigned, NextOnce
<1>3. Inv /\ [Next]_vars => [Promise!Next]_Promise!vars
  BY NextPromised
<1> QED BY <1>1, <1>2, <1>3, InitPromised, PTL DEF Spec, Transfers, Promise!Spec
==============================================================================
