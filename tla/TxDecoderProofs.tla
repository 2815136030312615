--------------------------- MODULE TxDecoderProofs ---------------------------
(***************************************************************************)
(* Theorems about TxDecoder, for any accounts, coins, requests and faults: *)
(* what is submitted is signed (SentSigned) and a request takes effect at  *)
(* most once (PaidOnce), as long as clients do not create a verified       *)
(* transaction again.                                                      *)
(***************************************************************************)
EXTENDS TxDecoder, TLAPS

\* The fields the values have, whatever they hold.
IsTx(tx) == {"inputs", "outputs", "scripts"} \subseteq DOMAIN tx

IsSignatures(sigs) ==
    /\ sigs = [i \in DOMAIN sigs |-> sigs[i]]
    /\ \A i \in DOMAIN sigs : {"address", "message", "signed"} \subseteq DOMAIN sigs[i]

IsRaw(w) ==
    /\ {"tx", "signatures", "isCompleted", "isSubmit", "txAmount"} \subseteq DOMAIN w
    /\ IsTx(w.tx)
    /\ IsSignatures(w.signatures)
    /\ w.isCompleted \in BOOLEAN

IsCall(c) == {"at", "left", "chosen", "coins"} \subseteq DOMAIN c

ShapeInv ==
    /\ raw = [r \in Request |-> raw[r]]
    /\ call = [r \in Request |-> call[r]]
    /\ \A r \in Request : IsRaw(raw[r]) /\ IsCall(call[r])

\* A signature is made with the key of the address whose coin it spends.
OwnKeys(sigs) ==
    \A i \in DOMAIN sigs : sigs[i].address = sigs[i].message.spends.address

Completed(w) == Signed(w.tx) /\ Verifies(w.tx, w.signatures)

\* IsCompleted tells the truth, and it does not change during a call.
SignedInv ==
    \A r \in Request :
       /\ OwnKeys(raw[r].signatures)
       /\ raw[r].isCompleted => Completed(raw[r])
       /\ call[r].at \in {"validate", "publish"} => raw[r].isCompleted
       /\ call[r].at \in {"balance", "unspent", "build"} => ~raw[r].isCompleted

------------------------------------------------------------------------------
\* A function of nothing is the empty sequence.
LEMMA EmptyFunction ==
    ASSUME NEW f, f = [i \in DOMAIN f |-> f[i]], DOMAIN f = {}
    PROVE  f = <<>>
  OBVIOUS

\* Signatures that verify are those of the owners of the inputs.
LEMMA VerifiedIsSigned ==
    ASSUME NEW tx, NEW sigs, IsTx(tx), OwnKeys(sigs), Verifies(tx, sigs)
    PROVE  Signed(Combined(tx, sigs)) /\ Verifies(Combined(tx, sigs), sigs)
<1> DEFINE new == Combined(tx, sigs)
<1>1. /\ new.inputs = tx.inputs
      /\ new.outputs = tx.outputs
      /\ new.scripts = [i \in DOMAIN sigs |->
                          [key |-> sigs[i].address, message |-> sigs[i].message]]
  BY DEF IsTx, Combined
<1>2. \A c : Message(new, c) = Message(tx, c)
  BY <1>1 DEF Message
<1>3. /\ DOMAIN sigs = DOMAIN tx.inputs
      /\ \A i \in DOMAIN sigs : sigs[i].message = Message(tx, tx.inputs[i])
  BY DEF Verifies
<1>4. \A i \in DOMAIN sigs : sigs[i].address = tx.inputs[i].address
  <2>1. \A c : Message(tx, c).spends = c
    BY DEF Message
  <2>2. \A i \in DOMAIN sigs : sigs[i].message.spends = tx.inputs[i]
    BY <1>3, <2>1
  <2> QED BY <2>2 DEF OwnKeys
<1>5. Signed(new)
  BY <1>1, <1>2, <1>3, <1>4 DEF Signed
<1>6. Verifies(new, sigs)
  BY <1>1, <1>2, <1>3 DEF Verifies
<1> QED BY <1>5, <1>6

\* What a call of Create leaves of the raw transaction w.
LEMMA BuiltShape ==
    ASSUME NEW w, NEW o, NEW inputs, NEW outs, NEW changeAddress, NEW unknown, NEW F,
           IsRaw(w), OwnKeys(w.signatures)
    PROVE  LET new == Built(w, o, inputs, outs, changeAddress, unknown, F)
           IN  IsRaw(new) /\ OwnKeys(new.signatures) /\ new.isCompleted = w.isCompleted
<1> DEFINE tx == NewTransaction(inputs, [a \in DOMAIN outs |-> UintPart(outs[a])],
                                changeAddress, UintPart(o.fee))
           new == Built(w, o, inputs, outs, changeAddress, unknown, F)
<1>1. IsTx(tx)
  BY DEF NewTransaction, IsTx
<1>2. IsSignatures(KeySignatures(tx)) /\ OwnKeys(KeySignatures(tx))
  BY DEF KeySignatures, IsSignatures, OwnKeys, Message
<1>3. CASE "address" \in F
  <2>1. new = [w EXCEPT !.tx = tx]
    BY <1>3 DEF Built
  <2> HIDE DEF tx, new
  <2> QED BY <2>1, <1>1 DEF IsRaw, new
<1>4. CASE "address" \notin F
  <2> DEFINE amount == TxAmount(o.account, outs, unknown, o.fee)
  <2>1. new = [w EXCEPT !.tx = tx, !.signatures = KeySignatures(tx), !.txAmount = amount]
    BY <1>4 DEF Built
  <2> HIDE DEF tx, new, amount
  <2> QED BY <2>1, <1>1, <1>2 DEF IsRaw, new
<1> QED BY <1>3, <1>4

\* Rounding the fee of the raw transaction leaves the rest of it.
LEMMA RoundedShape ==
    ASSUME NEW w, IsRaw(w)
    PROVE  LET new == FeeRounded(w)
           IN  /\ IsRaw(new) /\ new.signatures = w.signatures
               /\ new.isCompleted = w.isCompleted
<1> PICK rate : rate = ToDecimals(StringFixed(w.feeRate))
  OBVIOUS
<1>1. FeeRounded(w) = [w EXCEPT !.feeRate = rate]
  BY DEF FeeRounded
<1> QED BY <1>1 DEF IsRaw

\* What a step does to the raw transaction and the call of its own request.
\* All others stay as they are.
LEMMA OwnStep ==
    ASSUME ShapeInv, SignedInv, ~RecreateCompleted, NEW r \in Request, Step(r)
    PROVE  /\ \A q \in Request \ {r} : raw'[q] = raw[q] /\ call'[q] = call[q]
           /\ raw' = [q \in Request |-> raw'[q]]
           /\ call' = [q \in Request |-> call'[q]]
           /\ IsRaw(raw'[r]) /\ IsCall(call'[r])
           /\ OwnKeys(raw'[r].signatures)
           /\ raw'[r].isCompleted => Completed(raw'[r])
           /\ call'[r].at \in {"validate", "publish"} => raw'[r].isCompleted
           /\ call'[r].at \in {"balance", "unspent", "build"} => ~raw'[r].isCompleted
<1> DEFINE Goal == 
           /\ \A q \in Request \ {r} : raw'[q] = raw[q] /\ call'[q] = call[q]
           /\ raw' = [q \in Request |-> raw'[q]]
           /\ call' = [q \in Request |-> call'[q]]
           /\ IsRaw(raw'[r]) /\ IsCall(call'[r])
           /\ OwnKeys(raw'[r].signatures)
           /\ raw'[r].isCompleted => Completed(raw'[r])
           /\ call'[r].at \in {"validate", "publish"} => raw'[r].isCompleted
           /\ call'[r].at \in {"balance", "unspent", "build"} => ~raw'[r].isCompleted
<1> USE DEF ShapeInv
\* A call that goes on to c.
<1>a. ASSUME NEW c, Enter(r, c), IsCall(c), UNCHANGED raw,
             c.at \in {"validate", "publish"} => raw[r].isCompleted,
             c.at \in {"balance", "unspent", "build"} => ~raw[r].isCompleted
      PROVE  Goal
  BY <1>a DEF Enter, SignedInv
<1>b. IsCall(Idle) /\ Idle.at = "idle"
  BY DEF IsCall, Idle
\* A raw transaction that becomes w, no call being in progress afterwards.
<1>c. ASSUME NEW w, raw' = [raw EXCEPT ![r] = w], call'[r].at = "idle",
             IsCall(call'[r]), call' = [q \in Request |-> call'[q]],
             \A q \in Request \ {r} : call'[q] = call[q],
             IsRaw(w), OwnKeys(w.signatures), w.isCompleted => Completed(w)
      PROVE  Goal
  BY <1>c
<1>d. ASSUME Enter(r, Idle) \/ (UNCHANGED call /\ call[r] = Idle)
      PROVE  /\ call'[r].at = "idle" /\ IsCall(call'[r])
             /\ call' = [q \in Request |-> call'[q]]
             /\ \A q \in Request \ {r} : call'[q] = call[q]
  BY <1>b, <1>d DEF Enter
<1>e. IsRaw(NewRaw(r)) /\ OwnKeys(NewRaw(r).signatures) /\ NewRaw(r).isCompleted = FALSE
  BY DEF IsRaw, NewRaw, IsTx, NoTx, IsSignatures, OwnKeys
<1>1. CASE Create(r)
  <2> DEFINE c == [Idle EXCEPT !.at = "unspent", !.left = Book[Order[r].account]]
  <2>1. IsCall(c) /\ c.at = "unspent"
    BY DEF IsCall, Idle
  <2>2. Enter(r, c) /\ UNCHANGED raw /\ ~raw[r].isCompleted
    BY <1>1 DEF Create
  <2> HIDE DEF c
  <2> QED BY <1>a, <2>1, <2>2
<1>2. CASE Summarize(r)
  <2> DEFINE c == [Idle EXCEPT !.at = "balance", !.left = Book[Order[r].account]]
  <2>1. IsCall(c) /\ c.at = "balance"
    BY DEF IsCall, Idle
  <2>2. Enter(r, c) /\ UNCHANGED raw /\ ~raw[r].isCompleted
    BY <1>2 DEF Summarize
  <2> HIDE DEF c
  <2> QED BY <1>a, <2>1, <2>2
<1>3. CASE ReadBalance(r)
  <2>1. call[r].at = "balance" /\ ~raw[r].isCompleted /\ UNCHANGED raw
    BY <1>3 DEF ReadBalance, SignedInv
  <2>2. PICK F \in SUBSET {"rpc"} :
           LET a == Head(call[r].left)
               rich == ToDecimals(Int64(Total(At(a)))) >= Order[r].minTransfer
               read == [call[r] EXCEPT !.left = Tail(@),
                                       !.chosen = IF rich THEN Append(@, a) ELSE @]
           IN  Enter(r, CASE F # {} -> Idle
                          [] F = {} /\ read.left # <<>> -> read
                          [] OTHER -> IF read.chosen = <<>> THEN Idle
                                      ELSE [read EXCEPT !.at = "unspent",
                                                        !.left = read.chosen])
    BY <1>3 DEF ReadBalance
  <2> DEFINE a == Head(call[r].left)
             rich == ToDecimals(Int64(Total(At(a)))) >= Order[r].minTransfer
             read == [call[r] EXCEPT !.left = Tail(@),
                                     !.chosen = IF rich THEN Append(@, a) ELSE @]
             on == [read EXCEPT !.at = "unspent", !.left = read.chosen]
  <2>3. IsCall(read) /\ read.at = "balance"
    BY <2>1 DEF IsCall
  <2>4. Enter(r, Idle) \/ Enter(r, read) \/ Enter(r, on)
    BY <2>2
  <2> HIDE DEF read
  <2>5. IsCall(on) /\ on.at = "unspent"
    BY <2>3 DEF IsCall
  <2> HIDE DEF on
  <2> QED BY <1>a, <1>b, <2>1, <2>3, <2>4, <2>5
<1>4. CASE ReadUnspent(r)
  <2>1. call[r].at = "unspent" /\ ~raw[r].isCompleted /\ UNCHANGED raw
    BY <1>4 DEF ReadUnspent, SignedInv
  <2>2. PICK F \in SUBSET {"rpc"} :
           LET coins == call[r].coins \o SetToSeq(At(Head(call[r].left)))
               left  == Tail(call[r].left)
           IN  Enter(r, IF F # {} THEN Idle
                        ELSE [call[r] EXCEPT
                                !.coins = coins, !.left = left,
                                !.at = IF left = <<>> THEN "build" ELSE @])
    BY <1>4 DEF ReadUnspent
  <2> DEFINE coins == call[r].coins \o SetToSeq(At(Head(call[r].left)))
             left == Tail(call[r].left)
             on == [call[r] EXCEPT !.coins = coins, !.left = left,
                                   !.at = IF left = <<>> THEN "build" ELSE @]
  <2>3. Enter(r, Idle) \/ Enter(r, on)
    BY <2>2
  <2>4. IsCall(on) /\ on.at \in {"unspent", "build"}
    BY <2>1 DEF IsCall
  <2> HIDE DEF on
  <2> QED BY <1>a, <1>b, <2>1, <2>3, <2>4
\* The call builds from w, which is not verified.
<1>f. ASSUME NEW w, NEW o, NEW inputs, NEW outs, NEW changeAddress,
             Build(r, w, o, inputs, outs, changeAddress), Enter(r, Idle),
             IsRaw(w), OwnKeys(w.signatures), ~w.isCompleted
      PROVE  Goal
  <2>1. PICK F, unknown :
           raw' = [raw EXCEPT ![r] =
                     Built(w, o, inputs, outs, changeAddress, unknown, F)]
    BY <1>f DEF Build
  <2> DEFINE new == Built(w, o, inputs, outs, changeAddress, unknown, F)
  <2>2. IsRaw(new) /\ OwnKeys(new.signatures) /\ new.isCompleted = w.isCompleted
    BY <1>f, BuiltShape
  <2> HIDE DEF new
  <2> QED BY <1>c, <1>d, <1>f, <2>1, <2>2 DEF new
<1>5. CASE BuildPayment(r)
  <2>1. ~raw[r].isCompleted /\ Enter(r, Idle)
    BY <1>5 DEF BuildPayment, SignedInv
  <2>2. CASE UNCHANGED raw
    BY <1>a, <1>b, <2>1, <2>2
  <2>3. CASE \E s : Build(r, FeeRounded(raw[r]), Asked(r), s, PayOutputs(Asked(r), s), s[1].address)
    <3> PICK w : w = FeeRounded(raw[r])
      OBVIOUS
    <3>1. IsRaw(w) /\ OwnKeys(w.signatures) /\ ~w.isCompleted
      BY <2>1, RoundedShape DEF SignedInv
    <3> QED BY <1>f, <2>1, <2>3, <3>1
  <2> QED BY <1>5, <2>2, <2>3 DEF BuildPayment
<1>6. CASE BuildSummary(r)
  <2>1. Enter(r, Idle)
    BY <1>6 DEF BuildSummary
  <2>2. CASE raw' = [raw EXCEPT ![r] = NewRaw(r)]
    BY <1>c, <1>d, <1>e, <2>1, <2>2
  <2>3. CASE \E s, outs : Build(r, NewRaw(r), Order[r], s, outs, NoAddress)
    BY <1>e, <1>f, <2>1, <2>3
  <2> QED BY <1>6, <2>2, <2>3 DEF BuildSummary
<1>7. CASE Sign(r)
  <2> DEFINE sigs == raw[r].signatures
  <2>1. PICK n : raw' = [raw EXCEPT ![r].signatures =
                           [i \in DOMAIN sigs |->
                              [sigs[i] EXCEPT !.signed = @ \/ i <= n]]]
    BY <1>7 DEF Sign
  <2> DEFINE made == [i \in DOMAIN sigs |-> [sigs[i] EXCEPT !.signed = @ \/ i <= n]]
             new == [raw[r] EXCEPT !.signatures = made]
  <2>2. IsSignatures(sigs) /\ OwnKeys(sigs)
    BY DEF IsRaw, SignedInv
  <2>3. \A i \in DOMAIN sigs :
           /\ {"address", "message", "signed"} \subseteq DOMAIN made[i]
           /\ made[i].address = sigs[i].address
           /\ made[i].message = sigs[i].message
           /\ sigs[i].signed => made[i].signed
    BY <2>2 DEF IsSignatures
  <2>4. IsSignatures(made) /\ OwnKeys(made)
    BY <2>2, <2>3 DEF IsSignatures, OwnKeys
  <2>5. \A tx : Verifies(tx, sigs) => Verifies(tx, made)
    <3>1. DOMAIN made = DOMAIN sigs
      OBVIOUS
    <3>2. made = <<>> => sigs = <<>>
      <4>1. DOMAIN <<>> = {}
        OBVIOUS
      <4>2. made = <<>> => DOMAIN sigs = {}
        BY <3>1, <4>1
      <4> QED BY <2>2, <4>2, EmptyFunction DEF IsSignatures
    <3> HIDE DEF made
    <3> QED BY <2>3, <3>1, <3>2 DEF Verifies
  <2>6. raw' = [raw EXCEPT ![r] = new]
    BY <2>1
  <2> HIDE DEF made
  <2>7. /\ IsRaw(new) /\ new.tx = raw[r].tx /\ new.signatures = made
        /\ new.isCompleted = raw[r].isCompleted
    BY <2>4 DEF IsRaw
  <2>8. new.isCompleted => Completed(new)
    BY <2>5, <2>7 DEF SignedInv, Completed
  <2>9. UNCHANGED call /\ call[r] = Idle
    BY <1>7 DEF Sign
  <2> HIDE DEF new
  <2> QED BY <1>c, <1>d, <2>4, <2>6, <2>7, <2>8, <2>9
<1>8. CASE Verify(r)
  <2> DEFINE w == raw[r]
             pass == [w EXCEPT !.isCompleted = TRUE, !.tx = Combined(w.tx, w.signatures)]
             fail == [w EXCEPT !.isCompleted = FALSE]
  <2>1. UNCHANGED call /\ call[r] = Idle
    BY <1>8 DEF Verify
  <2>2. IsRaw(w) /\ OwnKeys(w.signatures)
    BY DEF SignedInv
  <2>3. CASE Verifies(w.tx, w.signatures)
    <3>1. IsTx(Combined(w.tx, w.signatures))
      BY <2>2 DEF IsRaw, IsTx, Combined
    <3>2. /\ IsRaw(pass) /\ pass.signatures = w.signatures
          /\ pass.tx = Combined(w.tx, w.signatures)
      BY <2>2, <3>1 DEF IsRaw
    <3>3. Completed(pass)
      BY <2>2, <2>3, <3>2, VerifiedIsSigned DEF Completed, IsRaw
    <3>4. raw' = [raw EXCEPT ![r] = pass]
      BY <1>8, <2>3 DEF Verify
    <3> HIDE DEF pass
    <3> QED BY <1>c, <1>d, <2>1, <2>2, <3>2, <3>3, <3>4
  <2>4. CASE ~Verifies(w.tx, w.signatures)
    <3>1. IsRaw(fail) /\ fail.signatures = w.signatures /\ ~fail.isCompleted
      BY <2>2 DEF IsRaw
    <3>2. raw' = [raw EXCEPT ![r] = fail]
      BY <1>8, <2>4 DEF Verify
    <3> HIDE DEF fail
    <3> QED BY <1>c, <1>d, <2>1, <2>2, <3>1, <3>2
  <2> QED BY <2>3, <2>4
<1>9. CASE Submit(r)
  <2> DEFINE c == [Idle EXCEPT !.at = "validate"]
  <2>1. IsCall(c) /\ c.at = "validate"
    BY DEF IsCall, Idle
  <2>2. Enter(r, c) /\ UNCHANGED raw /\ raw[r].isCompleted
    BY <1>9 DEF Submit
  <2> HIDE DEF c
  <2> QED BY <1>a, <2>1, <2>2
<1>10. CASE Validate(r)
  <2> DEFINE c == [Idle EXCEPT !.at = "publish"]
  <2>1. IsCall(c) /\ c.at = "publish"
    BY DEF IsCall, Idle
  <2>2. (Enter(r, c) \/ Enter(r, Idle)) /\ UNCHANGED raw /\ raw[r].isCompleted
    BY <1>10 DEF Validate, SignedInv
  <2> HIDE DEF c
  <2> QED BY <1>a, <1>b, <2>1, <2>2
<1>11. CASE Publish(r)
  <2> DEFINE new == [raw[r] EXCEPT !.isSubmit = TRUE]
  <2>1. Enter(r, Idle) /\ raw' = [raw EXCEPT ![r] = new]
    BY <1>11 DEF Publish
  <2>2. /\ IsRaw(new) /\ new.signatures = raw[r].signatures
        /\ new.tx = raw[r].tx /\ new.isCompleted = raw[r].isCompleted
    BY DEF IsRaw
  <2> HIDE DEF new
  <2> QED BY <1>c, <1>d, <2>1, <2>2 DEF SignedInv, Completed
<1>12. CASE PublishFails(r)
  <2>1. Enter(r, Idle) /\ UNCHANGED raw
    BY <1>12 DEF PublishFails
  <2> QED BY <1>a, <1>b, <2>1
<1> QED
  BY <1>1, <1>2, <1>3, <1>4, <1>5, <1>6, <1>7, <1>8, <1>9, <1>10, <1>11, <1>12 DEF Step

LEMMA InitSigned == Init => ShapeInv /\ SignedInv
<1> SUFFICES ASSUME Init PROVE ShapeInv /\ SignedInv
  OBVIOUS
<1>1. /\ raw = [r \in Request |-> NewRaw(r)]
      /\ call = [r \in Request |-> Idle]
  BY DEF Init
<1>2. \A r \in Request : IsRaw(NewRaw(r)) /\ OwnKeys(NewRaw(r).signatures)
                          /\ ~NewRaw(r).isCompleted
  BY DEF IsRaw, NewRaw, IsTx, NoTx, IsSignatures, OwnKeys
<1>3. IsCall(Idle) /\ Idle.at = "idle"
  BY DEF IsCall, Idle
<1>4. ShapeInv
  BY <1>1, <1>2, <1>3 DEF ShapeInv
<1>5. SignedInv
  BY <1>1, <1>2, <1>3 DEF SignedInv
<1> QED BY <1>4, <1>5

LEMMA NextSigned ==
    ShapeInv /\ SignedInv /\ ~RecreateCompleted /\ [Next]_vars => ShapeInv' /\ SignedInv'
<1> SUFFICES ASSUME ShapeInv, SignedInv, ~RecreateCompleted, [Next]_vars
             PROVE  ShapeInv' /\ SignedInv'
  OBVIOUS
<1>1. ASSUME NEW r \in Request, Step(r) PROVE ShapeInv' /\ SignedInv'
  BY <1>1, OwnStep DEF ShapeInv, SignedInv
<1>2. ASSUME UNCHANGED vars PROVE ShapeInv' /\ SignedInv'
  BY <1>2 DEF vars, ShapeInv, SignedInv
<1> QED BY <1>1, <1>2 DEF Next

\* Whatever fails and in whatever order clients call, everything handed to the
\* node carries the signatures of the owners of its inputs.
THEOREM SubmittedIsSigned ==
    ASSUME ~RecreateCompleted
    PROVE  Spec => []SentSigned
<1>1. ShapeInv /\ SignedInv => SentSigned
  BY DEF SignedInv, SentSigned, Completed
<1> QED BY <1>1, InitSigned, NextSigned, PTL DEF Spec

------------------------------------------------------------------------------
\* What the node took: requests that stay verified, with inputs that are gone
\* for good because new coins name a later transaction.
OnceInv ==
    /\ \E S : published \in Seq(S)
    /\ \A c \in unspent : c.tx \in 0..Len(published)
    /\ \A n \in DOMAIN published :
          LET r == published[n].request
              inputs == published[n].tx.inputs
          IN  /\ r \in Request
              /\ raw[r].isCompleted
              /\ raw[r].tx.inputs = inputs
              /\ \A c \in ToSet(inputs) : c \notin unspent /\ c.tx \in 0..Len(published)
    /\ PaidOnce

\* A verified transaction keeps its inputs: nothing replaces RawHex, and
\* signing or verifying again changes no more than its scripts.
LEMMA VerifiedStays ==
    ASSUME ShapeInv, SignedInv, ~RecreateCompleted,
           NEW r \in Request, Step(r), raw[r].isCompleted
    PROVE  raw'[r].isCompleted /\ raw'[r].tx.inputs = raw[r].tx.inputs
<1> DEFINE w == raw[r]
           sigs == w.signatures
<1>a. IsRaw(w) /\ IsTx(w.tx) /\ Verifies(w.tx, sigs)
  BY DEF ShapeInv, IsRaw, SignedInv, Completed
<1>1. CASE UNCHANGED raw
  BY <1>1
<1>2. CASE BuildPayment(r) \/ BuildSummary(r)
  BY <1>2 DEF BuildPayment, BuildSummary, SignedInv
<1>3. CASE Sign(r)
  <2>1. \E made : raw' = [raw EXCEPT ![r] = [w EXCEPT !.signatures = made]]
    BY <1>3 DEF Sign
  <2> QED BY <1>a, <2>1 DEF ShapeInv, IsRaw
<1>4. CASE Verify(r)
  <2> DEFINE tx == Combined(w.tx, sigs)
  <2>1. tx.inputs = w.tx.inputs
    BY <1>a DEF Combined, IsTx
  <2>2. raw' = [raw EXCEPT ![r] = [w EXCEPT !.isCompleted = TRUE, !.tx = tx]]
    BY <1>4, <1>a DEF Verify
  <2> HIDE DEF tx
  <2> QED BY <1>a, <2>1, <2>2 DEF ShapeInv, IsRaw
<1>5. CASE Publish(r)
  <2>1. raw' = [raw EXCEPT ![r] = [w EXCEPT !.isSubmit = TRUE]]
    BY <1>5 DEF Publish
  <2> QED BY <1>a, <2>1 DEF ShapeInv, IsRaw
<1> QED
  BY <1>1, <1>2, <1>3, <1>4, <1>5
  DEF Step, Create, Summarize, ReadBalance, ReadUnspent, Submit, Validate, PublishFails

\* The node takes nothing, or what the request in "publish" has.
LEMMA TakenOrSame ==
    ASSUME NEW r \in Request, Step(r)
    PROVE  UNCHANGED <<unspent, published>> \/ (call[r].at = "publish" /\ Takes(r))
BY DEF Step, Create, Summarize, ReadBalance, ReadUnspent, BuildPayment, BuildSummary,
       Sign, Verify, Submit, Validate, Publish, PublishFails

LEMMA InitOnce == Init => OnceInv
<1> SUFFICES ASSUME Init PROVE OnceInv
  OBVIOUS
<1>1. published = <<>> /\ unspent = Faucet
  BY DEF Init
<1>2. published \in Seq({}) /\ Len(published) = 0 /\ DOMAIN published = {}
  BY <1>1
<1>3. \A c \in unspent : c.tx = 0
  BY <1>1, OrderAssumption
<1> QED BY <1>2, <1>3 DEF OnceInv, PaidOnce

LEMMA NextOnce ==
    /\ ShapeInv /\ SignedInv /\ OnceInv
    /\ ~RecreateCompleted /\ [Next]_vars
    => OnceInv'
<1> SUFFICES ASSUME ShapeInv, SignedInv, OnceInv, ~RecreateCompleted, [Next]_vars
             PROVE  OnceInv'
  OBVIOUS
<1>1. CASE UNCHANGED vars
  BY <1>1 DEF vars, OnceInv, PaidOnce
<1>2. ASSUME NEW r \in Request, Step(r) PROVE OnceInv'
  <2>1. \A q \in Request : raw[q].isCompleted =>
           raw'[q].isCompleted /\ raw'[q].tx.inputs = raw[q].tx.inputs
    BY <1>2, OwnStep, VerifiedStays
  <2>2. CASE UNCHANGED <<unspent, published>>
    BY <2>1, <2>2 DEF OnceInv, PaidOnce
  <2>3. CASE call[r].at = "publish" /\ Takes(r)
    <3> DEFINE tx == raw[r].tx
               m == Len(published)
               entry == [tx |-> tx, request |-> r]
    <3>1. PICK S : published \in Seq(S)
      BY DEF OnceInv
    <3>2. /\ published' = Append(published, entry)
          /\ ToSet(tx.inputs) \subseteq unspent
          /\ \A c \in unspent' : c \in unspent \ ToSet(tx.inputs) \/ c.tx = m + 1
      BY <2>3 DEF Takes, NodeAccepts
    <3>3. /\ m \in Nat
          /\ published' \in Seq(S \cup {entry}) /\ Len(published') = m + 1
          /\ DOMAIN published = 1..m /\ DOMAIN published' = 1..(m + 1)
          /\ \A n \in 1..m : published'[n] = published[n]
          /\ published'[m + 1] = entry
      BY <3>1, <3>2
    <3>4. raw[r].isCompleted /\ Verifies(tx, raw[r].signatures)
      BY <2>3 DEF SignedInv, Completed
    <3>5. PICK c0 : c0 \in ToSet(tx.inputs)
      <4>1. DOMAIN raw[r].signatures # {}
        BY <3>4, EmptyFunction DEF ShapeInv, IsRaw, IsSignatures, Verifies
      <4> QED BY <3>4, <4>1 DEF Verifies, ToSet
    <3>6. \A n \in 1..m : published[n].request # r
      BY <3>2, <3>3, <3>5 DEF OnceInv
    <3>7. entry.request = r /\ entry.tx = tx
      OBVIOUS
    <3> HIDE DEF entry, tx, m
    <3>8. \A c \in unspent : c.tx \in 0..m
      BY DEF OnceInv, m
    <3>9. \A c \in unspent' : c.tx \in 0..(m + 1)
      BY <3>2, <3>3, <3>8
    <3>10. \A n \in 1..m :
              LET q == published[n].request
                  inputs == published[n].tx.inputs
              IN  /\ q \in Request
                  /\ raw'[q].isCompleted
                  /\ raw'[q].tx.inputs = inputs
                  /\ \A c \in ToSet(inputs) : c \notin unspent /\ c.tx \in 0..m
      BY <2>1, <3>3 DEF OnceInv, m
    <3>11. \A n \in 1..m : \A c \in ToSet(published[n].tx.inputs) :
              c \notin unspent' /\ c.tx \in 0..(m + 1)
      BY <3>2, <3>3, <3>10
    <3>12. /\ raw'[r].isCompleted /\ raw'[r].tx.inputs = tx.inputs
           /\ \A c \in ToSet(tx.inputs) : c \notin unspent' /\ c.tx \in 0..(m + 1)
      BY <2>1, <3>2, <3>3, <3>4, <3>8 DEF tx
    <3>13. PaidOnce'
      BY <3>3, <3>6, <3>7 DEF OnceInv, PaidOnce
    <3>14. \A n \in 1..(m + 1) : n = m + 1 \/ n \in 1..m
      BY <3>3
    <3> QED BY <3>3, <3>7, <3>9, <3>10, <3>11, <3>12, <3>13, <3>14 DEF OnceInv
  <2> QED BY <1>2, <2>2, <2>3, TakenOrSame
<1> QED BY <1>1, <1>2 DEF Next

\* However often answers are lost and clients submit again, no request takes
\* effect twice: what it spent is gone, and it can spend nothing else.
THEOREM SubmittedOnce ==
    ASSUME ~RecreateCompleted
    PROVE  Spec => []PaidOnce
<1>1. OnceInv => PaidOnce
  BY DEF OnceInv
<1> QED BY <1>1, InitSigned, InitOnce, NextSigned, NextOnce, PTL DEF Spec
==============================================================================
