------------------------------- MODULE TxBuild -------------------------------
(***************************************************************************)
(* The values the transaction decoder computes: coin selection, outputs,   *)
(* crypto.NewTransaction, the messages to sign, the combination of the     *)
(* signatures (txsigner) and what the scanner extracts of a transaction.   *)
(*                                                                         *)
(* An amount in decimals is an integer number of 1/Scale of the coin's     *)
(* smallest unit: requests may carry more digits than the chain.  What     *)
(* tells the outputs of a transaction apart is their kind and address: the *)
(* index, which follows the iteration of a map, is left out.               *)
(***************************************************************************)
EXTENDS Integers, Sequences, SequencesExt

CONSTANTS
    Account,    \* the accounts of the wallets
    Address,    \* the addresses, of the accounts and of others
    NoAddress,  \* the empty address
    OwnerOf,    \* OwnerOf[a]: the account of an address, or a stranger
    Scale,      \* parts of the smallest unit a request can name
    UintMod     \* 2^64 in the code

ASSUME BuildAssumption ==
    /\ NoAddress \notin Address
    /\ DOMAIN OwnerOf = Address
    /\ Scale \in Nat \ {0}
    /\ UintMod \in Nat \ {0}

Uint   == 0..(UintMod - 1)
Output == [kind : {"commission", "to", "change"},
           address : Address \cup {NoAddress}, value : Uint]
Coin   == [tx : Nat, kind : {"to", "change"}, address : Address, value : Uint]

Total(S) == MapThenSumSet(LAMBDA o : o.value, S)
Sum(f)   == MapThenSumSet(LAMBDA x : f[x], DOMAIN f)

------------------------------------------------------------------------------
(* Amounts. *)

ToDecimals(v) == v * Scale

\* int64(v) of a uint64: the upper half of the values turns negative.
Int64(v) == IF 2 * v < UintMod THEN v ELSE v - UintMod

\* The values of the coins or outputs in S, each read through int64.
Amounts(S) == MapThenSumSet(LAMBDA o : Int64(o.value), S)

\* Towards 0, as IntPart.
Truncate(d) == IF d >= 0 THEN d \div Scale ELSE -((-d) \div Scale)

\* Slip: the sign is kept.
SignedInt(d) == Truncate(d)

\* uint64(d.IntPart()) of an amount shifted to units.
UintPart(d) == Truncate(d) % UintMod

\* StringFixed(decimals): half a unit is rounded away from 0.
StringFixed(d) == IF d >= 0 THEN (2 * d + Scale) \div (2 * Scale)
                            ELSE -((Scale - 2 * d) \div (2 * Scale))

------------------------------------------------------------------------------
(* Inputs and outputs. *)

\* appendOutput: an address gets all its amounts in one output.
AppendOutput(outs, a, d) ==
    [x \in DOMAIN outs \cup {a} |->
       IF x # a THEN outs[x] ELSE IF a \in DOMAIN outs THEN outs[a] + d ELSE d]

\* The coins the loop over the sorted coins may pick to pay need: the smallest
\* ones, at least one, no more than needed.  sort.Slice leaves equal values in
\* any order.
Affords(coins, need) ==
    LET Enough(S) == ToDecimals(Amounts(S)) >= need
        Smallest(S) == \A c \in S, d \in coins \ S : c.value <= d.value
        Rises(s) == \A i \in 1..(Len(s) - 1) : s[i].value <= s[i + 1].value
        Stops(s) == \A n \in 1..(Len(s) - 1) : ~Enough(ToSet(SubSeq(s, 1, n)))
    IN  UNION {{s \in SetToSeqs(S) : Rises(s) /\ Stops(s)} :
                 S \in {T \in (SUBSET coins) \ {{}} : Smallest(T) /\ Enough(T)}}

\* Slip: the change goes to a receiver.
PayChangeToReceiver(r, inputs) ==
    LET change == ToDecimals(Amounts(ToSet(inputs))) - Sum(r.to) - r.fee
    IN  IF change > 0 THEN AppendOutput(r.to, CHOOSE a \in DOMAIN r.to : TRUE, change)
                      ELSE r.to

\* CreateVLXRawTransaction: the payments of request r and the change.
PayOutputs(r, inputs) ==
    LET change == ToDecimals(Amounts(ToSet(inputs))) - Sum(r.to) - r.fee
    IN  IF change > 0 THEN AppendOutput(r.to, inputs[1].address, change)
                      ELSE r.to

\* CreateVLXSummaryRawTransaction: what the chosen addresses keep, and the
\* rest, less the fee, to the summary address.
SummaryOutputs(r, chosen, inputs) ==
    LET kept == IF r.retained > 0
                THEN [a \in ToSet(chosen) |-> r.retained] ELSE <<>>
        rest == ToDecimals(Amounts(ToSet(inputs)))
                - r.retained * Cardinality(DOMAIN kept) - r.fee
    IN  AppendOutput(kept, r.summaryAddress, rest)

\* Slip: what is left over always goes to an output without an address.
NewTransactionNoChange(inputs, outs, changeAddress, commission) ==
    LET tos == {[kind |-> "to", address |-> a, value |-> outs[a]] :
                  a \in DOMAIN outs}
        change == (Total(ToSet(inputs)) - Total(tos) - commission) % UintMod
    IN  [inputs  |-> inputs,
         outputs |-> {[kind |-> "commission", address |-> NoAddress,
                       value |-> commission]} \cup tos \cup
                     {o \in {[kind |-> "change", address |-> NoAddress,
                              value |-> change]} : o.value > 0},
         scripts |-> <<>>]

\* crypto.NewTransaction.  The change is a uint64: it is never negative.
NewTransaction(inputs, outs, changeAddress, commission) ==
    LET tos == {[kind |-> "to", address |-> a, value |-> outs[a]] :
                  a \in DOMAIN outs}
        change == (Total(ToSet(inputs)) - Total(tos) - commission) % UintMod
    IN  [inputs  |-> inputs,
         outputs |-> {[kind |-> "commission", address |-> NoAddress,
                       value |-> commission]} \cup tos \cup
                     {o \in {[kind |-> "change", address |-> changeAddress,
                              value |-> change]} : o.value > 0},
         scripts |-> <<>>]

\* Slip: what stays in the account counts as sent.
AmountOfAll(account, outs, unknown, fee) ==
    StringFixed(-(Sum(outs) + ToDecimals(StringFixed(fee))))

\* rawTx.TxAmount, in units: what leaves the account.  The addresses in unknown
\* are taken for those of strangers: their lookup failed.
TxAmount(account, outs, unknown, fee) ==
    LET leaving == {a \in DOMAIN outs : OwnerOf[a] # account \/ a \in unknown}
    IN  StringFixed(-(MapThenSumSet(LAMBDA a : outs[a], leaving)
                      + ToDecimals(StringFixed(fee))))

------------------------------------------------------------------------------
(* Signatures.  A signature is what its key and its message are: it verifies *)
(* under the key of that address and for that message, and for no other.     *)

\* MsgForSign: what the owner of an input signs.
Message(tx, coin) == [spends |-> coin, pays |-> tx.outputs]

\* The KeySignatures of a transaction, in the order of its inputs.
KeySignatures(tx) ==
    [i \in DOMAIN tx.inputs |->
       [address |-> tx.inputs[i].address,
        message |-> Message(tx, tx.inputs[i]), signed |-> FALSE]]

\* Slip: any signature will do.
AnySignature(tx, sigs) ==
    /\ sigs # <<>>
    /\ DOMAIN sigs = DOMAIN tx.inputs
    /\ \A i \in DOMAIN sigs : sigs[i].signed

\* VerifyAndCombineTransaction, the check: signature i is for input i.
Verifies(tx, sigs) ==
    /\ sigs # <<>>
    /\ DOMAIN sigs = DOMAIN tx.inputs
    /\ \A i \in DOMAIN sigs :
          sigs[i].signed /\ sigs[i].message = Message(tx, tx.inputs[i])

\* VerifyAndCombineTransaction, the result.
Combined(tx, sigs) ==
    [tx EXCEPT !.scripts = [i \in DOMAIN sigs |->
       [key |-> sigs[i].address, message |-> sigs[i].message]]]

\* Every input carries its owner's signature for these inputs and outputs.
Signed(tx) ==
    tx.scripts = [i \in DOMAIN tx.inputs |->
       [key |-> tx.inputs[i].address, message |-> Message(tx, tx.inputs[i])]]

------------------------------------------------------------------------------
(* What the scanner extracts of a transaction (extractTransaction). *)

ExtractTxInput(tx, key) == {c \in ToSet(tx.inputs) : OwnerOf[c.address] = key}

\* Slip: the change is not extracted.
ExtractOnlyTo(tx, key) ==
    {o \in tx.outputs :
       o.kind = "to" /\ o.address # NoAddress /\ OwnerOf[o.address] = key}

ExtractTxOutput(tx, key) ==
    {o \in tx.outputs : o.address # NoAddress /\ OwnerOf[o.address] = key}

\* The data of each source key that takes part.  An output without an address
\* is not received by anyone: it is the fee.
ExtractTransaction(tx) ==
    LET keys == {k \in Account : ExtractTxInput(tx, k) # {} \/ ExtractTxOutput(tx, k) # {}}
    IN  [k \in keys |->
           [inputs |-> ExtractTxInput(tx, k), outputs |-> ExtractTxOutput(tx, k),
            fees |-> Amounts(ToSet(tx.inputs))
                     - Amounts({o \in tx.outputs : o.address # NoAddress})]]
==============================================================================
