------------------------------ MODULE TxDecoder ------------------------------
(***************************************************************************)
(* TransactionDecoder (velas/tx_decode.go): the life of a raw transaction. *)
(* A client asks for a payment or for a summary of an account, then calls  *)
(* Create, Sign, Verify and Submit on the raw transaction, in any order    *)
(* and as often as it likes, one call at a time for each raw transaction.  *)
(* A call that talks to the node makes one request a step: between two of  *)
(* them the other raw transactions go on, and may spend the same coins.    *)
(*                                                                         *)
(* The node is external: it keeps the unspent coins and refuses a          *)
(* transaction that spends others, is not signed or does not balance.      *)
(***************************************************************************)
EXTENDS TxBuild

CONSTANTS
    Request,           \* the requests, each with its raw transaction
    Order,             \* Order[r]: what request r asks for
    Book,              \* Book[k]: the addresses of account k, in a sequence
    Faucet,            \* the coins the node has at first
    RecreateCompleted, \* may a client create a verified transaction again?
    Budget             \* bound: how often each fault strikes

\* An RPC that fails or whose answer is lost, wrapper.GetAddress failing, the
\* lookup of an address by wrapper.GetAddressList failing, a key that cannot
\* sign; and how often clients call Create.
Fault == {"rpc", "address", "lookup", "key", "create"}

IsPayment(r) == Order[r].kind = "payment"

ASSUME OrderAssumption ==
    /\ Faucet \subseteq Coin /\ IsFiniteSet(Faucet)
    /\ \A c \in Faucet : c.tx = 0
    /\ RecreateCompleted \in BOOLEAN
    /\ Budget \in [Fault -> Nat]
    /\ \A k \in Account : /\ Book[k] \in Seq(Address)
                          /\ Book[k] # <<>>
                          /\ ToSet(Book[k]) = {a \in Address : OwnerOf[a] = k}
    /\ \A r \in Request :
          /\ Order[r].account \in Account
          /\ Order[r].fee \in Nat
          /\ IsPayment(r) => /\ DOMAIN Order[r].to \in (SUBSET Address) \ {{}}
                             /\ IsFiniteSet(DOMAIN Order[r].to)
                             /\ \A a \in DOMAIN Order[r].to : Order[r].to[a] \in Nat
          /\ ~IsPayment(r) => /\ Order[r].summaryAddress \in Address
                              /\ Order[r].retained \in Nat
                              /\ Order[r].minTransfer \in Nat

VARIABLES
    unspent,    \* external: the node's unspent coins
    published,  \* external: the transactions the node took, with the request
    raw,        \* raw[r]: the RawTransaction of request r
    call,       \* call[r]: the call in progress, with its local variables
    records,    \* the Transactions SubmitRawTransaction returned
    spent       \* history: faults so far

vars == <<unspent, published, raw, call, records, spent>>

NoTx == [inputs |-> <<>>, outputs |-> {}, scripts |-> <<>>]

\* The RawTransaction of request r before its first Create.
NewRaw(r) == [tx |-> NoTx, signatures |-> <<>>, isCompleted |-> FALSE,
              isSubmit |-> FALSE, txAmount |-> 0, feeRate |-> Order[r].fee]

Idle == [at |-> "idle", left |-> <<>>, chosen |-> <<>>, coins |-> <<>>]

Init ==
    /\ unspent = Faucet
    /\ published = <<>>
    /\ raw = [r \in Request |-> NewRaw(r)]
    /\ call = [r \in Request |-> Idle]
    /\ records = {}
    /\ spent = [f \in Fault |-> 0]

------------------------------------------------------------------------------
\* The faults F strike this step.
Suffer(F) ==
    /\ \A f \in F : spent[f] < Budget[f]
    /\ spent' = [f \in Fault |-> IF f \in F THEN spent[f] + 1 ELSE spent[f]]

At(a)  == {c \in unspent : c.address = a}
Held(h) == Total({c \in unspent : OwnerOf[c.address] = h})

Enter(r, c) == call' = [call EXCEPT ![r] = c]

\* CreateRawTransaction begins: the addresses of the account.
Create(r) ==
    /\ IsPayment(r)
    /\ call[r] = Idle
    /\ RecreateCompleted \/ ~raw[r].isCompleted
    /\ Suffer({"create"})
    /\ Enter(r, [Idle EXCEPT !.at = "unspent", !.left = Book[Order[r].account]])
    /\ UNCHANGED <<unspent, published, raw, records>>

\* CreateSummaryRawTransaction begins.
Summarize(r) ==
    /\ ~IsPayment(r)
    /\ call[r] = Idle
    /\ RecreateCompleted \/ ~raw[r].isCompleted
    /\ Order[r].minTransfer >= Order[r].retained
    /\ Suffer({"create"})
    /\ Enter(r, [Idle EXCEPT !.at = "balance", !.left = Book[Order[r].account]])
    /\ UNCHANGED <<unspent, published, raw, records>>

\* Wallet.GetBalance of the next address, in GetBalanceByAddress; after the
\* last one the summary goes on with the addresses that have enough.
ReadBalance(r) ==
    /\ call[r].at = "balance"
    /\ \E F \in SUBSET {"rpc"} :
          LET a == Head(call[r].left)
              rich == ToDecimals(Int64(Total(At(a)))) >= Order[r].minTransfer
              read == [call[r] EXCEPT !.left = Tail(@),
                                      !.chosen = IF rich THEN Append(@, a) ELSE @]
          IN  /\ Suffer(F)
              /\ Enter(r, CASE F # {} -> Idle
                            [] F = {} /\ read.left # <<>> -> read
                            [] OTHER -> IF read.chosen = <<>> THEN Idle
                                        ELSE [read EXCEPT !.at = "unspent",
                                                          !.left = read.chosen])
    /\ UNCHANGED <<unspent, published, raw, records>>

\* Wallet.GetUnspent of the next address.
ReadUnspent(r) ==
    /\ call[r].at = "unspent"
    /\ \E F \in SUBSET {"rpc"} :
          LET coins == call[r].coins \o SetToSeq(At(Head(call[r].left)))
              left  == Tail(call[r].left)
          IN  /\ Suffer(F)
              /\ Enter(r, IF F # {} THEN Idle
                          ELSE [call[r] EXCEPT
                                  !.coins = coins, !.left = left,
                                  !.at = IF left = <<>> THEN "build" ELSE @])
    /\ UNCHANGED <<unspent, published, raw, records>>

------------------------------------------------------------------------------
\* createVLXRawTransaction on the raw transaction w.  RawHex is set first: an
\* error of GetAddress leaves the signatures, IsCompleted and TxAmount of before.
Built(w, o, inputs, outs, changeAddress, unknown, F) ==
    LET tx == NewTransaction(inputs, [a \in DOMAIN outs |-> UintPart(outs[a])],
                             changeAddress, UintPart(o.fee))
    IN  IF "address" \in F THEN [w EXCEPT !.tx = tx]
        ELSE [w EXCEPT !.tx = tx, !.signatures = KeySignatures(tx),
                       !.txAmount = TxAmount(o.account, outs, unknown, o.fee)]

\* The call of Create builds w, for what o asks, with these inputs and outputs.
Build(r, w, o, inputs, outs, changeAddress) ==
    \E F \in SUBSET {"address", "lookup"}, unknown \in SUBSET DOMAIN outs :
       /\ "lookup" \in F <=> unknown # {}
       /\ Suffer(F)
       /\ raw' = [raw EXCEPT ![r] =
                    Built(w, o, inputs, outs, changeAddress, unknown, F)]

\* What the RawTransaction of payment r asks for now.
Asked(r) == [account |-> Order[r].account, to |-> Order[r].to, fee |-> raw[r].feeRate]

\* rawTx.FeeRate = fixFees.StringFixed(decimals)
FeeRounded(w) == [w EXCEPT !.feeRate = ToDecimals(StringFixed(@))]

\* CreateVLXRawTransaction once the coins are known.  The fee is the FeeRate of
\* the RawTransaction, and its decimals beyond the coin's are rounded away there:
\* a payment that is created again pays the rounded fee.
BuildPayment(r) ==
    LET o == Asked(r)
        afford == Affords(ToSet(call[r].coins), Sum(o.to) + o.fee)
    IN  /\ call[r].at = "build"
        /\ IsPayment(r)
        /\ Enter(r, Idle)
        /\ \/ afford = {} /\ UNCHANGED <<raw, spent>>
           \/ \E s \in afford :
                 Build(r, FeeRounded(raw[r]), o, s, PayOutputs(o, s), s[1].address)
        /\ UNCHANGED <<unspent, published, records>>

\* CreateVLXSummaryRawTransaction once the coins are known: all of them, in a
\* new RawTransaction.
BuildSummary(r) ==
    LET s == call[r].coins
    IN  /\ call[r].at = "build"
        /\ ~IsPayment(r)
        /\ Enter(r, Idle)
        /\ \/ s = <<>> /\ raw' = [raw EXCEPT ![r] = NewRaw(r)] /\ UNCHANGED spent
           \/ s # <<>> /\ Build(r, NewRaw(r), Order[r], s,
                                SummaryOutputs(Order[r], call[r].chosen, s), NoAddress)
        /\ UNCHANGED <<unspent, published, records>>

\* SignRawTransaction: the signatures are made one by one, in place; an error
\* leaves those made before it.  A path that openwallet cannot derive, whose
\* error the code overwrites, is outside the model: the wallet made the paths.
Sign(r) ==
    LET sigs == raw[r].signatures
    IN  /\ call[r] = Idle
        /\ sigs # <<>>
        /\ \E n \in 0..Len(sigs) :
              /\ Suffer(IF n < Len(sigs) THEN {"key"} ELSE {})
              /\ raw' = [raw EXCEPT ![r].signatures =
                           [i \in DOMAIN sigs |->
                              [sigs[i] EXCEPT !.signed = @ \/ i <= n]]]
        /\ UNCHANGED <<unspent, published, call, records>>

\* VerifyRawTransaction.  A failure is not an error: it clears IsCompleted.
Verify(r) ==
    LET w == raw[r]
    IN  /\ call[r] = Idle
        /\ w.signatures # <<>>
        /\ raw' = [raw EXCEPT ![r] =
                     IF Verifies(w.tx, w.signatures)
                     THEN [w EXCEPT !.isCompleted = TRUE,
                                    !.tx = Combined(w.tx, w.signatures)]
                     ELSE [w EXCEPT !.isCompleted = FALSE]]
        /\ UNCHANGED <<unspent, published, call, records, spent>>

\* SubmitRawTransaction begins.
Submit(r) ==
    /\ call[r] = Idle
    /\ raw[r].tx # NoTx
    /\ raw[r].isCompleted
    /\ Enter(r, [Idle EXCEPT !.at = "validate"])
    /\ UNCHANGED <<unspent, published, raw, records, spent>>

\* The node takes a transaction that spends unspent coins, is signed by their
\* owners and pays out what it spends.
NodeAccepts(tx) ==
    /\ ToSet(tx.inputs) \subseteq unspent
    /\ Signed(tx)
    /\ Total(tx.outputs) = Total(ToSet(tx.inputs))

\* Tx.Validate.
Validate(r) ==
    /\ call[r].at = "validate"
    /\ \E F \in SUBSET {"rpc"} :
          /\ Suffer(F)
          /\ Enter(r, IF F = {} /\ NodeAccepts(raw[r].tx)
                      THEN [Idle EXCEPT !.at = "publish"] ELSE Idle)
    /\ UNCHANGED <<unspent, published, raw, records>>

\* The node takes the transaction of r: its outputs are new coins.
Takes(r) ==
    LET tx == raw[r].tx
        n  == Len(published) + 1
    IN  /\ NodeAccepts(tx)
        /\ unspent' = (unspent \ ToSet(tx.inputs)) \cup
              {[tx |-> n, kind |-> o.kind, address |-> o.address, value |-> o.value] :
                 o \in {x \in tx.outputs : x.address # NoAddress}}
        /\ published' = Append(published, [tx |-> tx, request |-> r])

\* Tx.Publish answers, and SubmitRawTransaction returns the transaction.
Publish(r) ==
    /\ call[r].at = "publish"
    /\ Takes(r)
    /\ raw' = [raw EXCEPT ![r].isSubmit = TRUE]
    /\ records' = records \cup
          {[tx |-> raw[r].tx, request |-> r, amount |-> raw[r].txAmount]}
    /\ Enter(r, Idle)
    /\ UNCHANGED spent

\* Slip: a failed call clears IsCompleted, as if nothing had been sent.
PublishFailsAndForgets(r) ==
    /\ call[r].at = "publish"
    /\ Enter(r, Idle)
    /\ \/ ~NodeAccepts(raw[r].tx) /\ UNCHANGED <<unspent, published, spent>>
       \/ Suffer({"rpc"}) /\ (Takes(r) \/ UNCHANGED <<unspent, published>>)
    /\ raw' = [raw EXCEPT ![r].isCompleted = FALSE]
    /\ UNCHANGED records

\* Tx.Publish fails: the node refuses, or the request or its answer is lost.
PublishFails(r) ==
    /\ call[r].at = "publish"
    /\ Enter(r, Idle)
    /\ \/ ~NodeAccepts(raw[r].tx) /\ UNCHANGED <<unspent, published, spent>>
       \/ Suffer({"rpc"}) /\ (Takes(r) \/ UNCHANGED <<unspent, published>>)
    /\ UNCHANGED <<raw, records>>

Step(r) ==
    \/ Create(r) \/ Summarize(r)
    \/ ReadBalance(r) \/ ReadUnspent(r)
    \/ BuildPayment(r) \/ BuildSummary(r)
    \/ Sign(r) \/ Verify(r)
    \/ Submit(r) \/ Validate(r) \/ Publish(r) \/ PublishFails(r)

Next == \E r \in Request : Step(r)

Spec == Init /\ [][Next]_vars

------------------------------------------------------------------------------
Tx == [inputs : Seq(Coin), outputs : SUBSET Output,
       scripts : Seq([key : Address,
                      message : [spends : Coin, pays : SUBSET Output]])]

KeySignature == [address : Address, signed : BOOLEAN,
                 message : [spends : Coin, pays : SUBSET Output]]

RawTransaction == [tx : Tx, signatures : Seq(KeySignature), isCompleted : BOOLEAN,
                   isSubmit : BOOLEAN, txAmount : Int, feeRate : Nat]

TypeOK ==
    /\ unspent \subseteq Coin
    /\ published \in Seq([tx : Tx, request : Request])
    /\ raw \in [Request -> RawTransaction]
    /\ \A r \in Request :
          /\ call[r].at \in {"idle", "balance", "unspent", "build", "validate", "publish"}
          /\ call[r].left \in Seq(Address)
          /\ call[r].chosen \in Seq(Address)
          /\ call[r].coins \in Seq(Coin)
    /\ \A rec \in records : rec \in [tx : Tx, request : Request, amount : Int]
    /\ spent \in [Fault -> Nat]

\* What SubmitRawTransaction hands to the node carries its owners' signatures
\* for these inputs and outputs, although a failing Create replaces RawHex and
\* leaves older signatures, and Sign may stop half-way.
SentSigned ==
    \A r \in Request : call[r].at \in {"validate", "publish"} => Signed(raw[r].tx)

\* A request takes effect at most once, although the answer of Publish may be
\* lost and the client submits again what it takes for unsent.
PaidOnce ==
    \A m, n \in DOMAIN published :
       published[m].request = published[n].request => m = n

\* The fees a client that asked for r may be charged, in units: what it asked
\* for is truncated, and rounded when the payment is created again.
Charged(r) == {Order[r].fee \div Scale, StringFixed(Order[r].fee)}

\* Every transaction built pays out what it spends, up to the width of the
\* amounts, and no more than a fee that may be charged goes to no address: what
\* truncation leaves over returns to the payer, and a payment created again
\* does not add its rounding up.
NothingStranded ==
    \A r \in Request : raw[r].tx # NoTx =>
       LET tx == raw[r].tx
       IN  /\ (Total(tx.outputs) - Total(ToSet(tx.inputs))) % UintMod = 0
           /\ Total({o \in tx.outputs : o.address = NoAddress}) \in Charged(r)

\* Every output built is worth at most the inputs: NewTransaction reports
\* "Insufficient funds" otherwise.
FundsSuffice ==
    \A r \in Request :
       \A o \in raw[r].tx.outputs : o.value <= Total(ToSet(raw[r].tx.inputs))

\* The parts of a request are whole units of the coin.
Whole(r) ==
    /\ Order[r].fee % Scale = 0
    /\ IsPayment(r) => \A a \in DOMAIN Order[r].to : Order[r].to[a] % Scale = 0

\* The Transaction SubmitRawTransaction returns is one the node took, and its
\* amount is what the account lost by it, or more when an address could not be
\* looked up or an amount was rounded.
AmountTrue ==
    \A rec \in records :
       LET own  == {o \in rec.tx.outputs : o.address # NoAddress
                       /\ OwnerOf[o.address] = Order[rec.request].account}
           gain == Total(own) - Total(ToSet(rec.tx.inputs))
       IN  /\ [tx |-> rec.tx, request |-> rec.request] \in ToSet(published)
           /\ rec.amount <= gain
           /\ Whole(rec.request) /\ spent["lookup"] = 0 => rec.amount = gain

\* What the scanner extracts of the published transactions adds up to what
\* each account has, and each of them shows the fee that was paid.
BooksBalance ==
    LET extract == [n \in DOMAIN published |-> ExtractTransaction(published[n].tx)]
        Part(k) == {n \in DOMAIN published : k \in DOMAIN extract[n]}
        Gain(k, n) == Amounts(extract[n][k].outputs) - Amounts(extract[n][k].inputs)
    IN  \A k \in Account :
          /\ Held(k) = Total({c \in Faucet : OwnerOf[c.address] = k})
                       + Sum([n \in Part(k) |-> Gain(k, n)])
          /\ \A n \in Part(k) :
                extract[n][k].fees \in Charged(published[n].request)

\* What the theorems about amounts assume of the requests and of the chain, and
\* the instances for TLC satisfy: fees fit a uint64, summaries ask for whole
\* units, the coins are worth less than an int64 holds.
FeesFit == \A r \in Request : StringFixed(Order[r].fee) < UintMod

WholeSummaries ==
    \A r \in Request :
       ~IsPayment(r) => Order[r].fee % Scale = 0 /\ Order[r].retained % Scale = 0

SmallSupply == 2 * Total(Faucet) < UintMod

FairOrders == FeesFit /\ WholeSummaries /\ SmallSupply

\* The decoder implements the promise: a request takes effect at most once,
\* whatever was lost and tried again, and moves what it asks for.
Holders  == Account \cup {OwnerOf[a] : a \in Address}
Payments == {r \in Request : IsPayment(r)}
Promise  == INSTANCE TransferSpec
            WITH Holder <- Holders,
                 Payer <- [r \in Request |-> Order[r].account],
                 Fees <- [r \in Request |-> Charged(r)],
                 Gets <- [r \in Payments |-> [h \in Holders |->
                    Sum([a \in {x \in DOMAIN Order[r].to : OwnerOf[x] = h} |->
                           Order[r].to[a] \div Scale])]],
                 Receiver <- [r \in Request \ Payments |->
                                OwnerOf[Order[r].summaryAddress]],
                 holding <- [h \in Holders |-> Held(h)],
                 settled <- {published[n].request : n \in DOMAIN published}

Transfers == Promise!Spec
==============================================================================
