---------------------------- MODULE MCTxDecoder -----------------------------
(***************************************************************************)
(* Instances of TxDecoder: alice has two addresses and bob one, x is the   *)
(* address of a stranger.  Amounts of requests are in halves of a unit.    *)
(***************************************************************************)
EXTENDS TxDecoder, TLC

TheOwnerOf == "a1" :> "alice" @@ "a2" :> "alice" @@ "b" :> "bob" @@ "x" :> "stranger"
TheBook    == [alice |-> <<"a1", "a2">>, bob |-> <<"b">>]

Minted(a, v) == [tx |-> 0, kind |-> "to", address |-> a, value |-> v]

\* Both requests of alice want all her coins.
TheFaucet == {Minted("a1", 2), Minted("a1", 3), Minted("a2", 1), Minted("b", 4)}

\* alice pays bob two units and moves one to herself; she also sends all but
\* one unit of each address to the stranger, with a fee of two units, which is
\* more than she has left when her payment came first; bob pays her a unit and
\* a half with a fee of as much: one unit at first, two when created again.
TheOrder ==
    [pay  |-> [kind |-> "payment", account |-> "alice", fee |-> 2,
               to |-> ("b" :> 4 @@ "a2" :> 2)],
     sum  |-> [kind |-> "summary", account |-> "alice", fee |-> 4,
               minTransfer |-> 2, retained |-> 2, summaryAddress |-> "x"],
     back |-> [kind |-> "payment", account |-> "bob", fee |-> 3,
               to |-> "a1" :> 3]]

TheBudget == [rpc |-> 1, address |-> 1, lookup |-> 1, key |-> 1, create |-> 3]

\* A summary with no minimum, of an account that holds less than the fee.
DustFaucet == {Minted("a1", 1), Minted("a2", 1)}
DustOrder  ==
    [sum |-> [kind |-> "summary", account |-> "alice", fee |-> 6,
              minTransfer |-> 0, retained |-> 0, summaryAddress |-> "x"]]

\* The hypotheses of the theorems about amounts hold here.
ASSUME FairInstance == FairOrders /\ IsFiniteSet(Holders)
==============================================================================
