---------------------------- MODULE TransferSpec -----------------------------
(***************************************************************************)
(* What the transaction decoder promises the owners of the accounts, with  *)
(* coins, raw transactions, signatures and the node left out: a request is *)
(* settled at most once, and it moves exactly what it asks for and a fee.  *)
(***************************************************************************)
EXTENDS Integers, FiniteSetsExt

CONSTANTS
    Request,   \* the requests
    Holder,    \* the accounts, and those of strangers
    Payer,     \* Payer[r]: the account that pays
    Fees,      \* Fees[r]: what the fee may be, in units
    Payments,  \* the requests that pay given amounts
    Gets,      \* Gets[r][h]: what payment r gives to h
    Receiver   \* Receiver[r]: where a summary goes

VARIABLES
    holding,   \* holding[h]: what h owns
    settled    \* the requests that took effect

vars == <<holding, settled>>

\* h gets gets[h], the payer of r gives all of it and a fee.
Move(r, gets) ==
    \E fee \in Fees[r] :
       holding' = [h \in Holder |->
          holding[h] + gets[h]
          - IF h = Payer[r] THEN fee + MapThenSumSet(LAMBDA x : gets[x], Holder)
                            ELSE 0]

Pay(r) == r \in Payments /\ Move(r, Gets[r])

\* A summary moves what the payer has spare, in one sum.
Sweep(r) ==
    /\ r \notin Payments
    /\ \E amount \in 0..holding[Payer[r]] :
          Move(r, [h \in Holder |-> IF h = Receiver[r] THEN amount ELSE 0])

Settle(r) ==
    /\ r \notin settled
    /\ settled' = settled \cup {r}
    /\ Pay(r) \/ Sweep(r)

Init ==
    /\ holding \in [Holder -> Nat]
    /\ settled = {}

Next == \E r \in Request : Settle(r)

Spec == Init /\ [][Next]_vars
==============================================================================
